--------------------------- MODULE ReadLineProofs ---------------------------
(***************************************************************************)
(* Proof that read_line delivers the lines of the file, for any contents,  *)
(* any size of the buffer and any lookahead before.  The lines of a text   *)
(* are a recursive function of the position; that it has the equation it   *)
(* is defined by is proved here from the least-number principle.           *)
(***************************************************************************)
EXTENDS TerminalProofs

(* The position behind the line at p. *)
After(q, p) == p + Width(q, p) + EndWidth(q, p)

LEMMA WidthExists ==
  ASSUME NEW q \in Seq(Char), NEW p \in 1 .. Len(q) + 1
  PROVE  \E n \in 0 .. LineSize : IsWidth(q, p, n)
  <1> DEFINE T == {n \in Nat : n = LineSize \/ p + n = Len(q) + 1
                                 \/ (p + n <= Len(q) /\ q[p + n] # "a")}
  <1>1. Len(q) \in Nat /\ LineSize \in Nat /\ p \in Nat /\ p >= 1 /\ p <= Len(q) + 1
    BY TerminalAssumption
  <1>2. LineSize \in T /\ (Len(q) + 1) - p \in T
    BY <1>1
  <1>3. PICK n \in T : \A m \in T : n <= m
    <2> HIDE DEF T
    <2>1. T \subseteq Nat /\ T # {}
      BY <1>2 DEF T
    <2> QED
      BY <2>1, LeastNumber
  <1>4. n \in Nat /\ n <= LineSize /\ p + n <= Len(q) + 1
    <2>1. n \in Nat
      OBVIOUS
    <2> HIDE DEF T
    <2>2. n <= LineSize /\ n <= (Len(q) + 1) - p
      BY <1>2, <1>3
    <2> QED
      BY <1>1, <2>1, <2>2
  <1>5. ASSUME NEW i \in p .. p + n - 1 PROVE q[i] = "a"
    <2>1. i - p \in Nat /\ i - p < n /\ p + (i - p) = i /\ i <= Len(q)
      BY <1>1, <1>4
    <2>2. i - p \notin T
      BY <1>3, <1>4, <2>1
    <2> QED
      BY <2>1, <2>2
  <1>6. n = LineSize \/ p + n = Len(q) + 1 \/ q[p + n] # "a"
    BY <1>3
  <1> QED
    BY <1>1, <1>4, <1>5, <1>6, SMTT(20) DEF IsWidth

LEMMA WidthIs ==
  ASSUME NEW q \in Seq(Char), NEW p \in 1 .. Len(q) + 1, NEW n \in 0 .. LineSize, IsWidth(q, p, n)
  PROVE  Width(q, p) = n
  <1> DEFINE w == Width(q, p)
  <1>1. w \in 0 .. LineSize /\ IsWidth(q, p, w)
    BY WidthExists DEF Width
  <1>2. Len(q) \in Nat /\ LineSize \in Nat /\ p \in Nat
    BY TerminalAssumption
  <1> HIDE DEF w
  <1>3. ASSUME w < n PROVE FALSE
    <2>1. p + w \in p .. p + n - 1 /\ w # LineSize /\ p + w # Len(q) + 1
      BY <1>1, <1>2, <1>3 DEF IsWidth
    <2> QED
      BY <1>1, <2>1 DEF IsWidth
  <1>4. ASSUME n < w PROVE FALSE
    <2>1. p + n \in p .. p + w - 1 /\ n # LineSize /\ p + n # Len(q) + 1
      BY <1>1, <1>2, <1>4 DEF IsWidth
    <2> QED
      BY <1>1, <2>1 DEF IsWidth
  <1> QED
    BY <1>1, <1>2, <1>3, <1>4 DEF w

(* A carriage return and a line feed at k. *)
LEMMA CrLfAt ==
  ASSUME NEW q \in Seq(Char), NEW k \in 1 .. Len(q)
  PROVE  IsPrefix(<<"r", "n">>, SubSeq(q, k, Len(q)))
           <=> k + 1 <= Len(q) /\ q[k] = "r" /\ q[k + 1] = "n"
  <1> DEFINE t == SubSeq(q, k, Len(q))
             c == <<"r", "n">>
  <1>1. /\ t \in Seq(Char) /\ Len(t) = Len(q) - k + 1 /\ Len(q) \in Nat
        /\ \A i \in 1 .. Len(q) - k + 1 : t[i] = q[k + i - 1]
    OBVIOUS
  <1>2. c \in Seq(Char) /\ Len(c) = 2 /\ c[1] = "r" /\ c[2] = "n"
    BY DEF Char
  <1>3. IsPrefix(c, t) <=> 2 <= Len(t) /\ SubSeq(c, 1, 2) = SubSeq(t, 1, 2)
    BY <1>2 DEF IsPrefix
  <1> HIDE DEF t, c
  <1>4. ASSUME 2 <= Len(t)
        PROVE  SubSeq(c, 1, 2) = SubSeq(t, 1, 2) <=> c[1] = t[1] /\ c[2] = t[2]
    <2>0. ASSUME NEW u \in Seq(Char), 2 <= Len(u)
          PROVE  /\ SubSeq(u, 1, 2) \in Seq(Char) /\ Len(SubSeq(u, 1, 2)) = 2
                 /\ SubSeq(u, 1, 2)[1] = u[1] /\ SubSeq(u, 1, 2)[2] = u[2]
      BY <2>0
    <2>1. /\ SubSeq(c, 1, 2) \in Seq(Char) /\ Len(SubSeq(c, 1, 2)) = 2
          /\ SubSeq(c, 1, 2)[1] = c[1] /\ SubSeq(c, 1, 2)[2] = c[2]
      <3>1. c \in Seq(Char) /\ 2 <= Len(c)
        BY <1>2
      <3> QED
        BY <2>0, <3>1, Zenon
    <2>2. /\ SubSeq(t, 1, 2) \in Seq(Char) /\ Len(SubSeq(t, 1, 2)) = 2
          /\ SubSeq(t, 1, 2)[1] = t[1] /\ SubSeq(t, 1, 2)[2] = t[2]
      BY <1>1, <1>4, <2>0
    <2>3. ASSUME c[1] = t[1], c[2] = t[2] PROVE SubSeq(c, 1, 2) = SubSeq(t, 1, 2)
      <3>1. \A i \in 1 .. 2 : SubSeq(c, 1, 2)[i] = SubSeq(t, 1, 2)[i]
        BY <2>1, <2>2, <2>3
      <3> QED
        BY <2>1, <2>2, <3>1, SeqEqual
    <2> QED
      BY <2>1, <2>2, <2>3
  <1> QED
    BY <1>1, <1>2, <1>3, <1>4 DEF t, c

(* Every line takes something, and ends within the text. *)
LEMMA AfterRange ==
  ASSUME NEW q \in Seq(Char), NEW p \in 1 .. Len(q)
  PROVE  /\ After(q, p) \in p + 1 .. Len(q) + 1
         /\ SubSeq(q, p, p + Width(q, p) - 1) \in Seq(Char)
  <1> DEFINE w == Width(q, p)
             e == EndWidth(q, p)
  <1>1. Len(q) \in Nat /\ LineSize \in Nat /\ LineSize # 0
    BY TerminalAssumption
  <1>2. p \in 1 .. Len(q) + 1 /\ p \in Nat /\ p >= 1
    BY <1>1
  <1>3. w \in 0 .. LineSize /\ IsWidth(q, p, w)
    BY <1>2, WidthExists DEF Width
  <1>4. /\ w \in Nat /\ p + w <= Len(q) + 1
        /\ w = LineSize \/ p + w = Len(q) + 1 \/ q[p + w] # "a"
    BY <1>1, <1>3 DEF IsWidth
  <1>5. /\ w = LineSize \/ p + w > Len(q) => e = 0
        /\ ~(w = LineSize \/ p + w > Len(q)) =>
             \/ e = 1
             \/ e = 2 /\ IsPrefix(<<"r", "n">>, SubSeq(q, p + w, Len(q)))
    BY DEF EndWidth
  <1>6. After(q, p) = p + w + e
    BY DEF After
  <1> HIDE DEF w, e
  <1>7. ASSUME w = LineSize \/ p + w > Len(q) PROVE p + w + e \in p + 1 .. Len(q) + 1
    <2>1. e = 0
      BY <1>5, <1>7
    <2> QED
      BY <1>1, <1>2, <1>4, <1>7, <2>1
  <1>8. ASSUME ~(w = LineSize \/ p + w > Len(q)) PROVE p + w + e \in p + 1 .. Len(q) + 1
    <2>1. p + w \in 1 .. Len(q)
      BY <1>1, <1>2, <1>4, <1>8
    <2>2. e \in {1, 2} /\ (e = 2 => p + w + 1 <= Len(q))
      BY <1>5, <1>8, <2>1, CrLfAt
    <2> QED
      BY <1>1, <1>2, <1>4, <2>1, <2>2
  <1>9. SubSeq(q, p, p + w - 1) \in Seq(Char)
    <2>1. \A i \in p .. p + w - 1 : q[i] \in Char
      BY <1>1, <1>2, <1>4
    <2>2. p \in Int /\ p + w - 1 \in Int
      BY <1>2, <1>4
    <2> QED
      BY <2>1, <2>2, SubSeqProperties
  <1> QED
    BY <1>6, <1>7, <1>8, <1>9 DEF w

-----------------------------------------------------------------------------
(* The recursive definition defines a function. *)

Line(q, p) == <<SubSeq(q, p, p + Width(q, p) - 1)>>

(* f is the lines from k positions before the end on. *)
Works(q, k, f) ==
  /\ f \in [Len(q) + 1 - k .. Len(q) + 1 -> Seq(Seq(Char))]
  /\ \A p \in Len(q) + 1 - k .. Len(q) + 1 :
       f[p] = IF p > Len(q) THEN <<>> ELSE Line(q, p) \o f[After(q, p)]

LEMMA OneMore ==
  ASSUME NEW q \in Seq(Char), NEW k \in Nat, k < Len(q), NEW f, Works(q, k, f)
  PROVE  \E g : Works(q, k + 1, g)
  <1> DEFINE N == Len(q)
             b == N - k
             g == [p \in b .. N + 1 |-> IF p = b THEN Line(q, b) \o f[After(q, b)] ELSE f[p]]
  <1>1. N \in Nat /\ b \in 1 .. N /\ N + 1 - k = b + 1 /\ N + 1 - (k + 1) = b
    OBVIOUS
  <1>2. After(q, b) \in b + 1 .. N + 1 /\ Line(q, b) \in Seq(Seq(Char))
    BY <1>1, AfterRange, SMTT(20) DEF Line
  <1>3. /\ f \in [b + 1 .. N + 1 -> Seq(Seq(Char))]
        /\ \A p \in b + 1 .. N + 1 :
             f[p] = IF p > N THEN <<>> ELSE Line(q, p) \o f[After(q, p)]
    BY <1>1 DEF Works
  <1>4. \A p \in b + 1 .. N : After(q, p) \in p + 1 .. N + 1
    BY <1>1, AfterRange
  <1> HIDE DEF b, N
  <1>5. Line(q, b) \o f[After(q, b)] \in Seq(Seq(Char))
    BY <1>2, <1>3
  <1>6. g \in [b .. N + 1 -> Seq(Seq(Char))]
    BY <1>1, <1>3, <1>5
  <1>7. g[b] = Line(q, b) \o f[After(q, b)] /\ \A p \in b + 1 .. N + 1 : g[p] = f[p]
    BY <1>1
  <1> HIDE DEF g
  <1>8. ASSUME NEW p \in b .. N + 1
        PROVE  g[p] = IF p > N THEN <<>> ELSE Line(q, p) \o g[After(q, p)]
    <2>1. CASE p = b
      <3>1. g[After(q, b)] = f[After(q, b)] /\ ~(b > N)
        BY <1>1, <1>2, <1>7
      <3> QED
        BY <1>7, <2>1, <3>1
    <2>2. CASE p \in b + 1 .. N
      <3>1. After(q, p) \in b + 1 .. N + 1
        BY <1>1, <1>4, <2>2
      <3>2. p \in b + 1 .. N + 1 /\ ~(p > N)
        BY <1>1, <2>2
      <3>3. g[p] = f[p] /\ g[After(q, p)] = f[After(q, p)]
        BY <1>7, <3>1, <3>2
      <3> QED
        BY <1>3, <3>2, <3>3
    <2>3. CASE p = N + 1
      <3>1. p \in b + 1 .. N + 1 /\ p > N
        BY <1>1, <2>3
      <3> QED
        BY <1>3, <1>7, <3>1
    <2> QED
      BY <1>1, <2>1, <2>2, <2>3
  <1> QED
    BY <1>1, <1>6, <1>8 DEF Works, N

LEMMA AllWork ==
  ASSUME NEW q \in Seq(Char)
  PROVE  \E f : Works(q, Len(q), f)
  <1> DEFINE T == {k \in Nat : k <= Len(q) /\ ~\E f : Works(q, k, f)}
  <1>0. Len(q) \in Nat
    OBVIOUS
  <1> SUFFICES ASSUME T # {} PROVE FALSE
    <2>1. Len(q) \in T \/ \E f : Works(q, Len(q), f)
      BY <1>0
    <2> QED
      BY <2>1
  <1>1. PICK k \in T : \A m \in T : k <= m
    <2> HIDE DEF T
    <2>1. T \subseteq Nat
      BY DEF T
    <2> QED
      BY <2>1, LeastNumber
  <1>2. k \in Nat /\ k <= Len(q) /\ ~\E f : Works(q, k, f)
    OBVIOUS
  <1>3. Works(q, 0, [p \in Len(q) + 1 .. Len(q) + 1 |-> <<>>])
    <2>1. Len(q) + 1 - 0 = Len(q) + 1 /\ \A p \in Len(q) + 1 .. Len(q) + 1 : p > Len(q)
      BY <1>0
    <2> QED
      BY <1>0, <2>1 DEF Works
  <1>4. k # 0
    BY <1>2, <1>3
  <1>5. k - 1 \in Nat /\ k - 1 < Len(q) /\ k - 1 \notin T
    BY <1>0, <1>1, <1>2, <1>4
  <1>6. PICK f : Works(q, k - 1, f)
    BY <1>5
  <1>7. \E g : Works(q, (k - 1) + 1, g)
    BY <1>5, <1>6, OneMore
  <1> QED
    BY <1>2, <1>7

LEMMA LinesEquation ==
  ASSUME NEW q \in Seq(Char)
  PROVE  /\ LinesFrom(q) \in [1 .. Len(q) + 1 -> Seq(Seq(Char))]
         /\ LinesFrom(q)[Len(q) + 1] = <<>>
         /\ \A p \in 1 .. Len(q) : LinesFrom(q)[p] = Line(q, p) \o LinesFrom(q)[After(q, p)]
  <1> DEFINE Body(f) == [p \in 1 .. Len(q) + 1 |->
                           IF p > Len(q) THEN <<>>
                           ELSE <<SubSeq(q, p, p + Width(q, p) - 1)>>
                                  \o f[p + Width(q, p) + EndWidth(q, p)]]
             F == CHOOSE f : f = Body(f)
  <1>0. Len(q) \in Nat /\ Len(q) + 1 - Len(q) = 1
    OBVIOUS
  <1>1. LinesFrom(q) = F
    BY DEF LinesFrom
  <1>2. PICK f : Works(q, Len(q), f)
    BY AllWork
  <1>3. f = Body(f)
    BY <1>0, <1>2 DEF Works, Line, After
  <1>4. F = Body(F)
    BY <1>3, Zenon
  <1>5. /\ DOMAIN F = 1 .. Len(q) + 1
        /\ \A p \in 1 .. Len(q) + 1 : F[p] = IF p > Len(q) THEN <<>> ELSE Line(q, p) \o F[After(q, p)]
        /\ F = [p \in DOMAIN F |-> F[p]]
    <2> HIDE DEF F
    <2> QED
      BY <1>4 DEF Line, After
  <1>6. /\ f \in [1 .. Len(q) + 1 -> Seq(Seq(Char))]
        /\ \A p \in 1 .. Len(q) + 1 : f[p] = IF p > Len(q) THEN <<>> ELSE Line(q, p) \o f[After(q, p)]
    BY <1>0, <1>2 DEF Works
  <1> HIDE DEF F, Body
  <1>7. \A p \in 1 .. Len(q) + 1 : F[p] = f[p]
    <2> DEFINE T == {k \in Nat : k <= Len(q) /\ F[Len(q) + 1 - k] # f[Len(q) + 1 - k]}
    <2>1. ASSUME T # {} PROVE FALSE
      <3>1. PICK k \in T : \A m \in T : k <= m
        <4> HIDE DEF T
        <4>1. T \subseteq Nat
          BY DEF T
        <4> QED
          BY <2>1, <4>1, LeastNumber
      <3> DEFINE p == Len(q) + 1 - k
      <3>2. k \in Nat /\ k <= Len(q) /\ F[p] # f[p] /\ p \in 1 .. Len(q) + 1
        BY <1>0
      <3>3. p \in 1 .. Len(q)
        BY <1>0, <1>5, <1>6, <3>2
      <3>4. After(q, p) \in p + 1 .. Len(q) + 1
        BY <3>3, AfterRange
      <3> DEFINE m == Len(q) + 1 - After(q, p)
      <3>5. m \in Nat /\ m < k /\ m <= Len(q) /\ Len(q) + 1 - m = After(q, p)
        BY <1>0, <3>2, <3>3, <3>4
      <3>6. m \notin T
        BY <3>1, <3>2, <3>5
      <3>7. F[After(q, p)] = f[After(q, p)]
        BY <3>5, <3>6
      <3>8. ~(p > Len(q)) /\ p \in 1 .. Len(q) + 1
        BY <1>0, <3>3
      <3> HIDE DEF p, m, T
      <3> QED
        BY <1>5, <1>6, <3>2, <3>7, <3>8
    <2>2. ASSUME NEW p \in 1 .. Len(q) + 1 PROVE F[p] = f[p]
      <3>1. Len(q) + 1 - p \in Nat /\ Len(q) + 1 - p <= Len(q) /\ Len(q) + 1 - (Len(q) + 1 - p) = p
        BY <1>0
      <3>2. Len(q) + 1 - p \notin T
        BY <2>1
      <3> QED
        BY <3>1, <3>2
    <2> QED
      BY <2>2
  <1>8. F \in [1 .. Len(q) + 1 -> Seq(Seq(Char))]
    BY <1>5, <1>6, <1>7
  <1>9. /\ Len(q) + 1 \in 1 .. Len(q) + 1 /\ Len(q) + 1 > Len(q)
        /\ \A p \in 1 .. Len(q) : p \in 1 .. Len(q) + 1 /\ ~(p > Len(q))
    BY <1>0
  <1> QED
    BY <1>1, <1>5, <1>8, <1>9

(* One line: m ordinary characters at p, and a line end of k. *)
LineAt(q, p, m, k) ==
  /\ m <= LineSize /\ p + m + k <= Len(q) + 1
  /\ \A i \in p .. p + m - 1 : q[i] = "a"
  /\ k = 0 => m = LineSize \/ p + m = Len(q) + 1
  /\ k = 1 => /\ m < LineSize /\ q[p + m] # "a"
              /\ ~(p + m + 1 <= Len(q) /\ q[p + m] = "r" /\ q[p + m + 1] = "n")
  /\ k = 2 => m < LineSize /\ q[p + m] = "r" /\ q[p + m + 1] = "n"

LEMMA FirstLine ==
  ASSUME NEW q \in Seq(Char), NEW p \in 1 .. Len(q), NEW m \in Nat, NEW k \in {0, 1, 2},
         LineAt(q, p, m, k)
  PROVE  LinesFrom(q)[p] = <<SubSeq(q, p, p + m - 1)>> \o LinesFrom(q)[p + m + k]
  <1>1. Len(q) \in Nat /\ LineSize \in Nat /\ p \in 1 .. Len(q) + 1 /\ m \in 0 .. LineSize
    BY TerminalAssumption DEF LineAt
  <1>2. IsWidth(q, p, m)
    BY <1>1 DEF IsWidth, LineAt
  <1>3. Width(q, p) = m
    BY <1>1, <1>2, WidthIs
  <1>4. EndWidth(q, p) = k
    <2>1. CASE k = 0
      <3>1. m = LineSize \/ p + m > Len(q)
        BY <1>1, <2>1 DEF LineAt
      <3> QED
        BY <1>3, <2>1, <3>1 DEF EndWidth
    <2>2. CASE k # 0
      <3>1. p + m \in 1 .. Len(q) /\ m # LineSize /\ ~(p + m > Len(q))
        BY <1>1, <2>2 DEF LineAt
      <3>2. IsPrefix(<<"r", "n">>, SubSeq(q, p + m, Len(q)))
              <=> p + m + 1 <= Len(q) /\ q[p + m] = "r" /\ q[p + m + 1] = "n"
        BY <3>1, CrLfAt
      <3>3. IsPrefix(<<"r", "n">>, SubSeq(q, p + m, Len(q))) <=> k = 2
        BY <1>1, <2>2, <3>2 DEF LineAt
      <3> QED
        BY <1>3, <2>2, <3>1, <3>3 DEF EndWidth
    <2> QED
      BY <2>1, <2>2
  <1> QED
    BY <1>3, <1>4, LinesEquation DEF Line, After

-----------------------------------------------------------------------------
(* read_line. *)

(* As long as only read_line takes from the file, and nothing is dropped. *)
OnlyLines == got["file"] = <<>> /\ dropped["file"] = 0

(* The characters of the line in hand, by the place in read_line: m of     *)
(* them ordinary.                                                          *)
Ordinary(m) == \A i \in 1 .. m : hand[i] = "a"
HandLine ==
  LET n == Len(hand) IN
  /\ pc = "line" => n <= LineSize /\ Ordinary(n)
  /\ pc = "line_lf" => n <= LineSize /\ Ordinary(n - 1) /\ hand[n] = "n"
  /\ pc = "line_cr" => n <= LineSize /\ Ordinary(n - 1) /\ hand[n] = "r"
  /\ pc \in {"line_crlf", "line_note", "line_char"} =>
       n - 1 <= LineSize /\ Ordinary(n - 2) /\ hand[n - 1] = "r"
  /\ pc = "line_crlf" => hand[n] = "n"
  /\ pc \in {"line_note", "line_char"} => hand[n] # "n"

(* The lines of the file are those delivered, and those behind what        *)
(* read_line has counted.                                                  *)
Lines ==
  /\ lines \in Seq(Seq(Char))
  /\ OnlyLines => LinesOf(file) = lines \o LinesFrom(file)[u3 + 1]


(* What is in hand is in the file behind what read_line has counted. *)
LEMMA HandInFile ==
  ASSUME Types, KeysConserved, OnlyLines, stream = "file"
  PROVE  /\ u3 + Len(hand) <= Len(file)
         /\ \A i \in 1 .. Len(hand) : file[u3 + i] = hand[i]
         /\ AtEnd(stream) => u3 + Len(hand) = Len(file)
  <1> DEFINE r == Rest("file")
             p == pushed["file"]
             i == in["file"]
  <1>1. /\ hand \in Seq(Char) /\ p \in Seq(Char) /\ i \in Seq(Char) /\ file \in Seq(Char)
        /\ u3 \in Nat
    BY DEF Types, InputTypes, OutputTypes, Streams
  <1>2. r = (hand \o p) \o i
    BY DEF Rest
  <1>3. EndOf(r, file)
    <2>1. IsSuffix(r, file) /\ r \in Seq(Char)
      BY RestType DEF KeysConserved, Streams
    <2> QED
      BY <1>1, <2>1, SuffixIsEnd
  <1>4. 0 + u3 + Len(r) + 0 = Len(file)
    <2>1. Len(<<>>) = 0
      OBVIOUS
    <2> QED
      BY <2>1 DEF KeysConserved, OnlyLines
  <1>5. AtEnd(stream) => p \o i = <<>>
    BY DEF AtEnd
  <1> HIDE DEF p, i
  <1>6. /\ r \in Seq(Char) /\ Len(r) = Len(hand) + Len(p) + Len(i)
        /\ Len(hand) \in Nat /\ Len(p) \in Nat /\ Len(i) \in Nat /\ Len(file) \in Nat
        /\ \A j \in 1 .. Len(hand) : r[j] = hand[j]
    <2> DEFINE h == hand \o p
    <2>1. h \in Seq(Char) /\ Len(h) = Len(hand) + Len(p) /\ \A j \in 1 .. Len(hand) : h[j] = hand[j]
      BY <1>1
    <2>2. r = h \o i
      BY <1>2
    <2> HIDE DEF h, r
    <2>3. r \in Seq(Char) /\ Len(r) = Len(h) + Len(i) /\ \A j \in 1 .. Len(h) : r[j] = h[j]
      <3>1. ASSUME NEW a \in Seq(Char), NEW b \in Seq(Char)
            PROVE  /\ a \o b \in Seq(Char) /\ Len(a \o b) = Len(a) + Len(b)
                   /\ \A j \in 1 .. Len(a) : (a \o b)[j] = a[j]
        OBVIOUS
      <3> QED
        BY <1>1, <2>1, <2>2, <3>1, Zenon
    <2>4. Len(hand) \in Nat /\ Len(p) \in Nat /\ Len(i) \in Nat /\ Len(file) \in Nat
      BY <1>1
    <2> QED
      BY <2>1, <2>3, <2>4
  <1>7. p \o i = <<>> => Len(p) = 0 /\ Len(i) = 0
    BY <1>1, ConcatEqualIffEmpty
  <1> DEFINE n == Len(file)
             l == Len(r)
             h == Len(hand)
  <1>8. u3 + l = n /\ n \in Nat /\ l \in Nat /\ h \in Nat /\ h <= l /\ (p \o i = <<>> => l = h)
    BY <1>1, <1>4, <1>6, <1>7
  <1>9. \A j \in 1 .. l : r[j] = file[n - l + j]
    BY <1>3 DEF EndOf
  <1>10. \A j \in 1 .. h : r[j] = hand[j]
    BY <1>6
  <1> HIDE DEF r, n, l, h
  <1>11. \A j \in 1 .. h : file[u3 + j] = hand[j]
    <2> SUFFICES ASSUME NEW j \in 1 .. h PROVE file[u3 + j] = hand[j]
      OBVIOUS
    <2>1. j \in 1 .. l /\ n - l + j = u3 + j
      BY <1>1, <1>8
    <2> QED
      BY <1>9, <1>10, <2>1
  <1>12. u3 + h <= n /\ (AtEnd(stream) => u3 + h = n)
    BY <1>1, <1>5, <1>8
  <1> QED
    BY <1>11, <1>12 DEF h, n

LEMMA AppendConcat ==
  ASSUME NEW S, NEW s \in Seq(S), NEW e \in S, NEW t \in Seq(S)
  PROVE  s \o (<<e>> \o t) = Append(s, e) \o t
  OBVIOUS

(* In hand is a line of m characters with a line end of k. *)
LineInHand(m, k) ==
  LET n == Len(hand) IN
  /\ m \in Nat /\ k \in {0, 1, 2} /\ m + k \in 1 .. n /\ m <= LineSize /\ Ordinary(m)
  /\ k = 0 => m = LineSize \/ (AtEnd(stream) /\ m = n)
  /\ k = 1 => /\ m < LineSize /\ hand[m + 1] # "a"
              /\ hand[m + 1] = "r" => \/ AtEnd(stream) /\ m + 1 = n
                                      \/ m + 2 <= n /\ hand[m + 2] # "n"
  /\ k = 2 => m < LineSize /\ hand[m + 1] = "r" /\ hand[m + 2] = "n"

(* This line is delivered. *)
Delivers(m, k) == lines' = Append(lines, SubSeq(hand, 1, m)) /\ u3' = u3 + (m + k)

LEMMA LineDelivered ==
  ASSUME Types, KeysConserved, Lines, stream = "file", UNCHANGED <<file, got, dropped>>,
         NEW m \in Nat, NEW k \in {0, 1, 2}, m + k \in 1 .. Len(hand),
         OnlyLines => LineAt(file, u3 + 1, m, k),
         Delivers(m, k)
  PROVE  Lines'
  <1> DEFINE text == SubSeq(hand, 1, m)
             F == LinesFrom(file)
  <1>1. lines' = Append(lines, text) /\ u3' = u3 + (m + k) /\ u3 \in Nat
    BY DEF Delivers, Types, OutputTypes
  <1>2. hand \in Seq(Char) /\ file \in Seq(Char) /\ lines \in Seq(Seq(Char))
    BY DEF Types, InputTypes, Lines
  <1>3. /\ text \in Seq(Char) /\ Len(text) = m /\ \A i \in 1 .. m : text[i] = hand[i]
        /\ Len(hand) \in Nat /\ m <= Len(hand)
    BY <1>2
  <1>4. lines' \in Seq(Seq(Char))
    <2> HIDE DEF text
    <2> QED
      BY <1>1, <1>2, <1>3
  <1>5. ASSUME OnlyLines PROVE LinesOf(file) = lines' \o F[u3' + 1]
    <2>1. /\ u3 + Len(hand) <= Len(file)
          /\ \A i \in 1 .. Len(hand) : file[u3 + i] = hand[i]
      BY <1>5, HandInFile
    <2>2. u3 + 1 \in 1 .. Len(file) /\ u3 + 1 + m + k = u3' + 1 /\ u3' + 1 \in 1 .. Len(file) + 1
      BY <1>1, <1>2, <1>3, <2>1
    <2>3. F[u3 + 1] = <<SubSeq(file, u3 + 1, u3 + 1 + m - 1)>> \o F[u3 + 1 + m + k]
      BY <1>2, <1>5, <2>2, FirstLine
    <2>4. SubSeq(file, u3 + 1, u3 + 1 + m - 1) = text
      <3> DEFINE t == SubSeq(file, u3 + 1, u3 + 1 + m - 1)
      <3>1. t \in Seq(Char) /\ Len(t) = m /\ \A i \in 1 .. m : t[i] = file[u3 + i]
        BY <1>1, <1>2, <1>3, <2>1
      <3> HIDE DEF t, text
      <3>2. \A i \in 1 .. m : t[i] = text[i]
        BY <1>3, <2>1, <3>1
      <3> QED
        BY <1>3, <3>1, <3>2, SeqEqual DEF t
    <2>5. F[u3' + 1] \in Seq(Seq(Char))
      BY <1>2, <2>2, LinesEquation
    <2>6. LinesOf(file) = lines \o F[u3 + 1]
      BY <1>5 DEF Lines
    <2> DEFINE f == F[u3' + 1]
    <2>7. LinesOf(file) = lines \o (<<text>> \o f)
      BY <2>2, <2>3, <2>4, <2>6
    <2> HIDE DEF text, f
    <2>8. lines \o (<<text>> \o f) = Append(lines, text) \o f
      <3> DEFINE S == Seq(Char)
      <3>1. lines \in Seq(S) /\ text \in S /\ f \in Seq(S)
        BY <1>2, <1>3, <2>5 DEF f
      <3> HIDE DEF S
      <3> QED
        BY <3>1, AppendConcat
    <2> QED
      BY <1>1, <2>7, <2>8 DEF f
  <1>6. OnlyLines' => OnlyLines
    BY DEF OnlyLines
  <1> QED
    BY <1>4, <1>5, <1>6 DEF Lines

(* A step that delivers no line. *)
LEMMA LinesKept ==
  ASSUME Lines, UNCHANGED <<file, lines, u3>>, OnlyLines' => OnlyLines
  PROVE  Lines'
  BY DEF Lines


(* The steps that go into read_line, or on in it. *)
LEMMA HandLineStep ==
  ASSUME Types, Hands, HandLine, [Next]_vars
  PROVE  HandLine'
  <1> USE DEF Goto, Return
  <1>0. hand \in Seq(Char) /\ Len(hand) \in Nat /\ LineSize \in Nat
    BY TerminalAssumption DEF Types, InputTypes
  <1>1. ASSUME UNCHANGED hand, pc' = pc \/ pc' \notin Lining \/ (pc = "line_note" /\ pc' = "line_char")
        PROVE  HandLine'
    BY <1>1 DEF HandLine, Ordinary, Lining
  <1>2. ASSUME pc' \notin Lining PROVE HandLine'
    BY <1>2 DEF HandLine, Lining
  <1>3. ASSUME getc(stream), ~AtEnd(stream)
        PROVE  /\ Len(hand') = Len(hand) + 1 /\ hand'[Len(hand) + 1] = Next1(stream)
               /\ \A j \in 1 .. Len(hand) : hand'[j] = hand[j]
               /\ Next1(stream) \in Char
    <2>1. stream \in Streams
      BY DEF Types, ControlTypes
    <2>2. hand' = Append(hand, Next1(stream)) /\ Next1(stream) \in Char
      BY <1>3, <2>1, Getc
    <2> QED
      BY <1>0, <2>2
  <1>4. CASE UNCHANGED vars
    BY <1>1, <1>4 DEF vars
  <1>5. CASE Signal \/ gforth_cleanup
    <2>1. CASE Interrupt \/ termprep
      BY <1>1, <2>1 DEF Interrupt, termprep, input, Lining
    <2>2. CASE Deliver \/ OtherSignal \/ Quit \/ gforth_cleanup
      <3>1. signal_throw \/ graceful_exit
        BY <2>2 DEF Deliver, OtherSignal, Quit, gforth_cleanup
      <3>2. pc' \in {"forth", "exit"}
        BY <3>1, ThrowModes
      <3> QED
        BY <1>2, <3>2 DEF Lining
    <2> QED
      BY <1>5, <2>1, <2>2 DEF Signal
  <1>6. CASE \/ \E s \in Streams : key_avail(s) \/ getkey(s)
             \/ gforth_system \/ prep_start \/ prep_get \/ prep_set \/ prep_done
             \/ system_set \/ system_run \/ avail \/ fread \/ reget \/ unget_char
    <2>1. pc' \notin Lining
      BY <1>6 DEF key_avail, getkey, gforth_system, prep_start, prep_get, prep_set, prep_done,
                  system_set, system_run, avail, fread, reget, unget_char, Lining, Types, ControlTypes
    <2> QED
      BY <1>2, <2>1
  <1>7. CASE unget_note
    BY <1>1, <1>7 DEF unget_note, Lining
  <1>8. CASE line_lf \/ line_crlf \/ line_char
    BY <1>2, <1>8 DEF line_lf, line_crlf, line_char, EndLine, Lining
  <1>9. CASE read_line
    <2>1. pc' = "line" /\ hand' = <<>>
      BY <1>9 DEF read_line, Hands, Empty
    <2>2. Len(hand') = 0
      BY <2>1
    <2> QED
      BY <1>0, <2>1, <2>2 DEF HandLine, Ordinary
  <1>10. CASE line_getc
    <2>1. CASE pc' = "forth"
      BY <1>2, <2>1 DEF Lining
    <2>2. CASE pc' # "forth"
      <3>1. /\ getc(stream) /\ ~AtEnd(stream) /\ Len(hand) # LineSize /\ pc = "line"
            /\ pc' = IF Next1(stream) = "n" THEN "line_lf"
                     ELSE IF Next1(stream) = "r" THEN "line_cr" ELSE "line"
        BY <1>10, <2>2 DEF line_getc, EndLine
      <3>2. /\ Len(hand) < LineSize /\ \A j \in 1 .. Len(hand) : hand[j] = "a"
        BY <1>0, <3>1 DEF HandLine, Ordinary
      <3>3. pc' = "line" => Next1(stream) = "a"
        BY <1>3, <3>1 DEF Char
      <3> DEFINE n == Len(hand')
      <3>4. n - 1 = Len(hand) /\ n <= LineSize /\ hand'[n] = Next1(stream) /\ n \in Nat
        BY <1>0, <1>3, <3>1, <3>2
      <3>5. \A j \in 1 .. n - 1 : hand'[j] = "a"
        BY <1>3, <3>1, <3>2, <3>4
      <3>6. pc' = "line" => \A j \in 1 .. n : hand'[j] = "a"
        BY <3>3, <3>4, <3>5
      <3> HIDE DEF n
      <3> QED
        BY <3>1, <3>4, <3>5, <3>6 DEF HandLine, Ordinary, n
    <2> QED
      BY <2>1, <2>2
  <1>11. CASE line_cr
    <2>1. CASE pc' = "forth"
      BY <1>2, <2>1 DEF Lining
    <2>2. CASE pc' # "forth"
      <3>1. /\ getc(stream) /\ ~AtEnd(stream) /\ pc = "line_cr"
            /\ pc' = IF Next1(stream) = "n" THEN "line_crlf" ELSE "line_note"
        BY <1>11, <2>2 DEF line_cr, EndLine
      <3>2. /\ Len(hand) <= LineSize /\ Len(hand) >= 1 /\ hand[Len(hand)] = "r"
            /\ \A j \in 1 .. Len(hand) - 1 : hand[j] = "a"
        BY <3>1 DEF HandLine, Ordinary, Hands
      <3> DEFINE n == Len(hand')
      <3>3. n - 1 = Len(hand) /\ n - 1 <= LineSize /\ hand'[n] = Next1(stream) /\ n \in Nat
        BY <1>0, <1>3, <3>1, <3>2
      <3>4. hand'[n - 1] = "r" /\ \A j \in 1 .. n - 2 : hand'[j] = "a"
        BY <1>0, <1>3, <3>1, <3>2, <3>3
      <3> HIDE DEF n
      <3> QED
        BY <3>1, <3>3, <3>4 DEF HandLine, Ordinary, n
    <2> QED
      BY <2>1, <2>2
  <1> QED
    BY <1>4, <1>5, <1>6, <1>7, <1>8, <1>9, <1>10, <1>11 DEF Next, Primitive, Step


(* SubSeq without the last one or two. *)
LEMMA Fronts ==
  ASSUME hand \in Seq(Char)
  PROVE  /\ Len(hand) >= 1 => Front(hand) = SubSeq(hand, 1, Len(hand) - 1)
         /\ Len(hand) >= 2 => Front(Front(hand)) = SubSeq(hand, 1, Len(hand) - 2)
         /\ SubSeq(hand, 1, Len(hand)) = hand
  <1> DEFINE n == Len(hand)
             f == SubSeq(hand, 1, n - 1)
  <1>1. Front(hand) = f /\ n \in Nat
    BY DEF Front
  <1>2. ASSUME n >= 2 PROVE Front(f) = SubSeq(hand, 1, n - 2)
    <2>1. f \in Seq(Char) /\ Len(f) = n - 1 /\ \A i \in 1 .. n - 1 : f[i] = hand[i]
      BY <1>2
    <2> DEFINE a == SubSeq(f, 1, n - 2)
               b == SubSeq(hand, 1, n - 2)
    <2>2. Front(f) = a
      BY <1>1, <2>1 DEF Front
    <2>3. b \in Seq(Char) /\ Len(b) = n - 2 /\ \A i \in 1 .. n - 2 : b[i] = hand[i]
      <3>1. n - 2 \in Nat /\ \A i \in 1 .. n - 2 : hand[i] \in Char
        BY <1>1, <1>2
      <3> HIDE DEF n
      <3>2. /\ b \in Seq(Char) /\ Len(b) = IF 1 <= n - 2 THEN n - 2 - 1 + 1 ELSE 0
            /\ \A i \in 1 .. n - 2 - 1 + 1 : b[i] = hand[1 + i - 1]
        BY <3>1, SubSeqProperties
      <3> QED
        BY <1>1, <1>2, <3>1, <3>2
    <2> HIDE DEF f
    <2>4. a \in Seq(Char) /\ Len(a) = n - 2 /\ \A i \in 1 .. n - 2 : a[i] = hand[i]
      BY <1>1, <1>2, <2>1
    <2> HIDE DEF a, b
    <2>5. a = b
      BY <2>3, <2>4, SeqEqual
    <2> QED
      BY <2>2, <2>5 DEF b
  <1>3. SubSeq(hand, 1, n) = hand
    BY SubSeqFull
  <1> QED
    BY <1>1, <1>2, <1>3

LEMMA LinesStep ==
  ASSUME Types, Hands, HandLine, KeysConserved, Lines, [Next]_vars
  PROVE  Lines'
  <1> USE DEF output, ghosts
  <1>0. /\ hand \in Seq(Char) /\ Len(hand) \in Nat /\ LineSize \in Nat /\ LineSize # 0
        /\ u3 \in Nat /\ Len(file) \in Nat
    BY TerminalAssumption DEF Types, InputTypes, OutputTypes
  <1> DEFINE n == Len(hand)
  (* What the end of a line in read_line does. *)
  <1>1. ASSUME stream = "file", UNCHANGED <<file, got, dropped>>,
               NEW m, NEW k, LineInHand(m, k), Delivers(m, k)
        PROVE  Lines'
    <2>0. /\ m \in Nat /\ k \in {0, 1, 2} /\ m + k \in 1 .. n /\ m <= LineSize /\ Ordinary(m)
          /\ k = 0 => m = LineSize \/ (AtEnd(stream) /\ m = n)
          /\ k = 1 => /\ m < LineSize /\ hand[m + 1] # "a"
                      /\ hand[m + 1] = "r" => \/ AtEnd(stream) /\ m + 1 = n
                                              \/ m + 2 <= n /\ hand[m + 2] # "n"
          /\ k = 2 => m < LineSize /\ hand[m + 1] = "r" /\ hand[m + 2] = "n"
      BY <1>1 DEF LineInHand
    <2>1. ASSUME OnlyLines PROVE LineAt(file, u3 + 1, m, k)
      <3> DEFINE N == Len(file)
      <3>1. /\ u3 + n <= N /\ (AtEnd(stream) => u3 + n = N)
            /\ \A i \in 1 .. n : file[u3 + i] = hand[i]
        BY <1>1, <2>1, HandInFile
      <3> HIDE DEF n, N
      <3>2. n \in Nat /\ N \in Nat /\ (u3 + 1) + m + k <= N + 1
        BY <1>0, <2>0, <3>1 DEF n, N
      <3>3. ASSUME NEW i \in u3 + 1 .. (u3 + 1) + m - 1 PROVE file[i] = "a"
        <4>1. i - u3 \in 1 .. m /\ i - u3 \in 1 .. n /\ u3 + (i - u3) = i
          BY <1>0, <2>0, <3>2
        <4> QED
          BY <2>0, <3>1, <4>1 DEF Ordinary
      <3>4. k = 0 => m = LineSize \/ (u3 + 1) + m = N + 1
        BY <1>0, <2>0, <3>1, <3>2
      <3>5. k # 0 => file[(u3 + 1) + m] = hand[m + 1]
        <4>1. k # 0 => m + 1 \in 1 .. n /\ u3 + (m + 1) = (u3 + 1) + m
          BY <1>0, <2>0, <3>2
        <4> QED
          BY <3>1, <4>1
      <3>6. m + 2 <= n => file[(u3 + 1) + m + 1] = hand[m + 2]
        <4>1. m + 2 <= n => m + 2 \in 1 .. n /\ u3 + (m + 2) = (u3 + 1) + m + 1
          BY <1>0, <2>0, <3>2
        <4> QED
          BY <3>1, <4>1
      <3>7. k = 1 /\ m + 1 = n /\ AtEnd(stream) => ~((u3 + 1) + m + 1 <= N)
        BY <1>0, <2>0, <3>1, <3>2
      <3>8. k = 2 => m + 2 <= n
        BY <2>0
      <3> QED
        BY <2>0, <3>2, <3>3, <3>4, <3>5, <3>6, <3>7, <3>8 DEF LineAt, N
    <2> QED
      BY <1>1, <2>0, <2>1, LineDelivered
  <1>2. CASE UNCHANGED vars
    BY <1>2, LinesKept DEF vars, OnlyLines
  <1>3. CASE Signal \/ gforth_cleanup
    <2>1. CASE Interrupt \/ termprep
      BY <2>1, LinesKept DEF Interrupt, termprep, OnlyLines
    <2>2. CASE gforth_cleanup
      BY <2>2, LinesKept DEF gforth_cleanup, graceful_exit, OnlyLines
    <2>3. CASE Deliver \/ OtherSignal \/ Quit
      <3>1. (signal_throw \/ graceful_exit) /\ Note
        BY <2>3 DEF Deliver, OtherSignal, Quit
      <3>2. UNCHANGED <<file, lines, u3, got>>
        BY <3>1 DEF signal_throw, graceful_exit
      <3>3. dropped'["file"] = 0 => dropped["file"] = 0
        BY <1>0, <3>1 DEF Note, Types, ControlTypes, OutputTypes, Streams
      <3> QED
        BY <3>2, <3>3, LinesKept DEF OnlyLines
    <2> QED
      BY <1>3, <2>1, <2>2, <2>3 DEF Signal
  <1>4. CASE \/ \E s \in Streams : key_avail(s) \/ getkey(s)
             \/ read_line \/ gforth_system
             \/ prep_start \/ prep_get \/ prep_set \/ prep_done \/ system_set \/ system_run
             \/ avail \/ fread \/ unget_note \/ unget_char
    <2>1. UNCHANGED <<file, lines, u3, got, dropped>>
      BY <1>4 DEF key_avail, getkey, read_line, gforth_system, prep_start, prep_get, prep_set,
                  prep_done, system_set, system_run, avail, fread, unget_note, unget_char
    <2> QED
      BY <2>1, LinesKept DEF OnlyLines
  <1>5. CASE reget
    <2>1. UNCHANGED <<file, lines, u3, dropped>> /\ got' = [got EXCEPT ![stream] = @ \o hand]
      BY <1>5 DEF reget
    <2>2. got'["file"] = <<>> => got["file"] = <<>>
      <3>1. got["file"] \in Seq(Char) /\ got["file"] \o hand = <<>> => got["file"] = <<>>
        BY <1>0, ConcatEqualIffEmpty
      <3> QED
        BY <2>1, <3>1 DEF Types, OutputTypes, ControlTypes, Streams
    <2> QED
      BY <2>1, <2>2, LinesKept DEF OnlyLines
  <1>6. CASE line_getc
    <2>0. pc = "line" /\ stream = "file" /\ UNCHANGED <<file, got, dropped>>
      BY <1>6 DEF line_getc, Hands, Lining
    <2>1. CASE UNCHANGED <<lines, u3>>
      BY <2>0, <2>1, LinesKept DEF OnlyLines
    <2>2. CASE ~UNCHANGED <<lines, u3>>
      <3>1. EndLine(hand, n) /\ (n = LineSize \/ (AtEnd(stream) /\ hand # <<>>))
        BY <1>6, <2>2 DEF line_getc
      <3>2. n >= 1 /\ n <= LineSize /\ Ordinary(n)
        <4>1. hand # <<>> => n >= 1
          BY <1>0, EmptySeq
        <4> QED
          BY <1>0, <2>0, <3>1, <4>1 DEF HandLine
      <3>3. Delivers(n, 0)
        <4>1. SubSeq(hand, 1, n) = hand /\ n + 0 = n
          BY <1>0, Fronts
        <4>2. lines' = Append(lines, hand) /\ u3' = u3 + n
          BY <3>1 DEF EndLine
        <4> QED
          BY <4>1, <4>2, Zenon DEF Delivers
      <3>4. LineInHand(n, 0)
        BY <1>0, <3>1, <3>2 DEF LineInHand
      <3> QED
        BY <1>1, <2>0, <3>3, <3>4
    <2> QED
      BY <2>1, <2>2
  <1>7. CASE line_lf
    <2>0. pc = "line_lf" /\ stream = "file" /\ UNCHANGED <<file, got, dropped>> /\ n >= 1
      BY <1>7 DEF line_lf, Hands, Lining
    <2>1. n <= LineSize /\ Ordinary(n - 1) /\ hand[n] = "n"
      BY <2>0 DEF HandLine
    <2>2. Delivers(n - 1, 1)
      BY <1>0, <1>7, <2>0, Fronts DEF line_lf, EndLine, Delivers
    <2>3. n - 1 \in Nat /\ (n - 1) + 1 = n /\ n - 1 < LineSize /\ n - 1 <= LineSize
      BY <1>0, <2>0, <2>1
    <2>4. LineInHand(n - 1, 1)
      BY <1>0, <2>0, <2>1, <2>3 DEF LineInHand
    <2> QED
      BY <1>1, <2>0, <2>2, <2>4
  <1>8. CASE line_cr
    <2>0. pc = "line_cr" /\ stream = "file" /\ UNCHANGED <<file, got, dropped>> /\ n >= 1
      BY <1>8 DEF line_cr, Hands, Lining
    <2>1. CASE UNCHANGED <<lines, u3>>
      BY <2>0, <2>1, LinesKept DEF OnlyLines
    <2>2. CASE ~UNCHANGED <<lines, u3>>
      <3>1. n <= LineSize /\ Ordinary(n - 1) /\ hand[n] = "r"
        BY <2>0 DEF HandLine
      <3>2. Delivers(n - 1, 1) /\ AtEnd(stream)
        BY <1>0, <1>8, <2>0, <2>2, Fronts DEF line_cr, EndLine, Delivers
      <3>3. n - 1 \in Nat /\ (n - 1) + 1 = n /\ n - 1 < LineSize /\ n - 1 <= LineSize
        BY <1>0, <2>0, <3>1
      <3>4. LineInHand(n - 1, 1)
        BY <1>0, <2>0, <3>1, <3>2, <3>3 DEF LineInHand
      <3> QED
        BY <1>1, <2>0, <3>2, <3>4
    <2> QED
      BY <2>1, <2>2
  <1>9. CASE line_crlf
    <2>0. pc = "line_crlf" /\ stream = "file" /\ UNCHANGED <<file, got, dropped>> /\ n >= 2
      BY <1>9 DEF line_crlf, Hands, Lining
    <2>1. n - 1 <= LineSize /\ Ordinary(n - 2) /\ hand[n - 1] = "r" /\ hand[n] = "n"
      BY <2>0 DEF HandLine
    <2>2. Delivers(n - 2, 2)
      BY <1>0, <1>9, <2>0, Fronts DEF line_crlf, EndLine, Delivers
    <2>3. /\ n - 2 \in Nat /\ (n - 2) + 2 = n /\ (n - 2) + 1 = n - 1
          /\ n - 2 < LineSize /\ n - 2 <= LineSize
      BY <1>0, <2>0, <2>1
    <2>4. LineInHand(n - 2, 2)
      BY <1>0, <2>0, <2>1, <2>3 DEF LineInHand
    <2> QED
      BY <1>1, <2>0, <2>2, <2>4
  <1>10. CASE line_char
    <2>0. pc = "line_char" /\ stream = "file" /\ UNCHANGED <<file, got, dropped>> /\ n >= 2
      BY <1>10 DEF line_char, Hands, Lining
    <2>1. n - 1 <= LineSize /\ Ordinary(n - 2) /\ hand[n - 1] = "r" /\ hand[n] # "n"
      BY <2>0 DEF HandLine
    <2>2. Delivers(n - 2, 1)
      BY <1>0, <1>10, <2>0, Fronts DEF line_char, EndLine, Delivers
    <2>3. /\ n - 2 \in Nat /\ (n - 2) + 2 = n /\ (n - 2) + 1 = n - 1
          /\ n - 2 < LineSize /\ n - 2 <= LineSize
      BY <1>0, <2>0, <2>1
    <2>4. LineInHand(n - 2, 1)
      <3> DEFINE m == n - 2
      <3>1. /\ m \in Nat /\ m + 1 \in 1 .. n /\ m + 2 <= n
            /\ m < LineSize /\ m <= LineSize /\ Ordinary(m)
            /\ hand[m + 1] = "r" /\ hand[m + 2] # "n"
        BY <1>0, <2>0, <2>1, <2>3
      <3> HIDE DEF m
      <3>2. LineInHand(m, 1)
        BY <3>1 DEF LineInHand
      <3> QED
        BY <3>2 DEF m
    <2> QED
      BY <1>1, <2>0, <2>2, <2>4
  <1> QED
    BY <1>2, <1>3, <1>4, <1>5, <1>6, <1>7, <1>8, <1>9, <1>10 DEF Next, Primitive, Step


-----------------------------------------------------------------------------
(* The inductive invariant of read_line. *)
ReadLineInv == TerminalInv /\ HandLine /\ Lines

(* Wherever read_line is, what it has in hand is the beginning of a line,  *)
(* and what it has delivered are the lines before.                         *)
THEOREM ReadLineInvariant == Spec => []ReadLineInv
  <1>1. Init => ReadLineInv
    <2> SUFFICES ASSUME Init PROVE ReadLineInv
      OBVIOUS
    <2>1. TerminalInv
      BY TerminalInit
    <2>2. HandLine
      BY DEF Init, HandLine
    <2>3. lines = <<>> /\ u3 = 0 /\ file \in Seq(Char)
      BY TerminalAssumption DEF Init
    <2>4. LinesFrom(file)[1] \in Seq(Seq(Char))
      <3>1. 1 \in 1 .. Len(file) + 1
        BY <2>3
      <3> QED
        BY <2>3, <3>1, LinesEquation
    <2>5. Lines
      <3> DEFINE S == Seq(Char)
                 l == LinesFrom(file)[1]
      <3>1. l \in Seq(S) /\ LinesOf(file) = l
        BY <2>4 DEF LinesOf
      <3> HIDE DEF S, l
      <3>2. <<>> \in Seq(S) /\ <<>> \o l = l /\ 0 + 1 = 1
        BY <3>1
      <3> QED
        BY <2>3, <3>1, <3>2 DEF Lines, S, l
    <2> QED
      BY <2>1, <2>2, <2>5 DEF ReadLineInv
  <1>2. ReadLineInv /\ [Next]_vars => ReadLineInv'
    BY TerminalStep, HandLineStep, LinesStep DEF ReadLineInv, TerminalInv
  <1> QED
    BY <1>1, <1>2, PTL DEF Spec

(* Reading a file line by line delivers its lines, whatever its line ends, *)
(* and though key? may have looked at the first character of a line.       *)
THEOREM LinesAreRight == Spec => []LinesRight
  <1>1. ReadLineInv => LinesRight
    <2> SUFFICES ASSUME ReadLineInv, OnlyLines PROVE IsPrefix(lines, LinesOf(file))
      BY DEF LinesRight, OnlyLines
    <2> DEFINE S == Seq(Char)
               t == LinesFrom(file)[u3 + 1]
    <2>1. lines \in Seq(S) /\ LinesOf(file) = lines \o t
      BY DEF ReadLineInv, Lines
    <2>2. t \in Seq(S)
      <3>1. file \in Seq(Char) /\ u3 \in Nat /\ Len(file) \in Nat
        BY DEF ReadLineInv, TerminalInv, Types, InputTypes, OutputTypes
      <3>2. Rest("file") \in Seq(Char) /\ Len(Rest("file")) \in Nat
        BY RestType DEF ReadLineInv, TerminalInv, Streams
      <3>3. Len(<<>>) + u3 + Len(Rest("file")) + 0 = Len(file)
        BY DEF ReadLineInv, TerminalInv, KeysConserved, OnlyLines
      <3>4. u3 <= Len(file)
        <4> DEFINE r == Len(Rest("file"))
                   n == Len(file)
        <4>1. 0 + u3 + r + 0 = n /\ r \in Nat /\ n \in Nat
          <5>1. Len(<<>>) = 0
            OBVIOUS
          <5> QED
            BY <3>1, <3>2, <3>3, <5>1, Zenon
        <4> HIDE DEF r, n
        <4>2. u3 <= n
          BY <3>1, <4>1
        <4> QED
          BY <4>2 DEF n
      <3>5. u3 + 1 \in 1 .. Len(file) + 1
        BY <3>1, <3>4
      <3> QED
        BY <3>1, <3>5, LinesEquation
    <2> HIDE DEF S, t
    <2>3. Len(lines) <= Len(lines \o t) /\ SubSeq(lines \o t, 1, Len(lines)) = lines
      BY <2>1, <2>2
    <2>4. SubSeq(lines, 1, Len(lines)) = lines
      BY <2>1
    <2> QED
      BY <2>1, <2>3, <2>4 DEF IsPrefix
  <1> QED
    BY <1>1, ReadLineInvariant, PTL

=============================================================================
