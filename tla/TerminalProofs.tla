--------------------------- MODULE TerminalProofs ---------------------------
(***************************************************************************)
(* Proofs about Terminal, for any input, any files, any size of lines and  *)
(* any number of signals at any place.                                     *)
(***************************************************************************)
EXTENDS Terminal, SequenceTheorems, WellFoundedInduction, TLAPS

(* The places in the C code, by what the invariants say about them. *)
Prepping == {"prep_get", "prep_set", "prep_done"}
Deprepping == {"system_set", "system_run"}
Lining == {"line", "line_lf", "line_cr", "line_crlf", "line_note", "line_char"}
Empty == {"forth", "prep", "avail", "fread", "exit"} \cup Prepping \cup Deprepping
Places == Empty \cup Lining \cup {"unget_note", "unget_char", "reget"}

ControlTypes ==
  /\ pc \in Places /\ stream \in Streams /\ then \in {"forth", "avail", "fread"}
  /\ tty \in {"cooked", "raw"} /\ otio \in {"none", "cooked", "raw"}
  /\ terminal_prepped \in BOOLEAN
  /\ otio = "none" => ~terminal_prepped /\ pc \notin {"prep_set", "prep_done", "system_set"}
  /\ blocked \in BOOLEAN /\ pending \in BOOLEAN /\ oset \in BOOLEAN
  /\ sigcount \in Nat /\ received \in Nat

InputTypes ==
  /\ in \in [Streams -> Seq(Char)] /\ pushed \in [Streams -> Seq(Char)]
  /\ ungotten \in Seq(Streams) /\ hand \in Seq(Char) /\ file \in Seq(Char)

OutputTypes ==
  /\ got \in [Streams -> Seq(Char)] /\ u3 \in Nat
  /\ dropped \in [Streams -> Nat] /\ hits \subseteq {"char", "mode", "mask"}

Types == ControlTypes /\ InputTypes /\ OutputTypes

(* The modes, as long as no signal has come while they were being changed: *)
(* a terminal that is not prepared has the modes it was found with, and    *)
(* otio has them before they are changed.  A shell that restores the modes *)
(* of a job it continues would leave the terminal raw and not prepared.    *)
Modes ==
  ~ShellRestores /\ "mode" \notin hits =>
    /\ terminal_prepped => otio = "cooked"
    /\ ~terminal_prepped /\ pc # "prep_done" => tty = "cooked"
    /\ pc \in {"prep_set", "prep_done"} => otio = "cooked"
    /\ pc \in Prepping \cup {"exit"} => ~terminal_prepped
    /\ pc = "system_set" => terminal_prepped
    /\ pc = "system_run" => tty = "cooked"

(* The signal mask, as long as no signal has come while it was changed. *)
Mask ==
  "mask" \notin hits =>
    /\ blocked <=> pc \in Prepping \cup Deprepping
    /\ ~oset
    /\ "mode" \notin hits =>
         /\ terminal_prepped /\ pc # "system_run" => tty = "raw"
         /\ pc = "prep_done" => tty = "raw"

(* What is in hand.  read_line works on the file only. *)
Hands ==
  /\ pc \in Empty => hand = <<>>
  /\ pc \in Lining => stream = "file"
  /\ pc \in {"unget_note", "unget_char", "reget"} => Len(hand) = 1
  /\ pc \in {"line_lf", "line_cr"} => Len(hand) >= 1
  /\ pc \in {"line_crlf", "line_note", "line_char"} => Len(hand) >= 2

Distinct(q) == \A k, m \in DOMAIN q : q[k] = q[m] => k = m
Holds(q, s) == \E i \in DOMAIN q : q[i] = s

(* The places between taking or putting back a character and the note      *)
(* about it.                                                               *)
Between == {"unget_char", "line_char", "reget", "line"}

(* What is known about the lookahead, as long as no signal has come there. *)
Known ==
  "char" \notin hits =>
    /\ Distinct(ungotten)
    /\ \A s \in Streams :
         /\ Len(pushed[s]) <= 1
         /\ s # stream \/ pc \notin Between => (Holds(ungotten, s) <=> pushed[s] # <<>>)
    /\ pc = "avail" \/ (pc \in {"prep"} \cup Prepping /\ then = "avail") =>
         ~Holds(ungotten, stream)
    /\ pc \in {"unget_note", "unget_char", "reget"} \cup (Lining \ {"line"}) =>
         pushed[stream] = <<>>
    /\ pc = "line" => ~Holds(ungotten, stream) /\ (hand # <<>> => pushed[stream] = <<>>)
    /\ pc \in {"unget_char", "line_char"} => Holds(ungotten, stream)

-----------------------------------------------------------------------------
(* The least-number principle, for sets of numbers. *)

LEMMA LessIsRelation ==
  ASSUME NEW x \in Nat, NEW y \in Nat, x < y
  PROVE  <<x, y>> \in OpToRel(<, Nat)
  <1>1. <<x, y>> \in Nat \X Nat /\ <<x, y>>[1] < <<x, y>>[2]
    OBVIOUS
  <1> QED
    BY <1>1, Zenon DEF OpToRel

LEMMA LeastNumber ==
  ASSUME NEW T, T \subseteq Nat, T # {}
  PROVE  \E n \in T : \A m \in T : n <= m
  <1>1. PICK n \in T : \A m \in T : ~(<<m, n>> \in OpToRel(<, Nat))
    BY NatLessThanWellFounded, WFMin, Zenon
  <1>2. \A m \in T : ~(m < n)
    BY <1>1, LessIsRelation, Zenon
  <1> QED
    BY <1>2

-----------------------------------------------------------------------------
(* What the helpers do. *)

(* Taking the first character that was put back. *)
LEMMA TakeBack ==
  ASSUME NEW h \in Seq(Char), NEW p \in Seq(Char), NEW i \in Seq(Char), p # <<>>
  PROVE  /\ Head(p \o i) \in Char /\ Tail(p) \in Seq(Char) /\ Len(Tail(p)) = Len(p) - 1
         /\ (Append(h, Head(p \o i)) \o Tail(p)) \o i = (h \o p) \o i
  <1>1. Tail(p) \in Seq(Char) /\ Len(Tail(p)) = Len(p) - 1 /\ Len(p) >= 1
    BY HeadTailProperties, EmptySeq
  <1>2. Head(p \o i) = p[1] /\ p[1] \in Char
    BY <1>1
  <1>3. Append(h, Head(p \o i)) \o Tail(p) = h \o p
    BY <1>1, <1>2
  <1> QED
    BY <1>1, <1>2, <1>3

(* Taking the first unread character. *)
LEMMA TakeUnread ==
  ASSUME NEW h \in Seq(Char), NEW i \in Seq(Char), i # <<>>
  PROVE  /\ Head(i) \in Char /\ Tail(i) \in Seq(Char)
         /\ Append(h, Head(i)) \o Tail(i) = h \o i
  <1>1. Tail(i) \in Seq(Char) /\ Head(i) = i[1] /\ i[1] \in Char /\ Len(i) >= 1
    BY HeadTailProperties, EmptySeq
  <1> QED
    BY <1>1

(* getc takes one character, and the input stays what it is. *)
LEMMA Getc ==
  ASSUME Types, NEW s \in Streams, ~AtEnd(s), getc(s)
  PROVE  /\ Next1(s) \in Char /\ hand' \in Seq(Char) /\ Len(hand') = Len(hand) + 1
         /\ hand' = Append(hand, Next1(s))
         /\ in' \in [Streams -> Seq(Char)] /\ pushed' \in [Streams -> Seq(Char)]
         /\ (hand' \o pushed'[s]) \o in'[s] = (hand \o pushed[s]) \o in[s]
         /\ \A t \in Streams \ {s} : pushed'[t] = pushed[t] /\ in'[t] = in[t]
         /\ Len(pushed'[s]) <= Len(pushed[s])
         /\ Len(pushed[s]) <= 1 => pushed'[s] = <<>>
  <1> DEFINE p == pushed[s]
             i == in[s]
             x == Next1(s)
  <1>1. hand \in Seq(Char) /\ p \in Seq(Char) /\ i \in Seq(Char) /\ p \o i # <<>>
    BY DEF Types, InputTypes, AtEnd
  <1>2. x = Head(p \o i)
    BY DEF Next1
  <1>3. /\ hand' = Append(hand, x)
        /\ p # <<>> => pushed' = [pushed EXCEPT ![s] = Tail(p)] /\ in' = in
        /\ p = <<>> => in' = [in EXCEPT ![s] = Tail(i)] /\ pushed' = pushed
    BY DEF getc
  <1>4. /\ in \in [Streams -> Seq(Char)] /\ pushed \in [Streams -> Seq(Char)]
        /\ pushed[s] = p /\ in[s] = i
    BY DEF Types, InputTypes
  <1>5. Next1(s) = x
    OBVIOUS
  <1> HIDE DEF p, i, x
  <1>6. /\ x \in Char
        /\ p # <<>> => /\ Tail(p) \in Seq(Char) /\ Len(Tail(p)) = Len(p) - 1
                       /\ (hand' \o Tail(p)) \o i = (hand \o p) \o i
        /\ p = <<>> => /\ Tail(i) \in Seq(Char) /\ (hand' \o p) \o Tail(i) = (hand \o p) \o i
    <2>1. CASE p # <<>>
      BY <1>1, <1>2, <1>3, <2>1, TakeBack
    <2>2. CASE p = <<>>
      <3>1. p \o i = i /\ hand \o p = hand
        BY <1>1, <2>2, ConcatEmptySeq
      <3>2. Head(i) \in Char /\ Tail(i) \in Seq(Char) /\ Append(hand, Head(i)) \o Tail(i) = hand \o i
        BY <1>1, <3>1, TakeUnread
      <3>3. Append(hand, Head(i)) \o p = Append(hand, Head(i))
        BY <1>1, <2>2, <3>2, ConcatEmptySeq
      <3> QED
        BY <1>2, <1>3, <2>2, <3>1, <3>2, <3>3
    <2> QED
      BY <2>1, <2>2
  <1>6a. hand' \in Seq(Char) /\ Len(hand') = Len(hand) + 1
    BY <1>1, <1>3, <1>6
  <1>7. CASE p # <<>>
    <2>1. /\ pushed'[s] = Tail(p) /\ in' = in /\ pushed' \in [Streams -> Seq(Char)]
          /\ \A t \in Streams \ {s} : pushed'[t] = pushed[t]
      BY <1>3, <1>4, <1>6, <1>7
    <2>2. (Len(p) <= 1 => Tail(p) = <<>>) /\ Len(Tail(p)) <= Len(p)
      BY <1>1, <1>6, <1>7, EmptySeq
    <2> QED
      BY <1>3, <1>4, <1>5, <1>6, <1>6a, <1>7, <2>1, <2>2
  <1>8. CASE p = <<>>
    <2>1. /\ in'[s] = Tail(i) /\ pushed' = pushed /\ in' \in [Streams -> Seq(Char)]
          /\ \A t \in Streams \ {s} : in'[t] = in[t]
      BY <1>3, <1>4, <1>6, <1>8
    <2>2. Len(p) \in Nat
      BY <1>1
    <2> QED
      BY <1>3, <1>4, <1>5, <1>6, <1>6a, <1>8, <2>1, <2>2, SMTT(20)
  <1> QED
    BY <1>7, <1>8

(* gf_regetc removes the entry of one stream, and no other. *)
LEMMA Regetc ==
  ASSUME ungotten \in Seq(Streams), NEW s \in Streams
  PROVE  /\ gf_regetc(s) \in Seq(Streams)
         /\ Distinct(ungotten) =>
              /\ Distinct(gf_regetc(s))
              /\ \A t \in Streams : Holds(gf_regetc(s), t) <=> t # s /\ gf_ungottenc(t)
  <1> DEFINE u == ungotten
             n == Len(u)
  <1>1. u \in Seq(Streams) /\ n \in Nat /\ DOMAIN u = 1 .. n /\ \A k \in 1 .. n : u[k] \in Streams
    OBVIOUS
  <1>2. CASE ~gf_ungottenc(s)
    BY <1>2 DEF gf_regetc, gf_ungottenc, Holds
  <1>3. CASE gf_ungottenc(s)
    <2> DEFINE First(j) == u[j] = s /\ \A k \in 1 .. j - 1 : u[k] # s
               i == CHOOSE j \in DOMAIN u : First(j)
               v == [u EXCEPT ![i] = u[n]]
               w == SubSeq(v, 1, n - 1)
    <2>1. gf_regetc(s) = Front([u EXCEPT ![i] = Last(u)])
      BY <1>3 DEF gf_regetc
    <2>2. \E j \in DOMAIN u : First(j)
      <3>1. PICK j0 \in DOMAIN u : u[j0] = s
        BY <1>3 DEF gf_ungottenc
      <3> DEFINE T == {j \in Nat : j \in DOMAIN u /\ u[j] = s}
      <3>2. T \subseteq Nat /\ T # {}
        BY <1>1, <3>1
      <3>3. PICK j \in T : \A m \in T : j <= m
        BY <3>2, LeastNumber
      <3> QED
        BY <1>1, <3>3
    <2>3. i \in 1 .. n /\ u[i] = s
      BY <1>1, <2>2
    <2> HIDE DEF i, u
    <2>4. n \in Nat /\ n >= 1 /\ v \in Seq(Streams) /\ Len(v) = n
      BY <1>1, <2>3
    <2>5. gf_regetc(s) = w
      BY <2>1, <2>4 DEF Front, Last
    <2>6. w \in Seq(Streams) /\ Len(w) = n - 1 /\ DOMAIN w = 1 .. n - 1
      BY <1>1, <2>3, <2>4
    <2>7. \A k \in 1 .. n - 1 : w[k] = IF k = i THEN u[n] ELSE u[k]
      BY <1>1, <2>3, <2>4
    <2> HIDE DEF w, v, n
    <2>8. ASSUME Distinct(u) PROVE Distinct(w)
      BY <1>1, <2>3, <2>6, <2>7, <2>8 DEF Distinct
    <2>9. ASSUME Distinct(u), NEW t \in Streams
          PROVE  Holds(w, t) <=> t # s /\ Holds(u, t)
      <3>1. ASSUME Holds(w, t) PROVE t # s /\ Holds(u, t)
        <4>1. PICK k \in 1 .. n - 1 : w[k] = t
          BY <2>6, <3>1 DEF Holds
        <4> QED
          BY <1>1, <2>3, <2>4, <2>7, <2>9, <4>1 DEF Holds, Distinct
      <3>2. ASSUME t # s, Holds(u, t) PROVE Holds(w, t)
        <4>1. PICK k \in 1 .. n : u[k] = t
          BY <1>1, <3>2 DEF Holds
        <4>2. CASE k = n
          <5>1. i \in 1 .. n - 1 /\ w[i] = t
            BY <1>1, <2>3, <2>4, <2>7, <3>2, <4>1, <4>2
          <5> QED
            BY <2>6, <5>1 DEF Holds
        <4>3. CASE k # n
          <5>1. k \in 1 .. n - 1 /\ w[k] = t
            BY <1>1, <2>3, <2>4, <2>7, <3>2, <4>1, <4>3
          <5> QED
            BY <2>6, <5>1 DEF Holds
        <4> QED
          BY <4>2, <4>3
      <3> QED
        BY <3>1, <3>2
    <2>10. \A t \in Streams : gf_ungottenc(t) <=> Holds(u, t)
      BY DEF gf_ungottenc, Holds, u
    <2> QED
      BY <2>5, <2>6, <2>8, <2>9, <2>10 DEF u
  <1> QED
    BY <1>2, <1>3

-----------------------------------------------------------------------------
(* Types and hands. *)

LEMMA TypesInit == Init => Types /\ Hands
  <1> SUFFICES ASSUME Init PROVE Types /\ Hands
    OBVIOUS
  <1>1. file \in Seq(Char) /\ Typed \in Seq(Char)
    BY TerminalAssumption DEF Init
  <1>2. in \in [Streams -> Seq(Char)]
    BY <1>1 DEF Init, Streams
  <1>3. ControlTypes
    BY DEF Init, ControlTypes, Streams, Places, Empty
  <1>4. InputTypes
    BY <1>1, <1>2 DEF Init, InputTypes
  <1>5. OutputTypes
    BY DEF Init, OutputTypes
  <1>6. Hands
    BY DEF Init, Hands, Lining
  <1> QED
    BY <1>3, <1>4, <1>5, <1>6 DEF Types

(* A signal leaves nothing in hand, or everything as it is. *)
LEMMA SignalTypes ==
  ASSUME Types, Hands, Signal
  PROVE  Types' /\ Hands'
  <1> USE DEF Types, ControlTypes, InputTypes, OutputTypes, Hands, modes, mask, input, output, ghosts, Places, Empty
  <1>1. dropped[stream] + Len(hand) \in Nat /\ Window \subseteq {"char", "mode", "mask"}
    BY DEF Window
  <1>2. Note => dropped' \in [Streams -> Nat] /\ hits' \subseteq {"char", "mode", "mask"}
    BY <1>1 DEF Note
  <1>3. Receive => received' \in Nat
    BY DEF Receive
  <1>4. ASSUME signal_throw, Note, received' \in Nat,
               blocked' \in BOOLEAN, pending' \in BOOLEAN, oset' \in BOOLEAN
        PROVE  Types' /\ Hands'
    <2>1. /\ pc' \in {"forth", "exit"} /\ hand' = <<>> /\ sigcount' \in Nat
          /\ tty' \in {"cooked", "raw"} /\ terminal_prepped' \in BOOLEAN /\ (terminal_prepped' => terminal_prepped)
          /\ UNCHANGED <<stream, then, otio, in, pushed, ungotten, file, got, lines, u3>>
      <3>0. sigcount' \in Nat
        BY <1>4 DEF signal_throw
      <3>1. CASE graceful_exit
        BY <3>0, <3>1 DEF graceful_exit
      <3>2. CASE ~graceful_exit
        BY <1>4, <3>2 DEF signal_throw
      <3> QED
        BY <3>1, <3>2
    <2>2. ControlTypes'
      BY <1>4, <2>1
    <2>3. InputTypes'
      BY <2>1
    <2>4. OutputTypes'
      BY <1>2, <1>4, <2>1
    <2>5. Hands'
      BY <2>1 DEF Lining, Prepping, Deprepping
    <2> QED
      BY <2>2, <2>3, <2>4, <2>5
  <1>5. CASE Interrupt
    BY <1>3, <1>5 DEF Interrupt
  <1>6. CASE Deliver
    BY <1>4, <1>6 DEF Deliver
  <1>7. CASE OtherSignal
    BY <1>3, <1>4, <1>7 DEF OtherSignal
  <1>8. CASE Quit
    <2>1. /\ pc' = "exit" /\ hand' = <<>>
          /\ tty' \in {"cooked", "raw"} /\ terminal_prepped' = FALSE
          /\ UNCHANGED <<stream, then, otio, in, pushed, ungotten, file, got, lines, u3>>
      BY <1>8 DEF Quit, graceful_exit
    <2>2. ControlTypes'
      BY <1>3, <1>8, <2>1 DEF Quit
    <2>3. InputTypes'
      BY <2>1
    <2>4. OutputTypes'
      BY <1>2, <1>8, <2>1 DEF Quit
    <2>5. Hands'
      BY <2>1 DEF Lining, Prepping, Deprepping
    <2> QED
      BY <2>2, <2>3, <2>4, <2>5
  <1>9. CASE termprep
    <2>1. tty' \in {"cooked", "raw"} /\ hits' \subseteq {"char", "mode", "mask"} /\ received' \in Nat
      BY <1>1, <1>3, <1>9 DEF termprep
    <2>2. pc' = pc \/ (pc = "fread" /\ pc' = "forth")
      BY <1>9 DEF termprep
    <2>3. ControlTypes'
      BY <1>9, <2>1, <2>2 DEF termprep
    <2>4. InputTypes' /\ OutputTypes'
      BY <1>9, <2>1 DEF termprep
    <2>5. Hands'
      BY <1>9, <2>2 DEF termprep, Lining, Prepping, Deprepping
    <2> QED
      BY <2>3, <2>4, <2>5
  <1> QED
    BY <1>5, <1>6, <1>7, <1>8, <1>9 DEF Signal

(* The steps that only move about, or change modes or mask. *)
LEMMA PrepTypes ==
  ASSUME Types, Hands,
         \/ \E s \in Streams : key_avail(s) \/ getkey(s)
         \/ gforth_system \/ gforth_cleanup
         \/ prep_start \/ prep_get \/ prep_set \/ prep_done \/ system_set \/ system_run
  PROVE  Types' /\ Hands'
  <1> USE DEF Types, ControlTypes, InputTypes, OutputTypes, Hands, modes, mask, input, output, ghosts, Places, Empty, Lining,
              Prepping, Deprepping, Goto
  <1>1. ASSUME NEW s \in Streams, key_avail(s) \/ getkey(s) PROVE Types' /\ Hands'
    <2>1. /\ pc = "forth" /\ pc' \in {"forth", "prep", "avail", "fread"} /\ stream' = s
          /\ then' \in {then, "avail", "fread"}
          /\ UNCHANGED <<modes, mask, input, file, received, output, ghosts>>
      BY <1>1 DEF key_avail, getkey
    <2> QED
      BY <2>1, SMTT(20)
  <1>2. CASE gforth_system
    BY <1>2, ZenonT(60) DEF gforth_system
  <1>3. CASE gforth_cleanup
    BY <1>3 DEF gforth_cleanup, graceful_exit
  <1>4. CASE prep_start
    BY <1>4, ZenonT(60) DEF prep_start
  <1>5. CASE prep_get
    BY <1>5 DEF prep_get
  <1>6. CASE prep_set
    BY <1>6 DEF prep_set
  <1>7. CASE prep_done
    BY <1>7 DEF prep_done
  <1>8. CASE system_set
    BY <1>8 DEF system_set
  <1>9. CASE system_run
    BY <1>9 DEF system_run
  <1> QED
    BY <1>1, <1>2, <1>3, <1>4, <1>5, <1>6, <1>7, <1>8, <1>9

(* The steps of key? and key. *)
LEMMA KeyTypes ==
  ASSUME Types, Hands, avail \/ unget_note \/ unget_char \/ fread \/ reget
  PROVE  Types' /\ Hands'
  <1>0. stream \in Streams
    BY DEF Types, ControlTypes
  <1>1. ASSUME getc(stream), ~AtEnd(stream), pc \in Empty
        PROVE  /\ in' \in [Streams -> Seq(Char)] /\ pushed' \in [Streams -> Seq(Char)]
               /\ hand' \in Seq(Char) /\ Len(hand') = 1
    <2>1. hand = <<>> /\ Len(hand) = 0
      BY <1>1 DEF Hands
    <2>2. /\ in' \in [Streams -> Seq(Char)] /\ pushed' \in [Streams -> Seq(Char)]
          /\ hand' \in Seq(Char) /\ Len(hand') = Len(hand) + 1
      BY <1>0, <1>1, Getc
    <2> QED
      BY <2>1, <2>2
  <1> USE DEF Types, ControlTypes, InputTypes, OutputTypes, Hands, modes, mask, input, output, ghosts, Places, Empty, Lining,
              Prepping, Deprepping, Goto, Return
  <1>2. in[stream] # <<>> \/ pushed[stream] # <<>> => ~AtEnd(stream)
    BY ConcatEqualIffEmpty DEF AtEnd
  <1>3. CASE avail
    <2>1. CASE getc(stream) /\ pc' = "unget_note" /\ ~AtEnd(stream)
      BY <1>1, <1>3, <2>1 DEF avail
    <2>2. CASE UNCHANGED <<in, pushed, hand>> /\ pc' = "forth"
      BY <1>3, <2>2 DEF avail
    <2> QED
      BY <1>2, <1>3, <2>1, <2>2 DEF avail
  <1>4. CASE fread
    <2>1. CASE getc(stream) /\ pc' = "reget" /\ ~AtEnd(stream)
      BY <1>1, <1>4, <2>1 DEF fread
    <2>2. CASE UNCHANGED <<in, pushed, hand>> /\ pc' = "forth"
      BY <1>4, <2>2 DEF fread
    <2> QED
      BY <1>4, <2>1, <2>2 DEF fread
  <1>5. CASE unget_note
    BY <1>5 DEF unget_note
  <1>6. CASE unget_char
    <2>1. hand \o pushed[stream] \in Seq(Char)
      OBVIOUS
    <2>2. pushed' \in [Streams -> Seq(Char)]
      BY <1>6, <2>1 DEF unget_char
    <2> QED
      BY <1>6, <2>2 DEF unget_char
  <1>7. CASE reget
    <2>1. got' \in [Streams -> Seq(Char)]
      BY <1>7 DEF reget
    <2>2. ungotten' \in Seq(Streams)
      BY <1>7, Regetc DEF reget
    <2> QED
      BY <1>7, <2>1, <2>2 DEF reget
  <1> QED
    BY <1>3, <1>4, <1>5, <1>6, <1>7

(* The steps of read_line. *)
LEMMA LineTypes ==
  ASSUME Types, Hands, read_line \/ line_getc \/ line_lf \/ line_cr \/ line_crlf \/ line_char
  PROVE  Types' /\ Hands'
  <1> USE DEF Types, ControlTypes, InputTypes, OutputTypes, Hands, modes, mask, input, output, ghosts, Places, Empty, Lining,
              Prepping, Deprepping, Goto, Return
  <1>1. ASSUME getc(stream), ~AtEnd(stream)
        PROVE  /\ in' \in [Streams -> Seq(Char)] /\ pushed' \in [Streams -> Seq(Char)]
               /\ hand' \in Seq(Char) /\ Len(hand') = Len(hand) + 1
    BY <1>1, Getc
  <1>2. \A text, n : EndLine(text, n) => pc' = "forth" /\ hand' = <<>> /\ u3' = u3 + n
    BY DEF EndLine
  <1>3. CASE read_line
    <2>1. ungotten' \in Seq(Streams)
      BY <1>3, Regetc DEF read_line, Streams
    <2> QED
      BY <1>3, <2>1 DEF read_line, Streams
  <1>4. CASE line_getc
    <2>1. CASE EndLine(hand, Len(hand)) /\ UNCHANGED <<in, pushed>>
      <3>1. pc' = "forth" /\ hand' = <<>> /\ u3' \in Nat
        BY <1>2, <2>1
      <3> QED
        BY <1>4, <2>1, <3>1 DEF line_getc
    <2>2. CASE pc' = "forth" /\ AtEnd(stream) /\ hand = <<>> /\ UNCHANGED <<in, pushed, hand, lines, u3>>
      BY <1>4, <2>2 DEF line_getc
    <2>3. CASE /\ getc(stream) /\ ~AtEnd(stream) /\ UNCHANGED <<lines, u3>>
               /\ pc' \in {"line", "line_lf", "line_cr"}
      <3>1. Len(hand') >= 1
        BY <1>1, <2>3
      <3> QED
        BY <1>1, <1>4, <2>3, <3>1, ZenonT(60) DEF line_getc
    <2> QED
      BY <1>4, <2>1, <2>2, <2>3 DEF line_getc
  <1>5. CASE line_lf
    <2>1. EndLine(Front(hand), Len(hand))
      BY <1>5 DEF line_lf
    <2>2. pc' = "forth" /\ hand' = <<>> /\ u3' \in Nat
      BY <1>2, <2>1
    <2> QED
      BY <1>5, <2>2 DEF line_lf
  <1>6. CASE line_cr
    <2>1. CASE EndLine(Front(hand), Len(hand)) /\ UNCHANGED <<in, pushed>>
      <3>1. pc' = "forth" /\ hand' = <<>> /\ u3' \in Nat
        BY <1>2, <2>1
      <3> QED
        BY <1>6, <2>1, <3>1 DEF line_cr
    <2>2. CASE /\ getc(stream) /\ ~AtEnd(stream) /\ UNCHANGED <<lines, u3>>
               /\ pc' \in {"line_crlf", "line_note"}
      BY <1>1, <1>6, <2>2 DEF line_cr
    <2> QED
      BY <1>6, <2>1, <2>2 DEF line_cr
  <1>7. CASE line_crlf
    <2>1. EndLine(Front(Front(hand)), Len(hand))
      BY <1>7 DEF line_crlf
    <2>2. pc' = "forth" /\ hand' = <<>> /\ u3' \in Nat
      BY <1>2, <2>1
    <2> QED
      BY <1>7, <2>2 DEF line_crlf
  <1>8. CASE line_char
    <2>1. EndLine(Front(Front(hand)), Len(hand) - 1) /\ Len(hand) - 1 \in Nat
      BY <1>8 DEF line_char
    <2>2. <<Last(hand)>> \o pushed[stream] \in Seq(Char)
      <3>1. Last(hand) \in Char
        BY <1>8 DEF line_char, Last
      <3> QED
        BY <3>1
    <2>3. pushed' \in [Streams -> Seq(Char)]
      BY <1>8, <2>2 DEF line_char
    <2>4. pc' = "forth" /\ hand' = <<>> /\ u3' \in Nat
      BY <1>2, <2>1
    <2> QED
      BY <1>8, <2>3, <2>4 DEF line_char
  <1> QED
    BY <1>3, <1>4, <1>5, <1>6, <1>7, <1>8

LEMMA TypesStep ==
  ASSUME Types, Hands, [Next]_vars
  PROVE  Types' /\ Hands'
  <1>1. CASE UNCHANGED vars
    BY <1>1 DEF vars, Types, ControlTypes, InputTypes, OutputTypes, Hands
  <1> QED
    BY <1>1, SignalTypes, PrepTypes, KeyTypes, LineTypes DEF Next, Primitive, Step

-----------------------------------------------------------------------------
(* Modes and mask. *)

(* What an exit and a throw do to the modes. *)
LEMMA ThrowModes ==
  ASSUME Types, signal_throw \/ graceful_exit
  PROVE  /\ pc' \in {"forth", "exit"} /\ otio' = otio
         /\ \/ pc' = "forth" /\ tty' = tty /\ terminal_prepped' = terminal_prepped
            \/ /\ terminal_prepped' = FALSE /\ pc' = "exit"
               /\ tty' = IF terminal_prepped THEN otio ELSE tty
  <1>1. CASE graceful_exit
    BY <1>1 DEF graceful_exit
  <1>2. CASE ~graceful_exit
    BY <1>2 DEF signal_throw, modes
  <1> QED
    BY <1>1, <1>2

(* The steps that leave modes and mask alone, and go neither into nor out  *)
(* of the places where they are changed.                                   *)
Outside == Places \ (Prepping \cup Deprepping \cup {"exit"})

LEMMA KeepModes ==
  ASSUME Types, Next,
         ~prep_start, ~prep_get, ~prep_set, ~prep_done, ~system_set, ~system_run,
         ~gforth_system, ~gforth_cleanup, ~Signal
  PROVE  UNCHANGED <<tty, otio, terminal_prepped, blocked, oset, hits>>
         /\ pc \in Outside /\ pc' \in Outside
  <1> USE DEF modes, mask, ghosts, output, Outside, Places, Prepping, Deprepping, Empty, Lining,
              Goto, Return
  <1>1. CASE \E s \in Streams : key_avail(s) \/ getkey(s)
    BY <1>1 DEF key_avail, getkey
  <1>2. CASE read_line
    BY <1>2 DEF read_line
  <1>3. CASE avail
    BY <1>3 DEF avail
  <1>4. CASE unget_note
    BY <1>4 DEF unget_note
  <1>5. CASE unget_char
    BY <1>5 DEF unget_char
  <1>6. CASE fread
    BY <1>6 DEF fread
  <1>7. CASE reget
    BY <1>7 DEF reget
  <1>8. CASE line_getc
    BY <1>8 DEF line_getc, EndLine
  <1>9. CASE line_lf
    BY <1>9 DEF line_lf, EndLine
  <1>10. CASE line_cr
    BY <1>10 DEF line_cr, EndLine
  <1>11. CASE line_crlf
    BY <1>11 DEF line_crlf, EndLine
  <1>12. CASE line_char
    BY <1>12 DEF line_char, EndLine
  <1> QED
    BY <1>1, <1>2, <1>3, <1>4, <1>5, <1>6, <1>7, <1>8, <1>9, <1>10, <1>11, <1>12
    DEF Next, Primitive, Step

LEMMA ModesStep ==
  ASSUME Types, Modes, [Next]_vars
  PROVE  Modes'
  <1> SUFFICES ASSUME ~ShellRestores, "mode" \notin hits'
               PROVE  /\ terminal_prepped' => otio' = "cooked"
                      /\ ~terminal_prepped' /\ pc' # "prep_done" => tty' = "cooked"
                      /\ pc' \in {"prep_set", "prep_done"} => otio' = "cooked"
                      /\ pc' \in Prepping \cup {"exit"} => ~terminal_prepped'
                      /\ pc' = "system_set" => terminal_prepped'
                      /\ pc' = "system_run" => tty' = "cooked"
    BY DEF Modes
  <1>0. hits \subseteq hits' => "mode" \notin hits
    OBVIOUS
  <1> USE DEF Modes, modes, ghosts, Prepping, Deprepping, Goto
  <1>1. CASE UNCHANGED vars
    BY <1>1 DEF vars
  <1>2. CASE prep_start
    BY <1>2 DEF prep_start, Types, ControlTypes
  <1>3. CASE prep_get
    BY <1>3 DEF prep_get
  <1>4. CASE prep_set
    BY <1>4 DEF prep_set
  <1>5. CASE prep_done
    BY <1>5 DEF prep_done, Types, ControlTypes
  <1>6. CASE gforth_system
    BY <1>6 DEF gforth_system
  <1>7. CASE system_set
    BY <1>7 DEF system_set
  <1>8. CASE system_run
    BY <1>8 DEF system_run
  <1>9. CASE gforth_cleanup
    <2>1. /\ pc' \in {"forth", "exit"} /\ otio' = otio
          /\ \/ pc' = "forth" /\ tty' = tty /\ terminal_prepped' = terminal_prepped
             \/ /\ terminal_prepped' = FALSE /\ pc' = "exit"
                /\ tty' = IF terminal_prepped THEN otio ELSE tty
      BY <1>9, ThrowModes, Zenon DEF gforth_cleanup
    <2> QED
      BY <1>9, <2>1 DEF gforth_cleanup, Types, ControlTypes
  <1>10. CASE Interrupt
    BY <1>10 DEF Interrupt
  <1>11. CASE Deliver \/ OtherSignal \/ Quit
    <2>1. "mode" \notin hits /\ pc # "prep_done"
      BY <1>11 DEF Deliver, OtherSignal, Quit, Note, Window
    <2>2. signal_throw \/ graceful_exit
      BY <1>11 DEF Deliver, OtherSignal, Quit
    <2>3. /\ pc' \in {"forth", "exit"} /\ otio' = otio
          /\ \/ pc' = "forth" /\ tty' = tty /\ terminal_prepped' = terminal_prepped
             \/ /\ terminal_prepped' = FALSE /\ pc' = "exit"
                /\ tty' = IF terminal_prepped THEN otio ELSE tty
      BY <2>2, ThrowModes, Zenon
    <2> QED
      BY <2>1, <2>3 DEF Types, ControlTypes
  <1>12. CASE termprep
    <2>1. "mode" \notin hits /\ pc \notin {"prep_set", "prep_done", "system_set"}
      BY <1>12 DEF termprep, Window
    <2>2. terminal_prepped' = FALSE /\ tty' = "cooked" /\ otio' = otio /\ pc' \in {pc, "forth"}
      BY <1>12, TerminalAssumption DEF termprep
    <2> QED
      BY <2>1, <2>2
  <1>13. CASE /\ UNCHANGED <<tty, otio, terminal_prepped, blocked, oset, hits>>
              /\ pc \in Outside /\ pc' \in Outside
    BY <1>13 DEF Outside
  <1> QED
    BY <1>1, <1>2, <1>3, <1>4, <1>5, <1>6, <1>7, <1>8, <1>9, <1>10, <1>11, <1>12, <1>13, KeepModes
    DEF Signal

LEMMA MaskStep ==
  ASSUME Types, Mask, [Next]_vars
  PROVE  Mask'
  <1> SUFFICES ASSUME "mask" \notin hits'
               PROVE  /\ blocked' <=> pc' \in Prepping \cup Deprepping
                      /\ ~oset'
                      /\ "mode" \notin hits' =>
                           /\ terminal_prepped' /\ pc' # "system_run" => tty' = "raw"
                           /\ pc' = "prep_done" => tty' = "raw"
    BY DEF Mask
  <1> USE DEF Mask, modes, mask, ghosts, Prepping, Deprepping, Goto
  <1>1. CASE UNCHANGED vars
    BY <1>1 DEF vars
  <1>2. CASE prep_start
    BY <1>2 DEF prep_start, Types, ControlTypes
  <1>3. CASE prep_get
    BY <1>3 DEF prep_get
  <1>4. CASE prep_set
    BY <1>4 DEF prep_set
  <1>5. CASE prep_done
    BY <1>5 DEF prep_done, Types, ControlTypes
  <1>6. CASE gforth_system
    BY <1>6 DEF gforth_system
  <1>7. CASE system_set
    BY <1>7 DEF system_set
  <1>8. CASE system_run
    BY <1>8 DEF system_run
  <1>9. CASE gforth_cleanup
    <2>1. /\ pc' \in {"forth", "exit"} /\ otio' = otio
          /\ \/ pc' = "forth" /\ tty' = tty /\ terminal_prepped' = terminal_prepped
             \/ /\ terminal_prepped' = FALSE /\ pc' = "exit"
                /\ tty' = IF terminal_prepped THEN otio ELSE tty
      BY <1>9, ThrowModes, Zenon DEF gforth_cleanup
    <2> QED
      BY <1>9, <2>1 DEF gforth_cleanup, Types, ControlTypes
  <1>10. CASE Interrupt
    BY <1>10 DEF Interrupt
  <1>11. CASE Deliver \/ OtherSignal \/ Quit
    <2>1. "mask" \notin hits /\ pc \notin Prepping \cup Deprepping /\ hits \subseteq hits'
      BY <1>11 DEF Deliver, OtherSignal, Quit, Note, Window
    <2>2. signal_throw \/ graceful_exit
      BY <1>11 DEF Deliver, OtherSignal, Quit
    <2>3. blocked' = blocked /\ oset' = oset
      BY <1>11 DEF Deliver, OtherSignal, Quit
    <2>4. /\ pc' \in {"forth", "exit"} /\ otio' = otio
          /\ \/ pc' = "forth" /\ tty' = tty /\ terminal_prepped' = terminal_prepped
             \/ /\ terminal_prepped' = FALSE /\ pc' = "exit"
                /\ tty' = IF terminal_prepped THEN otio ELSE tty
      BY <2>2, ThrowModes, Zenon
    <2> QED
      BY <2>1, <2>3, <2>4 DEF Types, ControlTypes
  <1>12. CASE termprep
    <2>1. "mask" \notin hits /\ ("mode" \notin hits' => "mode" \notin hits /\ pc # "prep_done")
      BY <1>12 DEF termprep, Window
    <2>2. /\ terminal_prepped' = FALSE /\ blocked' = blocked /\ oset' = oset
          /\ pc' = pc \/ (pc = "fread" /\ pc' = "forth")
      BY <1>12 DEF termprep
    <2> QED
      BY <2>1, <2>2
  <1>13. CASE /\ UNCHANGED <<tty, otio, terminal_prepped, blocked, oset, hits>>
              /\ pc \in Outside /\ pc' \in Outside
    BY <1>13 DEF Outside
  <1> QED
    BY <1>1, <1>2, <1>3, <1>4, <1>5, <1>6, <1>7, <1>8, <1>9, <1>10, <1>11, <1>12, <1>13, KeepModes
    DEF Signal

-----------------------------------------------------------------------------
(* The lookahead. *)

LEMMA AppendHolds ==
  ASSUME NEW q \in Seq(Streams), NEW s \in Streams
  PROVE  /\ \A t \in Streams : Holds(Append(q, s), t) <=> t = s \/ Holds(q, t)
         /\ Distinct(q) /\ ~Holds(q, s) => Distinct(Append(q, s))
  <1>1. /\ DOMAIN Append(q, s) = 1 .. Len(q) + 1 /\ DOMAIN q = 1 .. Len(q) /\ Len(q) \in Nat
        /\ \A k \in 1 .. Len(q) : Append(q, s)[k] = q[k]
        /\ Append(q, s)[Len(q) + 1] = s
    OBVIOUS
  <1>2. \A t \in Streams : Holds(Append(q, s), t) <=> t = s \/ Holds(q, t)
    BY <1>1 DEF Holds
  <1>3. Distinct(q) /\ ~Holds(q, s) => Distinct(Append(q, s))
    BY <1>1 DEF Holds, Distinct
  <1> QED
    BY <1>2, <1>3

(* The steps that leave the lookahead alone. *)
LEMMA KeepKnown ==
  ASSUME Types, Known, UNCHANGED <<pushed, ungotten, hand, hits>>,
         /\ pc \notin {"unget_note", "reget"} \cup Lining \cup {"unget_char"}
         /\ pc' \in Empty
         /\ pc' = "avail" \/ (pc' \in {"prep"} \cup Prepping /\ then' = "avail") =>
              ~Holds(ungotten, stream')
  PROVE  Known'
  BY DEF Known, Between, Lining, Prepping, Deprepping, Empty

LEMMA SignalKnown ==
  ASSUME Types, Hands, Known, Signal
  PROVE  Known'
  <1>1. CASE Interrupt
    BY <1>1 DEF Interrupt, Known, input, ghosts
  <1>2. CASE termprep
    <2>1. "char" \notin hits' => "char" \notin hits
      BY <1>2 DEF termprep
    <2>2. /\ UNCHANGED <<pushed, ungotten, hand, stream, then>>
          /\ pc' = pc \/ (pc = "fread" /\ pc' = "forth")
      BY <1>2 DEF termprep, input
    <2> QED
      BY <2>1, <2>2 DEF Known, Between, Lining, Prepping
  <1>3. CASE Deliver \/ OtherSignal \/ Quit
    <2> SUFFICES ASSUME "char" \notin hits'
                 PROVE  Known'
      BY DEF Known
    <2>1. /\ "char" \notin hits
          /\ pc \notin {"unget_note", "unget_char", "line_note", "line_char", "reget"}
          /\ pc = "line" => pushed[stream] = <<>>
      BY <1>3 DEF Deliver, OtherSignal, Quit, Note, Window
    <2>2. signal_throw \/ graceful_exit
      BY <1>3 DEF Deliver, OtherSignal, Quit
    <2>3. pc' \in {"forth", "exit"} /\ UNCHANGED <<stream, pushed, ungotten>>
      BY <2>2 DEF signal_throw, graceful_exit
    <2>4. \A s \in Streams : Holds(ungotten, s) <=> pushed[s] # <<>>
      BY <2>1 DEF Known, Between, Types, ControlTypes
    <2> QED
      BY <2>1, <2>3, <2>4 DEF Known, Between, Lining, Prepping
  <1> QED
    BY <1>1, <1>2, <1>3 DEF Signal

LEMMA PrepKnown ==
  ASSUME Types, Known,
         \/ \E s \in Streams : key_avail(s) \/ getkey(s)
         \/ gforth_system \/ gforth_cleanup
         \/ prep_start \/ prep_get \/ prep_set \/ prep_done \/ system_set \/ system_run
  PROVE  Known'
  <1> USE DEF modes, mask, input, output, ghosts, Empty, Prepping, Deprepping, Lining, Goto
  <1>1. ASSUME NEW s \in Streams, key_avail(s) \/ getkey(s) PROVE Known'
    <2>1. gf_ungottenc(s) <=> Holds(ungotten, s)
      BY DEF gf_ungottenc, Holds
    <2>2. /\ pc = "forth" /\ pc' \in {"forth", "prep", "avail", "fread"} /\ stream' = s
          /\ pc' = "avail" \/ (pc' = "prep" /\ then' = "avail") => ~gf_ungottenc(s)
          /\ UNCHANGED <<input, ghosts>>
      BY <1>1 DEF key_avail, getkey
    <2> QED
      BY <2>1, <2>2, KeepKnown
  <1> USE DEF Known, Between
  <1>2. CASE gforth_system
    BY <1>2 DEF gforth_system
  <1>3. CASE gforth_cleanup
    <2>1. pc = "forth" /\ pc' = "exit" /\ UNCHANGED <<stream, pushed, ungotten, hits>>
      BY <1>3 DEF gforth_cleanup, graceful_exit
    <2> QED
      BY <2>1
  <1>4. CASE prep_start
    BY <1>4 DEF prep_start, Types, ControlTypes
  <1>5. CASE prep_get
    BY <1>5 DEF prep_get
  <1>6. CASE prep_set
    BY <1>6 DEF prep_set
  <1>7. CASE prep_done
    BY <1>7 DEF prep_done, Types, ControlTypes
  <1>8. CASE system_set
    BY <1>8 DEF system_set
  <1>9. CASE system_run
    BY <1>9 DEF system_run
  <1> QED
    BY <1>1, <1>2, <1>3, <1>4, <1>5, <1>6, <1>7, <1>8, <1>9

LEMMA KeyKnown ==
  ASSUME Types, Hands, Known, avail \/ unget_note \/ unget_char \/ fread \/ reget,
         "char" \notin hits'
  PROVE  Known'
  <1> USE DEF ghosts, input, Between, Lining, Prepping, Goto, Return
  <1>0. "char" \notin hits /\ stream \in Streams
    BY DEF avail, unget_note, unget_char, fread, reget, Types, ControlTypes
  <1>1. ASSUME getc(stream), ~AtEnd(stream)
        PROVE  pushed'[stream] = <<>> /\ \A t \in Streams \ {stream} : pushed'[t] = pushed[t]
    <2>1. Len(pushed[stream]) <= 1
      BY <1>0 DEF Known
    <2> QED
      BY <1>0, <1>1, <2>1, Getc
  <1>2. in[stream] # <<>> \/ pushed[stream] # <<>> => ~AtEnd(stream)
    BY <1>0, ConcatEqualIffEmpty DEF AtEnd, Types, InputTypes
  <1>3. CASE avail
    <2>1. CASE getc(stream) /\ pc' = "unget_note" /\ ~AtEnd(stream)
      BY <1>0, <1>1, <1>3, <2>1 DEF avail, Known
    <2>2. CASE UNCHANGED <<in, pushed, hand>> /\ pc' = "forth"
      BY <1>3, <2>2 DEF avail, Known
    <2> QED
      BY <1>2, <1>3, <2>1, <2>2 DEF avail
  <1>4. CASE fread
    <2>1. CASE getc(stream) /\ pc' = "reget" /\ ~AtEnd(stream)
      BY <1>0, <1>1, <1>4, <2>1 DEF fread, Known
    <2>2. CASE UNCHANGED <<in, pushed, hand>> /\ pc' = "forth"
      BY <1>4, <2>2 DEF fread, Known
    <2> QED
      BY <1>4, <2>1, <2>2 DEF fread
  <1>5. CASE unget_note
    <2>1. ~Holds(ungotten, stream) /\ pushed[stream] = <<>> /\ Distinct(ungotten)
      BY <1>0, <1>5 DEF unget_note, Known
    <2>2. ungotten' = Append(ungotten, stream) /\ ungotten \in Seq(Streams)
      BY <1>5 DEF unget_note, Types, InputTypes
    <2>3. /\ \A t \in Streams : Holds(ungotten', t) <=> t = stream \/ Holds(ungotten, t)
          /\ Distinct(ungotten')
      BY <1>0, <2>1, <2>2, AppendHolds
    <2> QED
      BY <1>0, <1>5, <2>1, <2>3 DEF unget_note, Known
  <1>6. CASE unget_char
    <2>1. Holds(ungotten, stream) /\ pushed[stream] = <<>> /\ Len(hand) = 1
      BY <1>0, <1>6 DEF unget_char, Known, Hands
    <2>2. pushed' = [pushed EXCEPT ![stream] = hand]
      <3>1. hand \o <<>> = hand
        BY ConcatEmptySeq DEF Types, InputTypes
      <3> QED
        BY <1>6, <2>1, <3>1 DEF unget_char
    <2>3. hand # <<>> /\ Len(hand) <= 1
      BY <2>1
    <2>4. /\ pushed'[stream] = hand
          /\ \A t \in Streams \ {stream} : pushed'[t] = pushed[t]
      BY <1>0, <2>2 DEF Types, InputTypes
    <2>5. pc = "unget_char" /\ pc' = "forth" /\ UNCHANGED <<stream, ungotten>>
      BY <1>6 DEF unget_char
    <2>6. \A s \in Streams : Len(pushed'[s]) <= 1 /\ (Holds(ungotten', s) <=> pushed'[s] # <<>>)
      <3> SUFFICES ASSUME NEW s \in Streams
                   PROVE  Len(pushed'[s]) <= 1 /\ (Holds(ungotten', s) <=> pushed'[s] # <<>>)
        OBVIOUS
      <3>1. CASE s = stream
        <4>1. Holds(ungotten', stream) /\ Len(pushed'[stream]) <= 1 /\ pushed'[stream] # <<>>
          <5>1. Len(pushed'[stream]) <= 1 /\ pushed'[stream] # <<>>
            BY <2>3, <2>4, Zenon
          <5> QED
            BY <2>1, <2>5, <5>1, Zenon
        <4> QED
          BY <3>1, <4>1
      <3>2. CASE s # stream
        BY <1>0, <2>1, <2>3, <2>4, <2>5, <3>2 DEF Known
      <3> QED
        BY <3>1, <3>2
    <2> QED
      BY <1>0, <2>5, <2>6 DEF Known
  <1>7. CASE reget
    <2>1. pushed[stream] = <<>> /\ Distinct(ungotten)
      BY <1>0, <1>7 DEF reget, Known
    <2>2. /\ \A t \in Streams : Holds(ungotten', t) <=> t # stream /\ gf_ungottenc(t)
          /\ Distinct(ungotten')
      BY <1>0, <1>7, <2>1, Regetc DEF reget, Types, InputTypes
    <2>3. \A t \in Streams : gf_ungottenc(t) <=> Holds(ungotten, t)
      BY DEF gf_ungottenc, Holds
    <2> QED
      BY <1>0, <1>7, <2>1, <2>2, <2>3 DEF reget, Known
  <1> QED
    BY <1>3, <1>4, <1>5, <1>6, <1>7

LEMMA LineKnown ==
  ASSUME Types, Hands, Known,
         read_line \/ line_getc \/ line_lf \/ line_cr \/ line_crlf \/ line_char,
         "char" \notin hits'
  PROVE  Known'
  <1> USE DEF ghosts, input, Between, Lining, Prepping, Goto, Return
  <1>0. "char" \notin hits /\ stream \in Streams
    BY DEF read_line, line_getc, line_lf, line_cr, line_crlf, line_char, Types, ControlTypes
  <1>1. ASSUME getc(stream), ~AtEnd(stream)
        PROVE  /\ pushed'[stream] = <<>> /\ \A t \in Streams \ {stream} : pushed'[t] = pushed[t]
               /\ hand' # <<>>
    <2>1. Len(pushed[stream]) <= 1
      BY <1>0 DEF Known
    <2>2. /\ Len(hand') = Len(hand) + 1
          /\ pushed'[stream] = <<>> /\ \A t \in Streams \ {stream} : pushed'[t] = pushed[t]
      BY <1>0, <1>1, <2>1, Getc
    <2>3. Len(hand) \in Nat
      BY DEF Types, InputTypes
    <2> QED
      BY <2>2, <2>3
  <1>2. ASSUME pc \in Lining \ {"line_char"}, pushed[stream] = <<>>, pc' = "forth",
               UNCHANGED <<stream, pushed, ungotten>>
        PROVE  Known'
    <2>1. ~Holds(ungotten, stream)
      BY <1>0, <1>2 DEF Known
    <2> QED
      BY <1>0, <1>2, <2>1 DEF Known
  <1>3. CASE read_line
    <2>1. /\ \A t \in Streams : Holds(ungotten', t) <=> t # "file" /\ gf_ungottenc(t)
          /\ Distinct(ungotten')
      <3>1. Distinct(ungotten) /\ "file" \in Streams
        BY <1>0 DEF Known, Streams
      <3> QED
        BY <1>3, <3>1, Regetc DEF read_line, Types, InputTypes
    <2>2. \A t \in Streams : gf_ungottenc(t) <=> Holds(ungotten, t)
      BY DEF gf_ungottenc, Holds
    <2>3. hand = <<>> /\ pc = "forth"
      BY <1>3 DEF read_line, Hands, Empty
    <2> QED
      BY <1>0, <1>3, <2>1, <2>2, <2>3 DEF read_line, Known, Streams
  <1>4. CASE line_getc
    <2>1. CASE EndLine(hand, Len(hand)) /\ UNCHANGED <<in, pushed>>
      <3>1. hand # <<>> \/ AtEnd(stream)
        <4>1. hand = <<>> => Len(hand) # LineSize
          BY TerminalAssumption
        <4> QED
          BY <1>4, <2>1, <4>1 DEF line_getc, EndLine
      <3>2. pushed[stream] = <<>>
        BY <1>0, <1>4, <3>1, ConcatEqualIffEmpty DEF line_getc, Known, AtEnd, Types, InputTypes
      <3> QED
        BY <1>2, <1>4, <2>1, <3>2 DEF line_getc, EndLine
    <2>2. CASE pc' = "forth" /\ AtEnd(stream) /\ hand = <<>> /\ UNCHANGED <<in, pushed, hand, lines, u3>>
      <3>1. pushed[stream] = <<>>
        BY <1>0, <2>2, ConcatEqualIffEmpty DEF AtEnd, Types, InputTypes
      <3> QED
        BY <1>2, <1>4, <2>2, <3>1 DEF line_getc
    <2>3. CASE /\ getc(stream) /\ ~AtEnd(stream) /\ UNCHANGED <<lines, u3>>
               /\ pc' \in {"line", "line_lf", "line_cr"}
      <3>1. pc = "line" /\ UNCHANGED <<stream, ungotten>> /\ ~Holds(ungotten, stream)
        BY <1>0, <1>4 DEF line_getc, Known
      <3> QED
        BY <1>0, <1>1, <2>3, <3>1 DEF Known
    <2> QED
      BY <1>4, <2>1, <2>2, <2>3 DEF line_getc
  <1>5. CASE line_lf
    BY <1>0, <1>2, <1>5 DEF line_lf, EndLine, Known
  <1>6. CASE line_cr
    <2>0. pc = "line_cr" /\ UNCHANGED <<stream, ungotten>>
          /\ ~Holds(ungotten, stream) /\ pushed[stream] = <<>>
      BY <1>0, <1>6 DEF line_cr, Known
    <2>1. CASE EndLine(Front(hand), Len(hand)) /\ UNCHANGED <<in, pushed>>
      BY <1>2, <2>0, <2>1 DEF EndLine
    <2>2. CASE /\ getc(stream) /\ ~AtEnd(stream) /\ UNCHANGED <<lines, u3>>
               /\ pc' \in {"line_crlf", "line_note"}
      BY <1>0, <1>1, <2>0, <2>2 DEF Known
    <2> QED
      BY <1>6, <2>1, <2>2 DEF line_cr
  <1>7. CASE line_crlf
    BY <1>0, <1>2, <1>7 DEF line_crlf, EndLine, Known
  <1>8. CASE line_char
    <2>1. /\ pc = "line_char" /\ pc' = "forth" /\ UNCHANGED <<stream, ungotten>>
          /\ Holds(ungotten, stream) /\ pushed[stream] = <<>>
      BY <1>0, <1>8 DEF line_char, EndLine, Known
    <2>2. /\ pushed'[stream] = <<Last(hand)>> \o <<>>
          /\ \A t \in Streams \ {stream} : pushed'[t] = pushed[t]
      BY <1>0, <1>8, <2>1 DEF line_char, Types, InputTypes
    <2>3. Len(pushed'[stream]) = 1 /\ pushed'[stream] # <<>>
      BY <2>2
    <2>4. \A s \in Streams : Len(pushed'[s]) <= 1 /\ (Holds(ungotten', s) <=> pushed'[s] # <<>>)
      <3> SUFFICES ASSUME NEW s \in Streams
                   PROVE  Len(pushed'[s]) <= 1 /\ (Holds(ungotten', s) <=> pushed'[s] # <<>>)
        OBVIOUS
      <3>1. CASE s = stream
        <4>1. Holds(ungotten', stream) /\ Len(pushed'[stream]) <= 1 /\ pushed'[stream] # <<>>
          BY <1>0, <2>1, <2>2, <2>3, <3>1
        <4> QED
          BY <3>1, <4>1
      <3>2. CASE s # stream
        BY <1>0, <2>1, <2>2, <2>3, <3>2 DEF Known
      <3> QED
        BY <3>1, <3>2
    <2> QED
      BY <1>0, <2>1, <2>4 DEF Known
  <1> QED
    BY <1>3, <1>4, <1>5, <1>6, <1>7, <1>8

LEMMA KnownStep ==
  ASSUME Types, Hands, Known, [Next]_vars
  PROVE  Known'
  <1>1. CASE UNCHANGED vars
    BY <1>1 DEF vars, Known
  <1>2. CASE "char" \in hits'
    BY <1>2 DEF Known
  <1> QED
    BY <1>1, <1>2, SignalKnown, PrepKnown, KeyKnown, LineKnown DEF Next, Primitive, Step

-----------------------------------------------------------------------------
(* The characters. *)

(* r is the end of q, character by character. *)
EndOf(r, q) ==
  /\ Len(r) <= Len(q)
  /\ \A i \in 1 .. Len(r) : r[i] = q[Len(q) - Len(r) + i]

LEMMA SuffixIsEnd ==
  ASSUME NEW r \in Seq(Char), NEW q \in Seq(Char)
  PROVE  IsSuffix(r, q) <=> EndOf(r, q)
  <1> DEFINE R == [i \in 1 .. Len(r) |-> r[(Len(r) - i) + 1]]
             Q == [i \in 1 .. Len(q) |-> q[(Len(q) - i) + 1]]
             m == Len(r)
             n == Len(q)
  <1>1. m \in Nat /\ n \in Nat
    OBVIOUS
  <1>2. R \in Seq(Char) /\ Q \in Seq(Char) /\ Len(R) = m /\ Len(Q) = n
    <2>1. \A i \in 1 .. m : r[(m - i) + 1] \in Char
      OBVIOUS
    <2>2. \A i \in 1 .. n : q[(n - i) + 1] \in Char
      OBVIOUS
    <2> QED
      BY <1>1, <2>1, <2>2
  <1>3. /\ \A i \in 1 .. m : R[i] = r[(m - i) + 1]
        /\ \A i \in 1 .. n : Q[i] = q[(n - i) + 1]
    OBVIOUS
  <1>4. IsSuffix(r, q) <=> m <= n /\ SubSeq(R, 1, m) = SubSeq(Q, 1, m)
    BY <1>2 DEF IsSuffix, IsPrefix, Reverse
  <1> HIDE DEF R, Q, m, n
  <1>5. ASSUME m <= n
        PROVE  SubSeq(R, 1, m) = SubSeq(Q, 1, m) <=> \A i \in 1 .. m : R[i] = Q[i]
    <2>1. /\ SubSeq(R, 1, m) \in Seq(Char) /\ Len(SubSeq(R, 1, m)) = m
          /\ SubSeq(Q, 1, m) \in Seq(Char) /\ Len(SubSeq(Q, 1, m)) = m
          /\ \A i \in 1 .. m : SubSeq(R, 1, m)[i] = R[i] /\ SubSeq(Q, 1, m)[i] = Q[i]
      BY <1>1, <1>2, <1>5
    <2> QED
      BY <2>1, SeqEqual
  <1>6. ASSUME m <= n
        PROVE  (\A i \in 1 .. m : R[i] = Q[i]) <=> (\A i \in 1 .. m : r[i] = q[n - m + i])
    <2>1. ASSUME \A i \in 1 .. m : R[i] = Q[i], NEW i \in 1 .. m
          PROVE  r[i] = q[n - m + i]
      <3>1. m - i + 1 \in 1 .. m /\ m - i + 1 \in 1 .. n
        BY <1>1, <1>6
      <3>2. R[m - i + 1] = r[i] /\ Q[m - i + 1] = q[n - m + i]
        BY <1>1, <1>3, <3>1
      <3> QED
        BY <2>1, <3>1, <3>2
    <2>2. ASSUME \A i \in 1 .. m : r[i] = q[n - m + i], NEW i \in 1 .. m
          PROVE  R[i] = Q[i]
      <3>1. m - i + 1 \in 1 .. m /\ i \in 1 .. n
        BY <1>1, <1>6
      <3>2. R[i] = r[m - i + 1] /\ Q[i] = q[n - m + (m - i + 1)]
        BY <1>1, <1>3, <3>1
      <3> QED
        BY <2>2, <3>1, <3>2
    <2> QED
      BY <2>1, <2>2
  <1> QED
    BY <1>1, <1>4, <1>5, <1>6 DEF EndOf, m, n

(* An end without its first characters is an end. *)
LEMMA EndShortened ==
  ASSUME NEW r \in Seq(Char), NEW q \in Seq(Char), NEW d \in Seq(Char), NEW t \in Seq(Char),
         r = d \o t, EndOf(r, q)
  PROVE  EndOf(t, q)
  <1>1. Len(r) = Len(d) + Len(t) /\ Len(d) \in Nat /\ Len(t) \in Nat /\ Len(q) \in Nat
    OBVIOUS
  <1>2. \A i \in 1 .. Len(t) : t[i] = r[Len(d) + i]
    OBVIOUS
  <1>3. ASSUME NEW i \in 1 .. Len(t) PROVE t[i] = q[Len(q) - Len(t) + i]
    <2>1. Len(d) + i \in 1 .. Len(r)
      BY <1>1
    <2>2. r[Len(d) + i] = q[Len(q) - Len(r) + (Len(d) + i)]
      BY <2>1 DEF EndOf
    <2> QED
      BY <1>1, <1>2, <2>2
  <1> QED
    BY <1>1, <1>3 DEF EndOf

LEMMA RestType ==
  ASSUME Types
  PROVE  \A s \in Streams : Rest(s) \in Seq(Char) /\ Len(Rest(s)) \in Nat
  BY DEF Types, InputTypes, Rest

(* A step that leaves what is to come of each stream. *)
LEMMA RestKept ==
  ASSUME Types, KeysConserved, UNCHANGED <<file, got, u3, dropped>>,
         \A s \in Streams : Rest(s)' = Rest(s)
  PROVE  KeysConserved'
  <1>1. Rest("stdin")' = Rest("stdin") /\ Rest("file")' = Rest("file")
    BY DEF Streams
  <1> QED
    BY <1>1 DEF KeysConserved

(* The characters d of the stream are delivered as keys or as a line, or   *)
(* dropped.                                                                *)
Counted(d) ==
  \/ /\ got' = [got EXCEPT ![stream] = @ \o d] /\ UNCHANGED <<u3, dropped>>
  \/ /\ stream = "file" /\ u3' = u3 + Len(d) /\ UNCHANGED <<got, dropped>>
  \/ /\ dropped' = [dropped EXCEPT ![stream] = @ + Len(d)] /\ UNCHANGED <<got, u3>>

(* A step that takes d from what is to come of the stream. *)
LEMMA RestTaken ==
  ASSUME Types, Types', KeysConserved, UNCHANGED <<stream, file>>, NEW d \in Seq(Char),
         Rest(stream) = d \o Rest(stream)',
         \A s \in Streams \ {stream} : Rest(s)' = Rest(s),
         Counted(d)
  PROVE  KeysConserved'
  <1>1. /\ stream \in Streams /\ Len(d) \in Nat
        /\ \A s \in Streams : /\ Rest(s) \in Seq(Char) /\ Rest(s)' \in Seq(Char)
                              /\ Len(Rest(s)) \in Nat /\ Len(Rest(s)') \in Nat
    <2>1. \A s \in Streams : Rest(s)' \in Seq(Char) /\ Len(Rest(s)') \in Nat
      BY DEF Types, InputTypes, Rest
    <2>2. stream \in Streams /\ Len(d) \in Nat
      BY DEF Types, ControlTypes
    <2> QED
      BY <2>1, <2>2, RestType
  <1>2. Len(Rest(stream)) = Len(d) + Len(Rest(stream)')
    BY <1>1
  <1>3. \A s \in Streams, q \in Seq(Char) : IsSuffix(Rest(s), q) => IsSuffix(Rest(s)', q)
    <2> SUFFICES ASSUME NEW s \in Streams, NEW q \in Seq(Char), IsSuffix(Rest(s), q)
                 PROVE  IsSuffix(Rest(s)', q)
      OBVIOUS
    <2>1. CASE s = stream
      <3>1. EndOf(Rest(stream), q)
        BY <1>1, <2>1, SuffixIsEnd
      <3>2. EndOf(Rest(stream)', q)
        BY <1>1, <3>1, EndShortened
      <3> QED
        BY <1>1, <2>1, <3>2, SuffixIsEnd
    <2>2. CASE s # stream
      BY <2>2
    <2> QED
      BY <2>1, <2>2
  <1>4. IsSuffix(Rest("stdin")', Typed) /\ IsSuffix(Rest("file")', file')
    BY <1>3, TerminalAssumption DEF KeysConserved, Types, InputTypes, Streams
  <1>5. CASE stream = "stdin"
    <2>1. Rest("file")' = Rest("file") /\ Rest("stdin") = d \o Rest("stdin")'
      BY <1>5 DEF Streams
    <2>2. u3' = u3 /\ got'["file"] = got["file"] /\ dropped'["file"] = dropped["file"]
      BY <1>5 DEF Counted, Types, OutputTypes, Streams
    <2>3. \/ /\ got'["stdin"] = got["stdin"] \o d /\ dropped'["stdin"] = dropped["stdin"]
          \/ /\ got'["stdin"] = got["stdin"] /\ dropped'["stdin"] = dropped["stdin"] + Len(d)
      BY <1>5 DEF Counted, Types, OutputTypes, Streams
    <2>4. got["stdin"] \in Seq(Char) /\ Len(got["stdin"]) \in Nat /\ dropped["stdin"] \in Nat
      BY DEF Types, OutputTypes, Streams
    <2>5. Len(got'["stdin"]) + Len(Rest("stdin")') + dropped'["stdin"] = Len(Typed)
      <3>1. Len(got["stdin"]) + Len(Rest("stdin")) + dropped["stdin"] = Len(Typed)
        BY DEF KeysConserved
      <3>2. /\ Len(Rest("stdin")) = Len(d) + Len(Rest("stdin")')
            /\ Len(Rest("stdin")) \in Nat /\ Len(Rest("stdin")') \in Nat
        BY <1>1, <1>2, <1>5
      <3>3. Len(got["stdin"] \o d) = Len(got["stdin"]) + Len(d)
        BY <2>4
      <3>4. \/ /\ Len(got'["stdin"]) = Len(got["stdin"]) + Len(d)
               /\ dropped'["stdin"] = dropped["stdin"]
            \/ /\ Len(got'["stdin"]) = Len(got["stdin"])
               /\ dropped'["stdin"] = dropped["stdin"] + Len(d)
        BY <2>3, <3>3, Zenon
      <3> DEFINE g == Len(got["stdin"])
                 g1 == Len(got'["stdin"])
                 r == Len(Rest("stdin"))
                 r1 == Len(Rest("stdin")')
                 n == Len(Typed)
                 k == Len(d)
      <3>5. /\ g + r + dropped["stdin"] = n /\ r = k + r1
            /\ g \in Nat /\ r \in Nat /\ r1 \in Nat /\ k \in Nat
            /\ \/ g1 = g + k /\ dropped'["stdin"] = dropped["stdin"]
               \/ g1 = g /\ dropped'["stdin"] = dropped["stdin"] + k
        BY <1>1, <2>4, <3>1, <3>2, <3>4, Zenon
      <3> HIDE DEF g, g1, r, r1, n, k
      <3>6. g1 + r1 + dropped'["stdin"] = n
        BY <2>4, <3>5
      <3> QED
        BY <3>6 DEF g1, r1, n
    <2>6. ASSUME dropped'["stdin"] = 0 PROVE got'["stdin"] \o Rest("stdin")' = Typed
      <3>1. CASE got'["stdin"] = got["stdin"] \o d /\ dropped'["stdin"] = dropped["stdin"]
        <4>1. (got["stdin"] \o d) \o Rest("stdin")' = got["stdin"] \o (d \o Rest("stdin")')
          <5>1. Rest("stdin")' \in Seq(Char)
            BY <1>1, <1>5
          <5>2. ASSUME NEW a \in Seq(Char), NEW b \in Seq(Char), NEW c \in Seq(Char)
                PROVE  (a \o b) \o c = a \o (b \o c)
            BY ConcatAssociative
          <5> QED
            BY <2>4, <5>1, <5>2, Zenon
        <4> QED
          BY <2>1, <2>6, <3>1, <4>1 DEF KeysConserved
      <3>2. CASE got'["stdin"] = got["stdin"] /\ dropped'["stdin"] = dropped["stdin"] + Len(d)
        <4>1. d = <<>> /\ dropped["stdin"] = 0
          BY <1>1, <2>4, <2>6, <3>2, EmptySeq
        <4>2. Rest("stdin")' = Rest("stdin")
          BY <1>1, <1>5, <2>1, <4>1, ConcatEmptySeq
        <4> QED
          BY <3>2, <4>1, <4>2 DEF KeysConserved
      <3> QED
        BY <2>3, <3>1, <3>2
    <2>7. Len(got'["file"]) + u3' + Len(Rest("file")') + dropped'["file"] = Len(file')
      BY <2>1, <2>2 DEF KeysConserved
    <2> QED
      BY <1>4, <2>5, <2>6, <2>7 DEF KeysConserved
  <1>6. CASE stream = "file"
    <2>1. Rest("stdin")' = Rest("stdin") /\ Rest("file") = d \o Rest("file")'
      BY <1>6 DEF Streams
    <2>2. got'["stdin"] = got["stdin"] /\ dropped'["stdin"] = dropped["stdin"]
      BY <1>6 DEF Counted, Types, OutputTypes, Streams
    <2>3. \/ got'["file"] = got["file"] \o d /\ u3' = u3 /\ dropped'["file"] = dropped["file"]
          \/ got'["file"] = got["file"] /\ u3' = u3 + Len(d) /\ dropped'["file"] = dropped["file"]
          \/ got'["file"] = got["file"] /\ u3' = u3 /\ dropped'["file"] = dropped["file"] + Len(d)
      BY <1>6 DEF Counted, Types, OutputTypes, Streams
    <2>4. /\ got["file"] \in Seq(Char) /\ Len(got["file"]) \in Nat
          /\ dropped["file"] \in Nat /\ u3 \in Nat
      BY DEF Types, OutputTypes, Streams
    <2>5. Len(got'["file"]) + u3' + Len(Rest("file")') + dropped'["file"] = Len(file')
      <3>1. Len(got["file"]) + u3 + Len(Rest("file")) + dropped["file"] = Len(file)
        BY DEF KeysConserved
      <3>2. /\ Len(Rest("file")) = Len(d) + Len(Rest("file")')
            /\ Len(Rest("file")) \in Nat /\ Len(Rest("file")') \in Nat
        BY <1>1, <1>2, <1>6
      <3>3. Len(got["file"] \o d) = Len(got["file"]) + Len(d)
        BY <2>4
      <3>4. \/ /\ Len(got'["file"]) = Len(got["file"]) + Len(d) /\ u3' = u3
               /\ dropped'["file"] = dropped["file"]
            \/ /\ Len(got'["file"]) = Len(got["file"]) /\ u3' = u3 + Len(d)
               /\ dropped'["file"] = dropped["file"]
            \/ /\ Len(got'["file"]) = Len(got["file"]) /\ u3' = u3
               /\ dropped'["file"] = dropped["file"] + Len(d)
        BY <2>3, <3>3, Zenon
      <3>5. file' = file
        OBVIOUS
      <3> DEFINE g == Len(got["file"])
                 g1 == Len(got'["file"])
                 r == Len(Rest("file"))
                 r1 == Len(Rest("file")')
                 n == Len(file)
                 k == Len(d)
      <3>6. /\ g + u3 + r + dropped["file"] = n /\ r = k + r1
            /\ g \in Nat /\ r \in Nat /\ r1 \in Nat /\ k \in Nat
            /\ \/ g1 = g + k /\ u3' = u3 /\ dropped'["file"] = dropped["file"]
               \/ g1 = g /\ u3' = u3 + k /\ dropped'["file"] = dropped["file"]
               \/ g1 = g /\ u3' = u3 /\ dropped'["file"] = dropped["file"] + k
        BY <1>1, <2>4, <3>1, <3>2, <3>4, Zenon
      <3> HIDE DEF g, g1, r, r1, n, k
      <3>7. g1 + u3' + r1 + dropped'["file"] = n
        BY <2>4, <3>6
      <3> QED
        BY <3>5, <3>7 DEF g1, r1, n
    <2> QED
      BY <1>4, <2>1, <2>2, <2>5 DEF KeysConserved
  <1> QED
    BY <1>1, <1>5, <1>6 DEF Streams

(* Steps that leave the input alone, or change the stream with nothing in  *)
(* hand.                                                                   *)
LEMMA InputKept ==
  ASSUME Types, KeysConserved, UNCHANGED <<in, pushed, hand, file, got, u3, dropped>>,
         stream' = stream \/ hand = <<>>
  PROVE  KeysConserved'
  <1>1. \A s \in Streams : Rest(s)' = Rest(s)
    BY DEF Rest
  <1> QED
    BY <1>1, RestKept

(* getc moves a character into the hand. *)
LEMMA GetcKept ==
  ASSUME Types, KeysConserved, getc(stream), ~AtEnd(stream), UNCHANGED <<stream, file, got, u3, dropped>>
  PROVE  KeysConserved'
  <1>1. stream \in Streams
    BY DEF Types, ControlTypes
  <1>2. /\ (hand' \o pushed'[stream]) \o in'[stream] = (hand \o pushed[stream]) \o in[stream]
        /\ \A t \in Streams \ {stream} : pushed'[t] = pushed[t] /\ in'[t] = in[t]
    BY <1>1, Getc
  <1>3. \A s \in Streams : Rest(s)' = Rest(s)
    BY <1>2 DEF Rest
  <1> QED
    BY <1>3, RestKept

(* The hand is emptied. *)
LEMMA HandTaken ==
  ASSUME Types, Types', KeysConserved, UNCHANGED <<stream, file, pushed, in>>, hand' = <<>>,
         Counted(hand)
  PROVE  KeysConserved'
  <1>1. stream \in Streams /\ hand \in Seq(Char)
    BY DEF Types, ControlTypes, InputTypes
  <1>2. \A s \in Streams \ {stream} : Rest(s)' = Rest(s)
    BY DEF Rest
  <1>3. Rest(stream) = hand \o Rest(stream)'
    <2> DEFINE p == pushed[stream]
               i == in[stream]
    <2>1. p \in Seq(Char) /\ i \in Seq(Char)
      BY <1>1 DEF Types, InputTypes
    <2>2. Rest(stream) = (hand \o p) \o i /\ Rest(stream)' = (<<>> \o p) \o i
      BY DEF Rest
    <2> HIDE DEF p, i
    <2>3. (hand \o p) \o i = hand \o (p \o i) /\ <<>> \o p = p
      BY <1>1, <2>1, ConcatAssociative, ConcatEmptySeq
    <2> QED
      BY <2>2, <2>3
  <1> QED
    BY <1>1, <1>2, <1>3, RestTaken

LEMMA KeysSignal ==
  ASSUME Types, Types', Hands, KeysConserved, Signal \/ gforth_cleanup
  PROVE  KeysConserved'
  <1>1. CASE Interrupt
    BY <1>1, InputKept DEF Interrupt, input, output, ghosts
  <1>2. CASE termprep
    BY <1>2, InputKept DEF termprep, input, output
  <1>3. CASE Deliver \/ OtherSignal \/ Quit
    <2>1. (signal_throw \/ graceful_exit) /\ Note
      BY <1>3 DEF Deliver, OtherSignal, Quit
    <2>2. hand' = <<>> /\ UNCHANGED <<stream, file, pushed, in, got, u3>>
      BY <2>1 DEF signal_throw, graceful_exit, output
    <2>3. Counted(hand)
      BY <2>1, <2>2 DEF Note, Counted
    <2> QED
      BY <2>2, <2>3, HandTaken
  <1>4. CASE gforth_cleanup
    <2>1. hand = <<>>
      BY <1>4 DEF gforth_cleanup, Hands, Empty
    <2> QED
      BY <1>4, <2>1, InputKept DEF gforth_cleanup, graceful_exit, output, ghosts
  <1> QED
    BY <1>1, <1>2, <1>3, <1>4 DEF Signal

LEMMA KeysPrep ==
  ASSUME Types, Hands, KeysConserved,
         \/ \E s \in Streams : key_avail(s) \/ getkey(s)
         \/ read_line \/ gforth_system
         \/ prep_start \/ prep_get \/ prep_set \/ prep_done \/ system_set \/ system_run
  PROVE  KeysConserved'
  <1>1. CASE (\E s \in Streams : key_avail(s) \/ getkey(s)) \/ read_line
    <2>1. hand = <<>> /\ UNCHANGED <<in, pushed, hand, file, got, u3, dropped>>
      BY <1>1 DEF key_avail, getkey, read_line, Hands, Empty, input, output, ghosts
    <2> QED
      BY <2>1, InputKept
  <1>2. CASE \/ gforth_system \/ prep_start \/ prep_get \/ prep_set \/ prep_done
             \/ system_set \/ system_run
    <2>1. UNCHANGED <<stream, in, pushed, hand, file, got, u3, dropped>>
      BY <1>2 DEF gforth_system, prep_start, prep_get, prep_set, prep_done, system_set, system_run,
                  input, output, ghosts
    <2> QED
      BY <2>1, InputKept
  <1> QED
    BY <1>1, <1>2

LEMMA KeysKey ==
  ASSUME Types, Types', Hands, KeysConserved, avail \/ unget_note \/ unget_char \/ fread \/ reget
  PROVE  KeysConserved'
  <1> USE DEF output, ghosts
  <1>0. stream \in Streams /\ hand \in Seq(Char) /\ pushed[stream] \in Seq(Char) /\ in[stream] \in Seq(Char)
    BY DEF Types, ControlTypes, InputTypes
  <1>1. in[stream] # <<>> \/ pushed[stream] # <<>> => ~AtEnd(stream)
    BY <1>0, ConcatEqualIffEmpty DEF AtEnd
  <1>2. CASE avail \/ fread
    <2>0. UNCHANGED <<stream, file, got, u3, dropped>>
      BY <1>2 DEF avail, fread
    <2>1. (getc(stream) /\ ~AtEnd(stream)) \/ UNCHANGED <<in, pushed, hand>>
      BY <1>1, <1>2 DEF avail, fread
    <2> QED
      BY <2>0, <2>1, GetcKept, InputKept
  <1>3. CASE unget_note
    BY <1>3, InputKept DEF unget_note
  <1>4. CASE unget_char
    <2>0. /\ UNCHANGED <<stream, in, file, got, u3, dropped>> /\ hand' = <<>>
          /\ pushed' = [pushed EXCEPT ![stream] = hand \o pushed[stream]]
      BY <1>4 DEF unget_char
    <2>1. /\ pushed'[stream] = hand \o pushed[stream]
          /\ \A t \in Streams \ {stream} : pushed'[t] = pushed[t]
      BY <1>0, <2>0 DEF Types, InputTypes
    <2>2. <<>> \o (hand \o pushed[stream]) = hand \o pushed[stream]
      BY <1>0
    <2>3. \A s \in Streams : Rest(s)' = Rest(s)
      BY <2>0, <2>1, <2>2 DEF Rest
    <2> QED
      BY <2>0, <2>3, RestKept
  <1>5. CASE reget
    BY <1>5, HandTaken DEF reget, Counted
  <1> QED
    BY <1>2, <1>3, <1>4, <1>5

LEMMA KeysLine ==
  ASSUME Types, Types', Hands, KeysConserved,
         line_getc \/ line_lf \/ line_cr \/ line_crlf \/ line_char
  PROVE  KeysConserved'
  <1> USE DEF ghosts
  <1>0. /\ stream = "file" /\ stream \in Streams /\ UNCHANGED <<stream, file, got, dropped>>
        /\ hand \in Seq(Char) /\ pushed[stream] \in Seq(Char) /\ in[stream] \in Seq(Char)
    BY DEF line_getc, line_lf, line_cr, line_crlf, line_char, Hands, Lining,
           Types, ControlTypes, InputTypes
  <1>1. ASSUME NEW text, EndLine(text, Len(hand)), UNCHANGED <<in, pushed>>
        PROVE  KeysConserved'
    <2>1. hand' = <<>> /\ u3' = u3 + Len(hand)
      BY <1>1 DEF EndLine
    <2>2. Counted(hand)
      BY <1>0, <2>1 DEF Counted
    <2> QED
      BY <1>0, <1>1, <2>1, <2>2, HandTaken
  <1>2. ASSUME getc(stream), ~AtEnd(stream), UNCHANGED <<lines, u3>> PROVE KeysConserved'
    BY <1>0, <1>2, GetcKept
  <1>3. CASE line_getc
    <2>1. CASE UNCHANGED <<in, pushed, hand, lines, u3>>
      BY <1>0, <2>1, InputKept
    <2> QED
      BY <1>1, <1>2, <1>3, <2>1 DEF line_getc
  <1>4. CASE line_lf \/ line_crlf
    BY <1>1, <1>4 DEF line_lf, line_crlf
  <1>5. CASE line_cr
    BY <1>1, <1>2, <1>5 DEF line_cr
  <1>6. CASE line_char
    <2> DEFINE p == pushed[stream]
               i == in[stream]
               n == Len(hand)
               d == SubSeq(hand, 1, n - 1)
               l == hand[n]
    <2>1. /\ hand' = <<>> /\ u3' = u3 + (n - 1) /\ in' = in
          /\ pushed' = [pushed EXCEPT ![stream] = <<l>> \o p]
      BY <1>6 DEF line_char, EndLine, Last
    <2>2. n \in Nat /\ n >= 2
      BY <1>0, <1>6 DEF line_char, Hands
    <2>3. pushed'[stream] = <<l>> \o p /\ \A t \in Streams \ {stream} : pushed'[t] = pushed[t]
      BY <1>0, <2>1 DEF Types, InputTypes
    <2>4. /\ Rest(stream) = (hand \o p) \o i /\ Rest(stream)' = (<<>> \o (<<l>> \o p)) \o i
          /\ \A s \in Streams \ {stream} : Rest(s)' = Rest(s)
      BY <1>0, <2>1, <2>3 DEF Rest
    <2>5. p \in Seq(Char) /\ i \in Seq(Char)
      BY <1>0
    <2> HIDE DEF p, i
    <2>6. /\ d \in Seq(Char) /\ Len(d) = n - 1 /\ l \in Char
          /\ \A k \in 1 .. n - 1 : d[k] = hand[k]
      BY <1>0, <2>2
    <2>7. hand = d \o <<l>> /\ <<l>> \in Seq(Char)
      <3>1. 1 \in 1 .. Len(hand) /\ n \in 1 .. Len(hand)
        BY <2>2
      <3>2. SubSeq(hand, 1, n) = d \o <<l>>
        BY <1>0, <3>1, SubSeqRecursiveSecond
      <3>3. SubSeq(hand, 1, n) = hand
        BY <1>0, SubSeqFull
      <3>4. <<l>> \in Seq(Char)
        BY <2>6
      <3> QED
        BY <3>2, <3>3, <3>4, Zenon
    <2> HIDE DEF d, l, n
    <2>8. <<>> \o (<<l>> \o p) = <<l>> \o p /\ <<l>> \o p \in Seq(Char)
      BY <2>5, <2>7
    <2>9. ((d \o <<l>>) \o p) \o i = d \o ((<<l>> \o p) \o i)
      BY <2>5, <2>6, <2>7, SMTT(20)
    <2>10. Rest(stream) = d \o Rest(stream)'
      BY <2>4, <2>7, <2>8, <2>9
    <2>11. Counted(d)
      BY <1>0, <2>1, <2>6 DEF Counted
    <2> QED
      BY <1>0, <2>4, <2>6, <2>10, <2>11, RestTaken
  <1> QED
    BY <1>3, <1>4, <1>5, <1>6

LEMMA KeysStep ==
  ASSUME Types, Types', Hands, KeysConserved, [Next]_vars
  PROVE  KeysConserved'
  <1>1. CASE UNCHANGED vars
    BY <1>1, InputKept DEF vars
  <1> QED
    BY <1>1, KeysSignal, KeysPrep, KeysKey, KeysLine DEF Next, Primitive, Step

-----------------------------------------------------------------------------
(* The theorems. *)

TerminalInv == Types /\ Hands /\ Modes /\ Mask /\ Known /\ KeysConserved

LEMMA KeysInit == Init => KeysConserved
  <1> SUFFICES ASSUME Init PROVE KeysConserved
    OBVIOUS
  <1>1. Typed \in Seq(Char) /\ file \in Seq(Char)
    BY TerminalAssumption DEF Init
  <1>2. Rest("stdin") = Typed /\ Rest("file") = file
    <2>1. /\ hand = <<>> /\ pushed["stdin"] = <<>> /\ pushed["file"] = <<>>
          /\ in["stdin"] = Typed /\ in["file"] = file
      BY DEF Init, Streams
    <2>2. <<>> \o <<>> = <<>> /\ <<>> \o Typed = Typed /\ <<>> \o file = file
      BY <1>1
    <2> QED
      BY <2>1, <2>2 DEF Rest
  <1>3. EndOf(Typed, Typed) /\ EndOf(file, file)
    BY <1>1 DEF EndOf
  <1>4. IsSuffix(Typed, Typed) /\ IsSuffix(file, file)
    BY <1>1, <1>3, SuffixIsEnd
  <1>5. /\ got["stdin"] = <<>> /\ got["file"] = <<>> /\ u3 = 0
        /\ dropped["stdin"] = 0 /\ dropped["file"] = 0
    BY DEF Init, Streams
  <1>6. /\ Len(<<>>) + Len(Typed) + 0 = Len(Typed) /\ Len(<<>>) + 0 + Len(file) + 0 = Len(file)
        /\ <<>> \o Typed = Typed
    BY <1>1
  <1> QED
    BY <1>2, <1>4, <1>5, <1>6 DEF KeysConserved

LEMMA TerminalInit == Init => TerminalInv
  <1> SUFFICES ASSUME Init PROVE TerminalInv
    OBVIOUS
  <1>1. Types /\ Hands /\ KeysConserved
    BY TypesInit, KeysInit
  <1>2. Modes /\ Mask
    BY DEF Init, Modes, Mask, Prepping, Deprepping
  <1>3. Known
    <2>1. /\ pc = "forth" /\ ungotten = <<>>
          /\ \A s \in Streams : pushed[s] = <<>>
      BY DEF Init
    <2>2. ~\E k : k \in DOMAIN <<>>
      OBVIOUS
    <2>3. Distinct(ungotten) /\ \A s \in Streams : ~Holds(ungotten, s)
      BY <2>1, <2>2 DEF Distinct, Holds
    <2>4. Len(<<>>) <= 1
      OBVIOUS
    <2> QED
      BY <2>1, <2>3, <2>4 DEF Known, Prepping, Lining
  <1> QED
    BY <1>1, <1>2, <1>3 DEF TerminalInv

LEMMA TerminalStep == TerminalInv /\ [Next]_vars => TerminalInv'
  BY TypesStep, ModesStep, MaskStep, KnownStep, KeysStep DEF TerminalInv

(* The conjunction is an invariant, whatever the signals: types, what is   *)
(* in hand, the modes, the mask, the lookahead and the characters.         *)
THEOREM TerminalInvariant == Spec => []TerminalInv
  BY TerminalInit, TerminalStep, PTL DEF Spec

(* No character of any input is lost, duplicated or reordered between the  *)
(* terminal or a file and what key and read-line deliver.                  *)
THEOREM NoKeyLost == Spec => []KeysConserved
  BY TerminalInvariant, PTL DEF TerminalInv

(* gf_ungottenc tells whether there is a character put back. *)
THEOREM LookaheadIsKnown == Spec => []LookaheadKnown
  <1>1. TerminalInv => LookaheadKnown
    <2> SUFFICES ASSUME TerminalInv, pc = "forth", "char" \notin hits, NEW s \in Streams
                 PROVE  gf_ungottenc(s) = (pushed[s] # <<>>) /\ Len(pushed[s]) <= 1
      BY DEF LookaheadKnown
    <2>1. gf_ungottenc(s) <=> Holds(ungotten, s)
      BY DEF gf_ungottenc, Holds
    <2>2. (Holds(ungotten, s) <=> pushed[s] # <<>>) /\ Len(pushed[s]) <= 1
      BY DEF TerminalInv, Known, Between
    <2> QED
      BY <2>1, <2>2 DEF gf_ungottenc
  <1> QED
    BY <1>1, TerminalInvariant, PTL

(* However Gforth ends, the terminal is as it was found, unless a signal   *)
(* came while its modes were being changed, or the shell restores the raw  *)
(* modes of a job it continues.                                            *)
THEOREM TerminalIsRestored == Spec => [](~ShellRestores => TerminalRestored)
  <1>1. TerminalInv => (~ShellRestores => TerminalRestored)
    BY DEF TerminalInv, Modes, TerminalRestored
  <1> QED
    BY <1>1, TerminalInvariant, PTL

(* In Forth SIGINT is not blocked, and a prepared terminal is raw. *)
THEOREM InterruptsAreOpen == Spec => []InterruptsOpen
  <1>1. TerminalInv => InterruptsOpen
    BY DEF TerminalInv, Mask, InterruptsOpen, Prepping, Deprepping
  <1> QED
    BY <1>1, TerminalInvariant, PTL

=============================================================================
