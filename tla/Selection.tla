----------------------------- MODULE Selection -----------------------------
(***************************************************************************)
(* Instruction selection of the engine (engine/main.c): the table of       *)
(* static superinstructions and stack caching variants, the costs, and the *)
(* labelling of a basic block, back to front, with the cheapest way to its *)
(* end for every stack state.  A label is remembered in an automaton       *)
(* (tpa), so that a suffix that was seen before need not be labelled again.*)
(*                                                                         *)
(* The engine's tables priminfos, super_costs and super2 are the constant  *)
(* Prims: the record of a primitive number has                             *)
(*   seq       the simple primitives it stands for (super2)                *)
(*   in, out   the stack states around it                                  *)
(*   ipoff     how far ip lags behind the end of the instruction           *)
(*   imm       immediate arguments and number of components - 1            *)
(*   b2ip      a conditional branch to ip                                  *)
(*   reloc     its code can be copied (start # NULL)                       *)
(*   len1, len, rest  length of the ip update, of the code with the ip     *)
(*             update, and of the dispatch (rest) behind it                *)
(*   superend  control never falls through it                              *)
(*   ls, upd   stack loads and stores, and stack pointer updates           *)
(* Number 0 is no primitive.                                               *)
(***************************************************************************)
EXTENDS Integers, Sequences, FiniteSets, SequencesExt

CONSTANTS
  Prims,       \* the primitives, by number
  N_noop,      \* the number of noop
  TPA_SIZE     \* number of buckets of tpa_state_table

INF_COST == 1000000
CANONICAL_STATE == 0

PrimNums == DOMAIN Prims
Length(p) == Len(Prims[p].seq)

ASSUME PrimsAssumption ==
  /\ Prims \in Seq([seq : Seq(PrimNums), in : Nat, out : Nat, ipoff : Int,
                    imm : Nat, b2ip : BOOLEAN, reloc : BOOLEAN, len1 : Nat,
                    len : Nat, rest : Nat, superend : BOOLEAN, ls : Nat,
                    upd : Nat])
  /\ N_noop \in PrimNums
  /\ \A p \in PrimNums : Length(p) > 0
  /\ TPA_SIZE \in Nat \ {0}

(* FoldLeft of SequencesExt, as a recursive function over the indices. *)
Fold(op(_, _), base, seq) ==
  LET f[i \in 0 .. Len(seq)] == IF i = 0 THEN base ELSE op(f[i - 1], seq[i])
  IN  f[Len(seq)]

-----------------------------------------------------------------------------
(* The command-line options that matter here are a record o: noDynamic,    *)
(* noSuper, optIp and optIpBranch (--opt-ip-updates), noEquiv and          *)
(* noAutomaton (--tpa-...), ssNumber (--ss-number), maxStates              *)
(* (--ss-states) and metric (--ss-min-...).                                *)

is_relocatable(o, p) == ~o.noDynamic /\ Prims[p].reloc

(* priminfos[p].superend: with --no-super every primitive ends with its    *)
(* dispatch, the state transitions, too.                                   *)
SuperEnd(o, p) == Prims[p].superend \/ o.noSuper

(* priminfos[p].max_ip_offset, as check_prims counts the variants behind p *)
(* that are all relocatable.                                               *)
MaxIpOffset(o, p) ==
  IF o.noDynamic \/ o.optIp <= 2 \/ Prims[p].ipoff # 0 THEN 0
  ELSE CHOOSE n \in 0 .. Len(Prims) - p :
         /\ \A k \in 1 .. n : Prims[p + k].ipoff = k /\ Prims[p + k].reloc
         /\ \/ p + n = Len(Prims)
            \/ Prims[p + n + 1].ipoff # n + 1
            \/ ~Prims[p + n + 1].reloc

(* priminfos[p].min_ip_offset: the variants in front of p. *)
MinIpOffset(o, p) ==
  IF o.noDynamic \/ Prims[p].ipoff # 0 THEN 0
  ELSE - (CHOOSE n \in 0 .. p - 1 :
            /\ \A k \in 1 .. n : Prims[p - k].ipoff = -k /\ Prims[p - k].reloc
            /\ \/ n = p - 1
               \/ Prims[p - n - 1].ipoff # -(n + 1)
               \/ ~Prims[p - n - 1].reloc)

cost_codesize(o, p) == Prims[p].len - (IF o.optIp > 0 THEN Prims[p].len1 ELSE 0)
cost_ls(p)  == Prims[p].ls
cost_lsu(p) == Prims[p].ls + Prims[p].upd

(* init_ss_cost: without dynamic code there is no code size to minimize. *)
ss_cost(o, p) ==
  CASE o.metric = "codesize" -> IF o.noDynamic THEN 1 ELSE cost_codesize(o, p)
    [] o.metric = "ls"       -> cost_ls(p)
    [] o.metric = "lsu"      -> cost_lsu(p)
    [] o.metric = "nexts"    -> 1

-----------------------------------------------------------------------------
(* The super table: for every sequence of simple primitives the list of    *)
(* its implementations, newest first; the state transitions; the ip        *)
(* updates; and the branch-to-ip variants of conditional branches.         *)

lookup_super(tab, seq) == IF seq \in DOMAIN tab THEN tab[seq] ELSE <<>>

(* The first implementation of seq with these states, or 0. *)
lookup_ss(tab, seq, in, out) ==
  LET l == SelectSeq(lookup_super(tab, seq),
                     LAMBDA s : Prims[s].in = in /\ Prims[s].out = out)
  IN  IF l = <<>> THEN 0 ELSE Head(l)

EmptyTable ==
  [tab |-> <<>>, transitions |-> <<>>,
   ip_update0 |-> 0, min_ip_update |-> 0, max_ip_update |-> 0,
   branches_to_ip |-> [p \in PrimNums |-> 0], nsupers |-> 0, max_super |-> 2]

(* One turn of the loop in prepare_super_table. *)
AddPrim(o, T, i) ==
  LET c    == Prims[i]
      old  == lookup_super(T.tab, c.seq)
      canonical == c.in = CANONICAL_STATE /\ c.out = CANONICAL_STATE
      used == /\ Length(i) < 2 \/ T.nsupers < o.ssNumber
              /\ c.in < o.maxStates /\ c.out < o.maxStates
              /\ c.ipoff = 0
      header == canonical /\ MaxIpOffset(o, i) > 0 /\ old # <<>>
      T1 ==
        CASE c.seq = <<N_noop>> /\ i # N_noop /\ ~is_relocatable(o, i) -> T
          [] c.seq = <<N_noop>> /\ i # N_noop /\ is_relocatable(o, i) ->
               IF canonical
               THEN [T EXCEPT !.ip_update0 = i, !.min_ip_update = MinIpOffset(o, i),
                              !.max_ip_update = MaxIpOffset(o, i)]
               ELSE [T EXCEPT !.transitions = <<i>> \o @]
          [] header /\ ~(c.seq = <<N_noop>> /\ i # N_noop) ->
               [T EXCEPT !.tab[c.seq] =
                  [k \in DOMAIN @ |-> IF @[k] = c.seq[1] THEN i ELSE @[k]]]
          [] ~header /\ ~(c.seq = <<N_noop>> /\ i # N_noop) ->
               [T EXCEPT !.tab = [s \in DOMAIN @ \cup {c.seq} |->
                                    IF s = c.seq THEN <<i>> \o old ELSE @[s]]]
  IN  IF c.b2ip
      THEN LET ss == lookup_ss(T.tab, c.seq, c.in, c.out)
           IN  IF ss = 0 THEN T ELSE [T EXCEPT !.branches_to_ip[ss] = i]
      ELSE IF ~used THEN T
      ELSE [T1 EXCEPT
              !.max_super = IF Length(i) > @ THEN Length(i) ELSE @,
              !.nsupers = @ + (IF Length(i) >= 2 THEN 1 ELSE 0)]

(* prepare_super_table, and the options as it leaves them: the automaton   *)
(* with equivalent states is switched off if there are superinstructions.  *)
SuperTable(o) ==
  Fold(LAMBDA T, i : AddPrim(o, T, i), EmptyTable,
           [i \in PrimNums |-> i])

EffectiveOptions(o, T) ==
  [o EXCEPT !.noAutomaton = @ \/ (T.nsupers > 0 /\ ~o.noEquiv)]

-----------------------------------------------------------------------------
(* Labels.  A waypoint has the cost from here to the end, the instruction  *)
(* to use, whether the last non-transition was relocatable, and whether    *)
(* there is no transition to use.  A label (tpa_state) has a waypoint for  *)
(* every stack state, in front of the instruction (inst) and in front of   *)
(* instruction and transition (trans).                                     *)

States(o) == 0 .. o.maxStates - 1

NoWaypoint ==
  [cost |-> INF_COST, inst |-> 0, relocatable |-> FALSE, no_transition |-> FALSE]

(* Mutant of Improve: the first way that is found stays. *)
ImproveNever(w, cand) == IF w.cost = INF_COST THEN cand ELSE w

(* A candidate replaces a waypoint that is not cheaper. *)
Improve(w, cand) == IF cand.cost <= w.cost THEN cand ELSE w

(* transitions(): what to do in front of the instructions ws. *)
transitions(o, T, ws) ==
  LET start == [k \in States(o) |-> [ws[k] EXCEPT !.no_transition = TRUE]]
      Try(trans, s) ==
        LET wo == ws[Prims[s].out]
        IN  IF wo.cost = INF_COST THEN trans
            ELSE [trans EXCEPT ![Prims[s].in] =
                    Improve(@, [cost |-> wo.cost + ss_cost(o, s), inst |-> s,
                                relocatable |-> wo.relocatable,
                                no_transition |-> FALSE])]
  IN  [inst |-> ws, trans |-> Fold(Try, start, T.transitions)]

make_termstate(o, T) ==
  transitions(o, T, [k \in States(o) |->
    IF k = CANONICAL_STATE THEN [NoWaypoint EXCEPT !.cost = 0] ELSE NoWaypoint])

(* Costs relative to the canonical state, so that equal labels can meet. *)
tpa_state_normalize(t) ==
  LET d == t.inst[CANONICAL_STATE].cost
      Norm(ws) == [k \in DOMAIN ws |->
        IF ws[k].cost = INF_COST THEN ws[k] ELSE [ws[k] EXCEPT !.cost = @ - d]]
  IN  [inst |-> Norm(t.inst), trans |-> Norm(t.trans)]

(* The label in front of instruction i of the block, computed from the     *)
(* labels ts behind it: all implementations of all sequences that start at *)
(* i compete.  A transition cannot stand between two instructions that are *)
(* not relocatable: there is no native code to put it in.                  *)
DynProg(o, T, origs, ts, i) ==
  LET n == Len(origs)
      m == IF T.max_super < n - i + 1 THEN T.max_super ELSE n - i + 1
      Try(j, ws, s) ==
        LET c  == Prims[s]
            tr == ts[i + j].trans[c.out]
            skip == ~is_relocatable(o, s) /\ ~tr.relocatable
            wo == IF skip THEN ts[i + j].inst[c.out] ELSE tr
        IN  IF wo.cost = INF_COST THEN ws
            ELSE [ws EXCEPT ![c.in] =
                    Improve(@, [cost |-> wo.cost + ss_cost(o, s), inst |-> s,
                                relocatable |-> is_relocatable(o, s),
                                no_transition |-> skip \/ tr.no_transition])]
      tried[j \in 0 .. m] ==
        IF j = 0 THEN [k \in States(o) |-> NoWaypoint]
        ELSE Fold(LAMBDA w, s : Try(j, w, s), tried[j - 1],
                  lookup_super(T.tab, SubSeq(origs, i, i + j - 1)))
  IN  transitions(o, T, tried[m])

-----------------------------------------------------------------------------
(* The automaton: labels are numbered as they are made (number 1 is the    *)
(* termstate), table is tpa_table, and buckets is tpa_state_table: as      *)
(* lookup_tpa_state links a new entry to the end of the search (NULL), a   *)
(* bucket holds one label, the newest.                                     *)

InitTpa(o, T) ==
  [labels |-> <<make_termstate(o, T)>>, table |-> <<>>, buckets |-> <<>>]

hash_tpa_state(o, t) ==
  LET Weight(w) == w.cost + w.inst
  IN  Fold(LAMBDA r, k : r + Weight(t.inst[k - 1]) + Weight(t.trans[k - 1]),
               0, [k \in 1 .. o.maxStates |-> k]) % TPA_SIZE

(* lookup_tpa_state: the number of a label equal to t, or of t itself as a *)
(* new label; the result has the tables after it, too.                     *)
lookup_tpa_state(o, tpa, t) ==
  LET h == hash_tpa_state(o, t)
      new == Len(tpa.labels) + 1
  IN  IF ~o.noEquiv /\ h \in DOMAIN tpa.buckets
         /\ tpa.labels[tpa.buckets[h]] = t
      THEN [tpa |-> tpa, id |-> tpa.buckets[h]]
      ELSE [tpa |-> [tpa EXCEPT
              !.labels = Append(@, t),
              !.buckets = IF o.noEquiv THEN @
                          ELSE [b \in DOMAIN @ \cup {h} |->
                                  IF b = h THEN new ELSE @[b]]],
            id |-> new]

(* The first loop of optimize_rewrite, from the back of the block to its   *)
(* front: r.ids[i] is the number of the label in front of instruction i.   *)
LabelBlock(o, T, tpa0, origs) ==
  LET n == Len(origs)
      Enter(r, i, key, l) ==
        [tpa |-> IF o.noAutomaton THEN l.tpa
                 ELSE [l.tpa EXCEPT !.table =
                         [k \in DOMAIN @ \cup {key} |-> IF k = key THEN l.id ELSE @[k]]],
         ids |-> [r.ids EXCEPT ![i] = l.id]]
      Compute(r, i) ==
        DynProg(o, T, origs, [k \in i + 1 .. n + 1 |-> r.tpa.labels[r.ids[k]]], i)
      Normalize(t) == IF o.noAutomaton THEN t ELSE tpa_state_normalize(t)
      Label(r, i, key) ==
        IF ~o.noAutomaton /\ key \in DOMAIN r.tpa.table
        THEN [r EXCEPT !.ids[i] = r.tpa.table[key]]
        ELSE Enter(r, i, key, lookup_tpa_state(o, r.tpa, Normalize(Compute(r, i))))
      LabelAt(r, i) == Label(r, i, <<origs[i], r.ids[i + 1]>>)
      done[k \in 0 .. n] ==
        IF k = 0 THEN [tpa |-> tpa0, ids |-> [i \in 1 .. n + 1 |-> 1]]
        ELSE LabelAt(done[k - 1], n + 1 - k)
  IN  done[n]

=============================================================================
