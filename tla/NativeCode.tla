---------------------------- MODULE NativeCode ----------------------------
(***************************************************************************)
(* Dynamic native code generation (engine/main.c).  A definition of the    *)
(* Forth system is threaded code: cells with primitives, each followed by  *)
(* its immediate arguments.  When the definition is complete the engine    *)
(* compiles it basic block by basic block (gforth_compile_range,           *)
(* compile_prim1): it selects instructions (module Selection) and copies   *)
(* the machine code of the relocatable ones into code areas, leaves out    *)
(* most dispatches and ip updates, and stores the address of the copy into *)
(* the cell.  What was copied for a cell is remembered in dynamicinfos,    *)
(* for the decompiler.                                                     *)
(*                                                                         *)
(* Machine code is a sequence of fragments: an ip update by n cells, the   *)
(* body of a primitive (whole: with its own ip update in front), the       *)
(* dispatch at the end of a primitive (go), and padding.                   *)
(***************************************************************************)
EXTENDS Selection

CONSTANTS
  N_branch,        \* the number of branch
  ip_dead,         \* the primitives that do not need ip
  AreaSize,        \* code_area_size
  MaxAreas,        \* areas that gforth_alloc can deliver
  GotoLen,         \* goto_len: length of the indirect jump
  CODE_ALIGNMENT, MAX_PADDING,
  MAX_BB,          \* maximum number of instructions in a basic block
  Options,         \* the combinations of options to consider
  Definitions(_, _), \* the definitions to consider, with these options and
                   \*   at this address: sequences of instructions
  HeaderSize,      \* cells between two definitions
  MaxHere,         \* bound on the threaded code
  MaxMarks         \* bound on the markers

ASSUME CodeAssumption ==
  /\ N_branch \in PrimNums /\ ip_dead \subseteq PrimNums
  /\ {AreaSize, MaxAreas, GotoLen, CODE_ALIGNMENT, MAX_BB} \subseteq Nat \ {0}
  /\ {MAX_PADDING, HeaderSize, MaxHere, MaxMarks} \subseteq Nat

(* An instruction of a definition has the number of a simple primitive (0: *)
(* a code word) and, for a branch, the index of the instruction it goes to.*)
(* A cell holds an xt, that is, a primitive, until the engine compiles it. *)

VARIABLES
  opt,       \* the options in use
  super,     \* the super table
  tpa,       \* the automaton
  gen,       \* the code generator: areas, cur (the number of code_area),
             \*   last_jump, ip_at, inst_index, ginstps, infos
             \*   (dynamicinfos), cells (the threaded code), and lost:
             \*   gforth_alloc has failed, code_area is NULL
  here,      \* the end of the dictionary
  program,   \* program[s]: the instruction that was compiled into cell s
  marks,     \* the markers: their cells
  marked,    \* number of markers so far, also forgotten ones
  kept,      \* auxiliary: a marker was executed and its code was kept
  selected   \* auxiliary: the blocks of the last definition, and what was
             \*   selected for them

vars == <<opt, super, tpa, gen, here, program, marks, marked, kept, selected>>

Xt(p) == [kind |-> "xt", prim |-> p]
Argument(t) == [kind |-> "arg", target |-> t]
Static(p) == [kind |-> "static", prim |-> p]      \* vm_prims[p]
CodeWord  == [kind |-> "code"]                    \* not a primitive
Native(a, k) == [kind |-> "native", area |-> a, frag |-> k]

IpUpdate(n, size) == [k |-> "ip", n |-> n, size |-> size]
Body(p, whole, size) == [k |-> "body", p |-> p, whole |-> whole, size |-> size]
Go(p, size) == [k |-> "go", p |-> p, size |-> size]
Padding(size) == [k |-> "pad", size |-> size]

CodeSize(code) ==
  LET size[i \in 0 .. Len(code)] == IF i = 0 THEN 0 ELSE size[i - 1] + code[i].size
  IN  size[Len(code)]
Area(g) == g.areas[g.cur]
CodeHere(g) == Native(g.cur, Len(Area(g)) + 1)    \* code_here

-----------------------------------------------------------------------------
(* Appending code. *)

append_code(g, f) == [g EXCEPT !.areas[g.cur] = Append(@, f)]

align_code(g) ==
  LET length == CODE_ALIGNMENT - (CodeSize(Area(g)) % CODE_ALIGNMENT)
  IN  IF length <= MAX_PADDING THEN append_code(g, Padding(length)) ELSE g

(* The ip updates that bring a distance of d cells into 0..u.  If the      *)
(* largest update is 0 the loop of append_ip_update1 does not end: the     *)
(* update by 0 stands for that.                                            *)
IpUpdates(max, min, u, d) ==
  LET Piece(e) == IF e > max THEN max ELSE IF e < min THEN min ELSE e
      f[e \in Int] ==
        IF e \in 0 .. u THEN <<>>
        ELSE IF Piece(e) = 0 THEN <<0>>
        ELSE <<Piece(e)>> \o f[e - Piece(e)]
  IN  f[d]

append_ip_update1(o, T, g, target, u) ==
  LET Emit(h, n) ==
        append_code([h EXCEPT !.ip_at = @ + n],
                    IpUpdate(n, Prims[T.ip_update0 + n].len1))
      EmitAll(ns) ==
        LET done[i \in 0 .. Len(ns)] == IF i = 0 THEN g ELSE Emit(done[i - 1], ns[i])
        IN  done[Len(ns)]
  IN  EmitAll(IpUpdates(T.max_ip_update, T.min_ip_update, u, target - g.ip_at))

append_ip_update(o, T, g, u) ==
  IF o.optIp = 0 THEN g
  ELSE append_ip_update1(o, T, g, g.ginstps[g.inst_index + 1], u)

append_jump(o, T, g) ==
  IF g.last_jump = 0 THEN g
  ELSE LET g1 == append_ip_update(o, T, g, 0)
           g2 == append_code(g1, Go(g.last_jump, Prims[g.last_jump].rest + GotoLen))
       IN  [align_code(g2) EXCEPT !.last_jump = 0]

append_jump_previous(o, T, g) ==
  LET g1 == append_jump(o, T, [g EXCEPT !.inst_index = @ - 1])
  IN  [g1 EXCEPT !.inst_index = g.inst_index]

(* Continue in the next code area, a new one or one that was forgotten.  If *)
(* gforth_alloc fails, code_area is NULL, and the next code is copied there. *)
reserve_code_space(o, T, g, size) ==
  IF g.cur > 0 /\ CodeSize(Area(g)) + size <= AreaSize THEN g
  ELSE LET g1 == append_jump_previous(o, T, g)
           a  == g.cur + 1
       IN  [g1 EXCEPT !.cur = a, !.lost = @ \/ a > MaxAreas,
              !.areas = IF a <= Len(@) THEN [@ EXCEPT ![a] = <<>>]
                        ELSE Append(@, <<>>)]

(* Mutant of reserve_code_super: no room for the dispatch at the end and   *)
(* for those in front of primitives that are not relocatable.              *)
reserve_code_super_nojump(o, T, g, origs) ==
  LET Room(p) == IF is_relocatable(o, p) THEN Prims[p].len ELSE 0
      size == Fold(LAMBDA r, p : r + Room(p), 0, origs)
  IN  IF o.noDynamic THEN g ELSE reserve_code_space(o, T, g, size)

(* Room for a basic block, estimated from its simple primitives. *)
reserve_code_super(o, T, g, origs) ==
  LET n == Len(origs)
      Jump(i) == IF i = 0 THEN 0 ELSE Prims[origs[i]].rest + GotoLen
      Room(i) ==
        IF is_relocatable(o, origs[i]) THEN Prims[origs[i]].len
        ELSE IF i > 1 THEN Jump(i - 1) + CODE_ALIGNMENT - 1 ELSE 0
      size == Fold(LAMBDA r, i : r + Room(i), CODE_ALIGNMENT - 1,
                       [i \in 1 .. n |-> i]) + Jump(n)
  IN  IF o.noDynamic THEN g ELSE reserve_code_space(o, T, g, size)

-----------------------------------------------------------------------------
(* One instruction. *)

TargetOf(g, s) == g.cells[s + 1].target

(* Code for p with ip updates.  An unconditional branch within reach is    *)
(* nothing but ip updates.  A conditional one gets ip updates and goes to  *)
(* ip.  Otherwise p needs ip if it has immediate arguments or ends the     *)
(* block, and may be a variant that works with an ip that lags behind.     *)
AppendWithIpUpdate(o, T, g, p) ==
  LET c    == Prims[p]
      ii   == g.inst_index
      near(t, back, forth) ==
        /\ g.ip_at + back * T.min_ip_update <= t
        /\ t <= g.ip_at + forth * T.max_ip_update
      target == TargetOf(g, g.ginstps[ii + Length(p) - 1])
      ob   == o.optIpBranch
      b2ip == /\ ob > 0 /\ T.branches_to_ip[p] # 0
              /\ near(target, ob, ob \div 2)
      Use(q, h, imm) ==
        LET dead == o.optIp > 1 /\ SuperEnd(o, p) /\ ~imm /\ q \in ip_dead
        IN  [q |-> q, g |-> h, needsIp |-> imm \/ (SuperEnd(o, p) /\ ~dead), dead |-> dead]
      Finish(x, h) ==
        LET end == h.ginstps[h.inst_index + 1]
            v   == IF x.needsIp THEN x.q + (end - h.ip_at) ELSE x.q
        IN  append_code(IF x.dead \/ (x.needsIp /\ SuperEnd(o, p))
                        THEN [h EXCEPT !.ip_at = end] ELSE h,
                        Body(v, FALSE, Prims[v].len - Prims[v].len1))
      UpdateIp(x) ==
        Finish(x, IF ~x.needsIp THEN x.g
                  ELSE append_ip_update(o, T,
                         [x.g EXCEPT !.inst_index = @ + Length(x.q) - 1],
                         MaxIpOffset(o, x.q)))
  IN  IF /\ ob > 0 /\ c.seq = <<N_branch>>
         /\ near(TargetOf(g, g.ginstps[ii]), ob, ob)
      THEN [append_ip_update1(o, T, g, TargetOf(g, g.ginstps[ii]), 0)
              EXCEPT !.ip_at = g.ginstps[ii + 1]]
      ELSE UpdateIp(IF b2ip
                    THEN Use(T.branches_to_ip[p],
                             append_ip_update1(o, T, g, target, 0), FALSE)
                    ELSE Use(p, g, c.imm + 1 > Length(p)))

AppendBody(o, T, g, p) ==
  [g |-> IF o.optIp > 0 THEN AppendWithIpUpdate(o, T, g, p)
         ELSE [append_code(g, Body(p, TRUE, Prims[p].len))
                 EXCEPT !.ip_at = g.ginstps[g.inst_index + Length(p)]],
   tc |-> CodeHere(g)]

append_prim(o, T, g, p) ==
  LET c == Prims[p]
  IN  AppendBody(o, T,
        reserve_code_space(o, T, g, c.len + c.rest + GotoLen + CODE_ALIGNMENT - 1), p)

(* Behind p there is a dispatch at once only if control never falls        *)
(* through, or superinstructions are not wanted.                           *)
Appended(o, T, r, p) ==
  [r EXCEPT !.g = IF SuperEnd(o, p) THEN append_jump(o, T, [@ EXCEPT !.last_jump = p])
                  ELSE [@ EXCEPT !.last_jump = p]]

(* Mutant of compile_prim_dyn: no dispatch from native code to a primitive *)
(* that is not relocatable.                                                *)
compile_prim_dyn_nojump(o, T, g, p) ==
  IF o.noDynamic THEN [g |-> g, tc |-> Static(p)]
  ELSE IF ~is_relocatable(o, p)
  THEN [g |-> [g EXCEPT !.ip_at = g.ginstps[g.inst_index + 1]], tc |-> Static(p)]
  ELSE Appended(o, T, append_prim(o, T, g, p), p)

(* Code for p, and what to store into its cell. *)
compile_prim_dyn(o, T, g, p) ==
  IF o.noDynamic THEN [g |-> g, tc |-> Static(p)]
  ELSE IF ~is_relocatable(o, p)
  THEN [g |-> [append_jump_previous(o, T, g)
                 EXCEPT !.ip_at = g.ginstps[g.inst_index + 1]],
        tc |-> Static(p)]
  ELSE Appended(o, T, append_prim(o, T, g, p), p)
-----------------------------------------------------------------------------
(* The second loop of optimize_rewrite. *)

(* Remember what was compiled for cell s.  The code in front of it, for    *)
(* the instruction before, ends where this one starts.                     *)
AddDynamicInfo(g, s, p, tc, start, end) ==
  LET n == Len(g.infos)
      infos == IF n > 0 /\ tc.kind = "native" /\ tc.area = g.cur
               THEN [g.infos EXCEPT ![n].end = tc, ![n].end_state = start]
               ELSE g.infos
  IN  [g EXCEPT !.infos = Append(infos,
         [tcp |-> s, prim |-> p, start_state |-> start, end_state |-> end,
          end |-> CodeHere(g)])]

(* The instruction p behind a transition, t, or nothing. *)
Behind(o, T, t, p) == [trans |-> t, inst |-> compile_prim_dyn(o, T, t.g, p)]

(* Instruction i.  r has the generator g, the next instruction to compile  *)
(* (nextdyn), the stack state in front of it, whether there is no          *)
(* transition in front of it, and the primitives used so far.              *)
RewriteStep(o, T, ts, r, i) ==
  LET g0 == [r.g EXCEPT !.inst_index = i]
      s  == g0.ginstps[i]
      pt == ts[i].trans[r.nextstate].inst
      st == IF r.no_transition THEN r.nextstate ELSE Prims[pt].out
      p  == ts[i].inst[st].inst
      skip == r.no_transition \/ ~is_relocatable(o, p)
      inner == Prims[ts[i].inst[CANONICAL_STATE].inst].seq[1]
      Stored(g, tc) ==
        [r EXCEPT !.g = [IF is_relocatable(o, p)
                         THEN AddDynamicInfo(g, s, p, tc, IF skip THEN st ELSE r.nextstate,
                                             Prims[p].out)
                         ELSE [g EXCEPT !.ip_at = g.ginstps[i + Length(p)]]
                         EXCEPT !.cells[s] = tc],
                  !.nextdyn = i + Length(p),
                  !.nextstate = Prims[p].out,
                  !.no_transition = ts[i].inst[st].no_transition,
                  !.used = @ \o (IF r.no_transition THEN <<>> ELSE <<pt>>) \o <<p>>]
      Both(x) == Stored(x.inst.g, IF skip THEN x.inst.tc ELSE x.trans.tc)
  IN  IF i # r.nextdyn
      THEN [r EXCEPT !.g = [g0 EXCEPT !.cells[s] = Static(inner)]]
      ELSE Both(Behind(o, T, IF r.no_transition THEN [g |-> g0, tc |-> CodeWord]
                             ELSE compile_prim_dyn(o, T, g0, pt), p))

(* The end of the block: bring ip up to date, and the stack state back to  *)
(* the canonical one.                                                      *)
RewriteEnd(o, T, ts, r) ==
  LET pt == ts[Len(r.g.ginstps)].trans[r.nextstate].inst
      g1 == IF o.noDynamic THEN r.g ELSE append_ip_update(o, T, r.g, 0)
      Closed(g) == [g EXCEPT !.infos[Len(g.infos)] =
                      [@ EXCEPT !.end = CodeHere(g), !.end_state = Prims[pt].out]]
  IN  IF r.no_transition THEN [r EXCEPT !.g = g1]
      ELSE [r EXCEPT !.g = Closed(compile_prim_dyn(o, T, g1, pt).g),
                     !.used = Append(@, pt)]

(* optimize_rewrite: the cells slots hold the primitives origs.  w has the *)
(* automaton, the generator, and the blocks done.                          *)
RewriteBlock(o, T, g, slots, origs, ts) ==
  LET n   == Len(slots)
      w0  == ts[1].trans[CANONICAL_STATE]
      Reserved(g1) ==
        [g |-> [g1 EXCEPT !.ip_at = slots[1]], nextdyn |-> 1,
         nextstate |-> CANONICAL_STATE,
         no_transition |-> ~w0.relocatable \/ w0.no_transition,
         used |-> <<>>, area |-> g1.cur]
      start == [g EXCEPT !.ginstps = Append(slots, slots[n] + Prims[origs[n]].imm + 1),
                         !.inst_index = 1]
      done[i \in 0 .. n] ==
        IF i = 0 THEN Reserved(reserve_code_super(o, T, start, origs))
        ELSE RewriteStep(o, T, ts, done[i - 1], i)
  IN  RewriteEnd(o, T, ts, done[n])

RewriteLabelled(o, T, w, slots, origs, lab) ==
  LET Done(e) ==
        [w EXCEPT !.tpa = lab.tpa, !.gen = e.g,
                  !.done = Append(@, [origs |-> origs, used |-> e.used,
                                      area |-> e.area, endarea |-> e.g.cur])]
  IN  Done(RewriteBlock(o, T, w.gen, slots, origs,
                        [i \in DOMAIN lab.ids |-> lab.tpa.labels[lab.ids[i]]]))

optimize_rewrite(o, T, w, slots, origs) ==
  IF slots = <<>> THEN w
  ELSE RewriteLabelled(o, T, w, slots, origs, LabelBlock(o, T, w.tpa, origs))

-----------------------------------------------------------------------------
(* compile_prim1 collects the instructions of a basic block: w.slots and   *)
(* w.origs are its instps and origs.                                       *)

FlushBlock(o, T, w) ==
  [optimize_rewrite(o, T, w, w.slots, w.origs) EXCEPT !.slots = <<>>, !.origs = <<>>]

(* compile_prim1(NULL).  Before the first area is allocated, code_here is  *)
(* code_area_size, which is aligned.                                       *)
EndBlock(o, T, w) ==
  LET Align(x) == IF x.gen.cur = 0 THEN x ELSE [x EXCEPT !.gen = align_code(@)]
  IN  Align(FlushBlock(o, T, w))

compile_prim1(o, T, w, s) ==
  LET p    == w.gen.cells[s].prim
      full == \/ Len(w.slots) >= MAX_BB
              \/ w.slots # <<>> /\ Prims[Last(w.origs)].superend
      Code(x) == [x EXCEPT !.gen = [append_jump(o, T, @) EXCEPT !.cells[s] = CodeWord]]
      Add(x)  == [x EXCEPT !.slots = Append(@, s), !.origs = Append(@, p)]
  IN  IF p = 0 THEN Code(FlushBlock(o, T, w))
      ELSE Add(IF full THEN FlushBlock(o, T, w) ELSE w)

(* gforth_compile_range over the cells slots, some of them branch targets. *)
gforth_compile_range(o, T, w, slots, targets) ==
  LET done[i \in 0 .. Len(slots)] ==
        IF i = 0 THEN w
        ELSE compile_prim1(o, T, IF slots[i] \in targets THEN EndBlock(o, T, done[i - 1])
                                 ELSE done[i - 1], slots[i])
  IN  EndBlock(o, T, done[Len(slots)])

-----------------------------------------------------------------------------
(* dynamic_info3: the first info for cell s, by position, or 0. *)
dynamic_info3(g, s) ==
  LET I == {i \in DOMAIN g.infos : g.infos[i].tcp = s}
  IN  IF I = {} THEN 0 ELSE CHOOSE i \in I : \A j \in I : i <= j

(* fetch_decompile_prim: the simple primitive in cell s. *)
fetch_decompile_prim(g, s) ==
  LET i == dynamic_info3(g, s)
      x == g.cells[s]
  IN  IF i # 0 THEN Prims[g.infos[i].prim].seq[1]
      ELSE IF x.kind = "static" THEN Prims[x.prim].seq[1]
      ELSE 0

(* Mutant of forget_dyncode3: the infos are kept. *)
forget_dyncode3_infos(g, s) ==
  LET tc == g.cells[s]
  IN  IF tc.kind # "native" THEN g
      ELSE [g EXCEPT !.cur = tc.area, !.last_jump = 0,
              !.areas[tc.area] = SubSeq(@, 1, tc.frag - 1)]

(* forget_dyncode3: drop the infos and the code from cell s on. *)
forget_dyncode3(g, s) ==
  LET i  == dynamic_info3(g, s)
      tc == g.cells[s]
      g1 == IF i = 0 THEN g ELSE [g EXCEPT !.infos = SubSeq(@, 1, i - 1)]
  IN  IF tc.kind # "native" THEN g1
      ELSE [g1 EXCEPT !.cur = tc.area, !.last_jump = 0,
              !.areas[tc.area] = SubSeq(@, 1, tc.frag - 1)]

-----------------------------------------------------------------------------
Init ==
  /\ opt \in Options
  /\ super = SuperTable(opt)
  /\ tpa = InitTpa(EffectiveOptions(opt, super), super)
  /\ gen = [areas |-> <<>>, cur |-> 0, last_jump |-> 0, ip_at |-> 0,
            inst_index |-> 0, ginstps |-> <<>>, infos |-> <<>>, cells |-> <<>>,
            lost |-> FALSE]
  /\ here = 1 /\ program = <<>> /\ marks = {} /\ marked = 0
  /\ kept = FALSE /\ selected = <<>>

(* The assertion at the end of optimize_rewrite, for a basic block. *)
FitsArea(b) == b.area = b.endarea

(* What is behind the end of an area is not for code to be copied to. *)
Overrun(code) == CodeSize(code) > AreaSize

(* append_ip_update1 has a distance left that its updates do not change. *)
Endless(code) == \E i \in DOMAIN code : code[i].k = "ip" /\ code[i].n = 0

(* The process ends when a block runs out of its area, by that assertion.  *)
(* It is not followed any further, either, when an area cannot be          *)
(* allocated, as code is copied to NULL then, when an area overruns, or    *)
(* when ip updates are appended for ever.                                  *)
Ended ==
  \/ gen.lost
  \/ \E code \in Range(gen.areas) : Endless(code)
  \/ \E b \in Range(selected) : ~FitsArea(b)
  \/ \E code \in Range(gen.areas) : Overrun(code)

(* The cells of the instructions of definition d at address a, and its end. *)
CellCount(x) == 1 + (IF x.p = 0 THEN 0 ELSE Prims[x.p].imm)
SlotsOf(d, a) ==
  [i \in 1 .. Len(d) + 1 |->
     Fold(LAMBDA n, x : n + CellCount(x), a, SubSeq(d, 1, i - 1))]

(* The Forth system lays down definition d at here, and flush-code has the *)
(* engine compile it.                                                      *)
Compile(d) ==
  LET slots == SlotsOf(d, here)
      end   == slots[Len(d) + 1]
      code  == [i \in 1 .. Len(d) |-> slots[i]]
      instr(s) == CHOOSE i \in DOMAIN d : slots[i] = s
      cells == [s \in 1 .. end - 1 |->
                  IF s < here THEN IF s \in DOMAIN gen.cells THEN gen.cells[s]
                                   ELSE Argument(0)
                  ELSE IF s \in Range(code) THEN Xt(d[instr(s)].p)
                  ELSE IF s - 1 \in Range(code) /\ d[instr(s - 1)].to # 0
                       THEN Argument(slots[d[instr(s - 1)].to])
                  ELSE Argument(0)]
      targets == {slots[d[i].to] : i \in {j \in DOMAIN d : d[j].to # 0}}
      start == [tpa |-> tpa, gen |-> [gen EXCEPT !.cells = cells],
                done |-> <<>>, slots |-> <<>>, origs |-> <<>>]
  IN  /\ end + HeaderSize <= MaxHere
      /\ \E w \in {gforth_compile_range(EffectiveOptions(opt, super), super,
                                        start, code, targets)} :
           tpa' = w.tpa /\ gen' = w.gen /\ selected' = w.done
      /\ here' = end + HeaderSize
      /\ program' = [s \in {x \in DOMAIN program : x < here} |-> program[s]]
                      @@ [s \in Range(code) |->
                            [p |-> d[instr(s)].p, first |-> s = here,
                             target |-> IF d[instr(s)].to = 0 THEN 0
                                        ELSE slots[d[instr(s)].to]]]

Define ==
  /\ ~Ended
  /\ \E d \in Definitions(opt, here) : Compile(d)
  /\ UNCHANGED <<opt, super, marks, marked, kept>>

(* marker, : a noop, compiled, to remember where the code was. *)
Marker ==
  /\ ~Ended /\ marked < MaxMarks
  /\ Compile(<<[p |-> N_noop, to |-> 0]>>)
  /\ marks' = marks \cup {here} /\ marked' = marked + 1
  /\ UNCHANGED <<opt, super, kept>>

(* What is in the dictionary behind the marker is forgotten. *)
Cut(m) ==
  /\ ~Ended
  /\ here' = m
  /\ program' = [s \in {x \in DOMAIN program : x < m} |-> program[s]]
  /\ marks' = {x \in marks : x < m}
  /\ selected' = <<>>
  /\ UNCHANGED <<opt, super, tpa, marked>>

(* marker! : the native code stays, as its call of forget-dyncode3 is      *)
(* compiled only [IFDEF] forget-dyncode, the name this primitive had once. *)
Forget(m) == kept' = TRUE /\ Cut(m) /\ UNCHANGED gen

(* The primitive forget-dyncode3, called for the noop of a marker, and the *)
(* marker: what marker! does where forget-dyncode is defined.              *)
ForgetCode(m) == gen' = forget_dyncode3(gen, m) /\ Cut(m) /\ UNCHANGED kept

Next == Define \/ Marker \/ \E m \in marks : Forget(m) \/ ForgetCode(m)

Spec == Init /\ [][Next]_vars

=============================================================================
