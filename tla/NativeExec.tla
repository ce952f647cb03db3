---------------------------- MODULE NativeExec ----------------------------
(***************************************************************************)
(* What the code that NativeCode generates does when it runs: dispatches,  *)
(* bodies of primitives and ip updates are followed through threaded code  *)
(* and native code, and compared with the definition that was compiled.    *)
(***************************************************************************)
EXTENDS NativeCode

EndOf(p, s) == s + Prims[p].imm + 1

(* The instructions of the program from cell s on are those p stands for. *)
Matches(p, s) ==
  LET Follow(x, q) ==
        IF x.ok /\ x.s \in DOMAIN program /\ program[x.s].p = q
        THEN [ok |-> TRUE, s |-> EndOf(q, x.s), last |-> x.s]
        ELSE [x EXCEPT !.ok = FALSE]
  IN  Fold(Follow, [ok |-> TRUE, s |-> s, last |-> s], Prims[p].seq)

IsCondBranch(s) == program[s].target # 0 /\ ~Prims[program[s].p].superend

(* At(s, st): a dispatch to cell s in stack state st executes the program  *)
(* from s on.  Run(a, k, ip, pc, st): so does the native code at fragment  *)
(* k of area a, with this ip, in front of the instruction in cell pc.      *)
RECURSIVE At(_, _), Run(_, _, _, _, _)

At(s, st) ==
  LET x == gen.cells[s]
      m == Matches(x.prim, s)
  IN  /\ s \in DOMAIN program
      /\ \/ x.kind = "code" /\ st = CANONICAL_STATE /\ At(s + 1, st)
         \/ x.kind = "native" /\ Run(x.area, x.frag, s, s, st)
         \/ /\ x.kind = "static" /\ m.ok /\ Prims[x.prim].in = st
            /\ IsCondBranch(m.last) => Prims[x.prim].out = CANONICAL_STATE
            /\ \/ Prims[x.prim].superend
               \/ At(EndOf(x.prim, s), Prims[x.prim].out)

Run(a, k, ip, pc, st) ==
  LET f == gen.areas[a][k]
      m == Matches(f.p, pc)
      c == Prims[f.p]
      end == EndOf(f.p, pc)
      transition == c.seq = <<N_noop>> /\ f.p # N_noop
      NeedsIp == c.imm + 1 > Len(c.seq) \/ (c.superend /\ f.p \notin ip_dead)
  IN  /\ k <= Len(gen.areas[a])
      /\ \/ f.k = "pad" /\ Run(a, k + 1, ip, pc, st)
         \/ f.k = "ip" /\ Run(a, k + 1, ip + f.n, pc, st)
         \/ /\ f.k = "body" /\ transition /\ c.in = st
            /\ Run(a, k + 1, ip, pc, c.out)
         \/ /\ f.k = "body" /\ ~transition /\ m.ok /\ c.in = st
            /\ IF f.whole THEN ip = pc
               ELSE IF c.b2ip THEN ip = program[m.last].target
               ELSE NeedsIp => ip + c.ipoff = end
            /\ IsCondBranch(m.last) => c.out = CANONICAL_STATE
            /\ IF c.superend THEN k < Len(gen.areas[a]) /\ gen.areas[a][k + 1].k = "go"
               ELSE Run(a, k + 1, IF f.whole THEN end ELSE ip, end, c.out)
         \/ /\ f.k = "go"
            /\ \/ /\ pc \in DOMAIN program /\ program[pc].p = N_branch
                  /\ ip = program[pc].target /\ st = CANONICAL_STATE
               \/ ip = pc /\ At(pc, st)

(* Where control can come from elsewhere: the start of a definition, a     *)
(* branch target, and the instruction behind one that ends a block.        *)
Entries ==
  {s \in DOMAIN program \ marks :
     \/ program[s].first
     \/ \E t \in DOMAIN program : program[t].target = s
     \/ \E t \in DOMAIN program : program[t].p # 0 /\ Prims[program[t].p].superend
                                  /\ EndOf(program[t].p, t) = s}

(* Generated code is faithful: wherever control enters a definition, what  *)
(* runs is the definition, instruction by instruction, every body finds    *)
(* the stack in the state it was made for, and the ip it needs; and behind *)
(* a primitive that ends a block comes its dispatch.  (A process that ended *)
(* while it compiled runs nothing.)  With --no-super this supposes that ip  *)
(* updates are not optimized and that there is one stack state: otherwise  *)
(* it does not hold (MCNativeNoSuper.cfg).                                 *)
CodeRuns == ~Ended => \A s \in Entries : At(s, CANONICAL_STATE)

(* The decompiler sees in every cell the primitive that was compiled       *)
(* there, whatever was compiled into the same cell before it was forgotten,*)
(* provided forget_dyncode3 was called then.                               *)
DecompileRight ==
  ~kept => \A s \in DOMAIN program :
     program[s].p # 0 => fetch_decompile_prim(gen, s) = program[s].p

(* The estimate of reserve_code_super is large enough: a basic block does  *)
(* not run out of the area it was begun in (the assertion at the end of    *)
(* optimize_rewrite), whatever is selected for it.                         *)
BlocksFit == \A b \in Range(selected) : FitsArea(b)

(* Generated code does not run over the end of its area.                   *)
CodeInside == \A code \in Range(gen.areas) : ~Overrun(code)

(* No branch of block b can be replaced by ip updates. *)
BranchesStay(b) ==
  \/ opt.optIpBranch = 0
  \/ \A p \in Range(b.origs) : p # N_branch /\ super.branches_to_ip[p] = 0

(* A basic block fits if selection minimizes code size, as it does by      *)
(* default ("This is only safe if we optimize for code size"), and         *)
(* dispatches are left out; and code stays inside its area whatever is     *)
(* selected.  Blocks with branches are excepted unless these are compiled  *)
(* as they are: what reserve_code_super reserves does not count the ip     *)
(* updates that replace them.                                              *)
AreasHold ==
  /\ opt.metric = "codesize" /\ ~opt.noSuper =>
       \A b \in Range(selected) : BranchesStay(b) => FitsArea(b)
  /\ (\A b \in Range(selected) : BranchesStay(b)) => CodeInside

(* The loop in append_ip_update1 ends, at every documented level of        *)
(* --opt-ip-updates.                                                       *)
IpUpdatesEnd == \A code \in Range(gen.areas) : ~Endless(code)

-----------------------------------------------------------------------------
(* The reference for instruction selection: the cheapest of all ways to    *)
(* cover the block from instruction i on, from state st, where prev tells  *)
(* that the instruction before is in native code.  A transition needs      *)
(* native code before or behind it.                                        *)
RECURSIVE Best(_, _, _, _)

Best(origs, i, st, prev) ==
  LET o == EffectiveOptions(opt, super)
      n == Len(origs)
      Here(from) ==
        {s \in PrimNums : \E j \in 1 .. n - i + 1 :
           /\ s \in Range(lookup_super(super.tab, SubSeq(origs, i, i + j - 1)))
           /\ Prims[s].in = from}
      Go1(s) == ss_cost(o, s) + Best(origs, i + Length(s), Prims[s].out,
                                     is_relocatable(o, s))
      Trans == {t \in Range(super.transitions) : Prims[t].in = st}
      costs ==
        IF i > n
        THEN {x \in {0} : st = CANONICAL_STATE}
             \cup {ss_cost(o, t) : t \in {u \in Trans : prev /\ Prims[u].out = CANONICAL_STATE}}
        ELSE {Go1(s) : s \in Here(st)}
             \cup UNION {{ss_cost(o, t) + Go1(s) : s \in
                            {x \in Here(Prims[t].out) : prev \/ is_relocatable(o, x)}}
                         : t \in Trans}
  IN  IF costs = {} THEN INF_COST ELSE CHOOSE x \in costs : \A y \in costs : x <= y

(* Selection is optimal: no cover of a basic block is cheaper than the one *)
(* the labels lead to, with the automaton or without (but for an automaton *)
(* with superinstructions, which only --tpa-noequiv asks for: its labels   *)
(* have costs relative to different ends).                                 *)
OptimalCover ==
  \A i \in DOMAIN selected :
     Fold(LAMBDA n, p : n + ss_cost(opt, p), 0, selected[i].used)
       = Best(selected[i].origs, 1, CANONICAL_STATE, FALSE)

=============================================================================
