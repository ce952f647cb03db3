----------------------------- MODULE MCNative -----------------------------
(***************************************************************************)
(* Instances of NativeCode for TLC.  The table has two stack states, lit,  *)
(* + and ?branch in variants for both, lit with lagging ip, ip updates     *)
(* from -2 to 2, static superinstructions, and branches to ip.  Lengths    *)
(* are in units of an ip update.                                           *)
(***************************************************************************)
EXTENDS NativeExec

(* prims *)
noop == 1
lit == 2
plus == 3
branch == 4
qbranch == 5
semis == 6
execute == 7
slow == 8

(* seq, in, out, ipoff, imm, len, rest, ls and upd of every primitive: in   *)
(* state 0 no stack item is in a register, in state 1 the top one is.  Loads *)
(* and stores, and updates of the stack pointer, are what such code needs.  *)
(* Transitions and branches to ip have no ip update of their own.           *)
(* Primitives with no dispatch behind them end a block.                     *)
Rows == <<
  <<<<1>>, 0, 0, 0, 0, 1, 1, 0, 0>>,
  <<<<2>>, 0, 0, 0, 1, 4, 1, 1, 1>>,
  <<<<3>>, 0, 0, 0, 0, 3, 1, 3, 1>>,
  <<<<4>>, 0, 0, 0, 1, 4, 0, 0, 0>>,
  <<<<5>>, 0, 0, 0, 1, 7, 1, 1, 1>>,
  <<<<6>>, 0, 0, 0, 0, 3, 0, 0, 0>>,
  <<<<7>>, 0, 0, 0, 0, 3, 0, 1, 1>>,
  <<<<8>>, 0, 0, 0, 0, 3, 1, 1, 0>>,
  <<<<3>>, 1, 0, 0, 0, 2, 1, 2, 0>>,           \* 9
  <<<<2>>, 0, 1, 0, 1, 2, 1, 0, 0>>,           \* 10
  <<<<2>>, 0, 1, 1, 1, 2, 1, 0, 0>>,
  <<<<2>>, 1, 1, 0, 1, 4, 1, 1, 1>>,           \* 12
  <<<<5>>, 1, 0, 0, 1, 6, 1, 0, 0>>,
  <<<<1>>, 0, 1, 0, 0, 2, 1, 1, 1>>,           \* 14
  <<<<1>>, 1, 0, 0, 0, 2, 1, 1, 1>>,
  <<<<1>>, 0, 0, -2, 0, 1, 1, 0, 0>>,          \* 16
  <<<<1>>, 0, 0, -1, 0, 1, 1, 0, 0>>,
  <<<<1>>, 0, 0, 0, 0, 0, 1, 0, 0>>,
  <<<<1>>, 0, 0, 1, 0, 1, 1, 0, 0>>,
  <<<<1>>, 0, 0, 2, 0, 1, 1, 0, 0>>,
  <<<<2>>, 0, 0, 0, 1, 4, 1, 1, 1>>,           \* 21
  <<<<2>>, 0, 0, 1, 1, 4, 1, 1, 1>>,
  <<<<2, 3>>, 0, 0, 0, 2, 4, 1, 2, 0>>,        \* 23
  <<<<3, 5>>, 0, 0, 0, 2, 7, 1, 2, 1>>,
  <<<<5>>, 0, 0, 0, 1, 5, 1, 1, 1>>,           \* 25: to ip
  <<<<3, 5>>, 0, 0, 0, 2, 5, 1, 2, 1>> >>      \* 26: to ip

Primitive(i, r) ==
  [seq |-> r[1], in |-> r[2], out |-> r[3], ipoff |-> r[4], imm |-> r[5],
   b2ip |-> i \in {25, 26}, reloc |-> i # slow,
   len1 |-> IF r[6] = 0 \/ i \in {14, 15, 25, 26} THEN 0 ELSE 1,
   len |-> r[6], rest |-> r[7],
   superend |-> r[7] = 0, ls |-> r[8], upd |-> r[9]]

Table == [i \in 1 .. 26 |-> Primitive(i, Rows[i])]

I(p) == [p |-> p, to |-> 0]
J(p, i) == [p |-> p, to |-> i]

Straight == {I(noop), I(lit), I(plus), I(slow), I(execute), I(0)}
Branches(targets) == {J(b, i) : b \in {branch, qbranch}, i \in targets}

(* All definitions of n instructions from S or branches, and a ;s. *)
Defs(n, S, targets) ==
  {Append(d, I(semis)) : d \in [1 .. n -> S \cup Branches(targets)]}

Short == Defs(1, Straight, 1 .. 2) \cup Defs(2, Straight \ {I(noop)}, 1 .. 3)
Few == Defs(1, Straight, 1 .. 2) \cup Defs(2, {I(lit), I(plus), I(slow)}, {1, 3})
Long == Defs(3, {I(lit), I(plus), I(slow)}, {1, 4})

Default ==
  [noDynamic |-> FALSE, noSuper |-> FALSE, optIp |-> 7, optIpBranch |-> 3,
   noEquiv |-> FALSE, noAutomaton |-> FALSE, ssNumber |-> 0, maxStates |-> 2, metric |-> "codesize"]

MCOptions ==
  {Default, [Default EXCEPT !.ssNumber = 9], [Default EXCEPT !.noEquiv = TRUE],
   [Default EXCEPT !.noDynamic = TRUE, !.ssNumber = 9],
   [Default EXCEPT !.noAutomaton = TRUE, !.metric = "lsu"],
   [Default EXCEPT !.optIpBranch = 0], [Default EXCEPT !.optIp = 2],
   [Default EXCEPT !.optIp = 0, !.optIpBranch = 0],
   [Default EXCEPT !.noSuper = TRUE, !.maxStates = 1, !.optIp = 0, !.optIpBranch = 0]}

(* Settings that a claim of the documentation does not hold for. *)
IpOptions == {[Default EXCEPT !.optIp = n] : n \in {1, 2}}
MetricOptions == {[Default EXCEPT !.metric = m] : m \in {"ls", "lsu"}}
NoEquivOptions == {[Default EXCEPT !.ssNumber = 9, !.noEquiv = TRUE]}
NoSuperOptions == {[Default EXCEPT !.noSuper = TRUE]}
DefaultOptions == {Default}

Followers == {<<I(lit), I(semis)>>, <<I(plus), I(slow), I(semis)>>}

(* The first definition is any of these sets; the later ones share the     *)
(* areas, the automaton and the infos with it.                             *)
MCDefinitions(o, a) ==
  IF a > 1 THEN {d \in Followers : o.optIp = 7 \/ Len(d) = 2}
  ELSE IF o.noEquiv \/ o.noAutomaton \/ o.noDynamic \/ o.optIpBranch = 0 \/ o.optIp < 7
       THEN Few ELSE Short \cup Long

(* Longer definitions whatever the options are. *)
MCLong(o, a) == IF a > 1 THEN Followers ELSE Long

(* Definitions that fill an area soon. *)
MCSums(o, a) == Defs(3, {I(lit), I(plus)}, {}) \cup Followers

=============================================================================
