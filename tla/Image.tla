------------------------------- MODULE Image -------------------------------
(***************************************************************************)
(* Relocatable images: comp-i.fs makes one by comparing two dumps of the   *)
(* same system that were loaded at different addresses, and the engine     *)
(* (engine/main.c) relocates it to wherever it is loaded.                  *)
(*                                                                         *)
(* What a cell of the system stands for (its content) is a number (data),  *)
(* a place in a section (addr), a primitive in threaded code (threaded),   *)
(* the execution token (xt) or code address (label) of a primitive, or the *)
(* code address of a defining word (doer).  A primitive is a group and a   *)
(* number in this group, as engines may have different groups.  Sections   *)
(* are numbered from 0.  Addresses count cells.                            *)
(***************************************************************************)
EXTENDS Integers, Sequences, FiniteSets, SequencesExt

CONSTANTS
  SectionSize,   \* 2^(CELL_BITS-SECTION_BITS): tokens per section
  DOER_MAX, RELINFOBITS

(* A tag has 9 bits for the number in a group; -1 is CF_NIL. *)
ASSUME ImageAssumption ==
  SectionSize \in Nat \ {0} /\ DOER_MAX \in 0 .. 509 /\ RELINFOBITS \in Nat \ {0}

CF_NIL == -1
CFA_OFFSET == 2
Bit14 == 16384
Bit15 == 32768

Data(n) == [kind |-> "data", n |-> n]
Addr(s, o) == [kind |-> "addr", sect |-> s, offset |-> o]
Threaded(g, k) == [kind |-> "threaded", group |-> g, n |-> k]
XtOf(g, k) == [kind |-> "xt", group |-> g, n |-> k]
LabelOf(g, k) == [kind |-> "label", group |-> g, n |-> k]
Doer(d) == [kind |-> "doer", n |-> d]

PrimKinds == {"threaded", "xt", "label"}
Content ==
  [kind : {"data"}, n : Int] \cup [kind : {"null"}]
    \cup [kind : {"addr"}, sect : Nat, offset : Nat]
    \cup [kind : PrimKinds, group : Nat, n : Nat] \cup [kind : {"doer"}, n : Nat]

(* An engine has its kind of threading, the sizes of its groups of         *)
(* primitives, whether its goto is relocatable, and its ip update, and the *)
(* addresses of its tables.  groups[g] in the C code, after the summation  *)
(* in gforth_relocate, is the number of primitives in front of group g;    *)
(* group 0 has the doers, and the last group is empty.                     *)
LastGroup == 31
GroupStart(e, g) ==
  LET f[i \in 0 .. Len(e.groups)] ==
        IF i = 0 THEN 0 ELSE f[i - 1] + e.groups[i]
  IN  f[g]
NPrims(e) == GroupStart(e, Len(e.groups))

IsEngine(e) ==
  /\ e \in [kind : {"ditc", "direct", "indirect"}, groups : Seq(Nat),
            relocatable : BOOLEAN, ip_update : BOOLEAN,
            vm_prims : Int, xts : Int, labels : Int]
  /\ Len(e.groups) \in 2 .. LastGroup - 1
  /\ \A i \in DOMAIN e.groups : e.groups[i] <= 512
  /\ e.groups[1] = DOER_MAX + 1

(* e has every primitive of maker, in the same place of the same group. *)
Provides(e, maker) ==
  /\ Len(maker.groups) <= Len(e.groups)
  /\ \A i \in DOMAIN maker.groups : maker.groups[i] <= e.groups[i]

(* groups as it is compiled in: entry g has the size of the group before. *)
InitGroups(e) ==
  [g \in 0 .. LastGroup |-> IF g \in DOMAIN e.groups THEN e.groups[g] ELSE 0]

(* Mutant of SumGroups: summed up at every call. *)
SumGroupsAgain(groups) ==
  LET f[g \in 0 .. LastGroup] == groups[g] + (IF g = 0 THEN 0 ELSE f[g - 1])
  IN  f

(* The summation in gforth_relocate, unless it was done already. *)
SumGroups(groups) ==
  LET f[g \in 0 .. LastGroup] == groups[g] + (IF g = 0 THEN 0 ELSE f[g - 1])
  IN  IF groups[LastGroup] = 0 THEN f ELSE groups

-----------------------------------------------------------------------------
(* The dump of a system that runs on the doubly indirect engine e, with    *)
(* its sections at the addresses at.                                       *)
DumpCell(e, at, c) ==
  CASE c.kind = "data"     -> c.n
    [] c.kind = "addr"     -> at[c.sect + 1] + c.offset
    [] c.kind = "threaded" -> e.vm_prims + GroupStart(e, c.group) + c.n + CFA_OFFSET
    [] c.kind = "xt"       -> e.xts + GroupStart(e, c.group) + c.n
    [] c.kind = "label"    -> e.labels + GroupStart(e, c.group) + c.n
    [] c.kind = "doer"     -> e.xts + c.n

(* >tag *)
Tag(e, index) ==
  IF index > DOER_MAX
  THEN LET g == CHOOSE i \in 1 .. Len(e.groups) - 1 :
                  GroupStart(e, i) <= index /\ index < GroupStart(e, i + 1)
       IN  - (index - GroupStart(e, g) + g * 512)
  ELSE -2 - index

(* mask xor, for the small negative tags: clears bit 14 or 15. *)
Mask(tag, mask) == tag - mask

(* sect-reloc: the token for address x in the sections at addresses at, of *)
(* these sizes.  An address right behind a section belongs to it.          *)
sect_reloc(at, sizes, x) ==
  LET in == {s \in DOMAIN at : at[s] <= x /\ x <= at[s] + sizes[s]}
      s  == CHOOSE i \in in : \A j \in in : i <= j
  IN  IF in = {} THEN x ELSE (s - 1) * SectionSize + x - at[s]

Cell(tok, tagged) == [tok |-> tok, tagged |-> tagged]

(* compare-section, for one cell.  d1 and d2 are the two dumps: engine,    *)
(* section addresses.  A table that is at the same address in both dumps   *)
(* has no relocatable references.                                          *)
CompareCell(d1, d2, sizes, c) ==
  LET c1 == DumpCell(d1.e, d1.at, c)
      c2 == DumpCell(d2.e, d2.at, c)
      r1 == sect_reloc(d1.at, sizes, c1)
      coffset == d2.e.vm_prims - d1.e.vm_prims
      xoffset == d2.e.xts - d1.e.xts
      loffset == d2.e.labels - d1.e.labels
  IN  IF c1 = c2 THEN Cell(c1, FALSE)
      ELSE IF r1 = sect_reloc(d2.at, sizes, c2) THEN Cell(r1, TRUE)
      ELSE IF c1 + coffset = c2
           THEN Cell(Mask(Tag(d1.e, c1 - d1.e.vm_prims - CFA_OFFSET), Bit14), TRUE)
      ELSE IF c1 + xoffset = c2 THEN Cell(Tag(d1.e, c1 - d1.e.xts), TRUE)
      ELSE IF c1 + loffset = c2
           THEN Cell(Mask(Tag(d1.e, c1 - d1.e.labels), Bit15), TRUE)
      ELSE Cell(c1, FALSE)

SizesOf(contents) == [s \in DOMAIN contents |-> Len(contents[s])]

(* What a cell can stand for in a system on engine e with sections of      *)
(* these sizes.                                                            *)
InSystem(e, sizes, c) ==
  /\ c \in Content
  /\ c.kind = "addr" => c.sect + 1 \in DOMAIN sizes /\ c.offset <= sizes[c.sect + 1]
  /\ c.kind \in PrimKinds =>
       c.group \in 1 .. Len(e.groups) - 1 /\ c.n < e.groups[c.group + 1]
  /\ c.kind = "doer" => c.n <= DOER_MAX

(* In a dump the sections, with the address right behind each, are apart   *)
(* from each other and from the tables of the engine.                      *)
Apart(d, sizes) ==
  /\ \A s, t \in DOMAIN sizes :
       s < t => d.at[s] + sizes[s] < d.at[t] \/ d.at[t] + sizes[t] < d.at[s]
  /\ \A s \in DOMAIN sizes : \A table \in {d.e.vm_prims, d.e.xts, d.e.labels} :
       table + NPrims(d.e) + CFA_OFFSET < d.at[s] \/ d.at[s] + sizes[s] < table

(* Two dumps that comp-image can compare: the same system, with every      *)
(* section at another address (check-sections), and the tables moved by    *)
(* three different offsets (--offset-image), or not at all.                *)
Comparable(d1, d2, contents) ==
  LET sizes == SizesOf(contents)
      offsets == <<0, d2.e.vm_prims - d1.e.vm_prims, d2.e.xts - d1.e.xts,
                   d2.e.labels - d1.e.labels>>
  IN  /\ contents \in Seq(Seq(Content))
      /\ \A s \in DOMAIN contents :
           /\ Len(contents[s]) < SectionSize
           /\ \A i \in DOMAIN contents[s] :
                InSystem(d1.e, sizes, contents[s][i]) /\ contents[s][i].kind # "null"
      /\ \A d \in {d1, d2} :
           /\ IsEngine(d.e) /\ d.e.kind = "ditc" /\ d.e.groups = d1.e.groups
           /\ d.at \in Seq(Int) /\ Len(d.at) = Len(contents)
           /\ Apart(d, sizes)
      /\ \A s \in DOMAIN contents : d1.at[s] # d2.at[s]
      /\ \/ d1.e = d2.e /\ d1.e.vm_prims > 0
         \/ IsInjective(offsets)

(* comp-image.  The base fields are cleared if they differ: the checksum   *)
(* of a fully relocatable image is 0.                                      *)
comp_image(d1, d2, contents) ==
  [bases |-> [s \in DOMAIN contents |-> 0],
   checksum |-> IF d1.e.vm_prims # d2.e.vm_prims THEN 0 ELSE d1.e.vm_prims,
   sections |-> [s \in DOMAIN contents |->
      [i \in DOMAIN contents[s] |->
         CompareCell(d1, d2, SizesOf(contents), contents[s][i])]]]

(* save-cross: the cross compiler makes an image of one section with       *)
(* addresses from base on, and 0 for no address; A, sets the bit of a cell *)
(* that is to be relocated.                                                *)
CrossImage(e, base, contents) ==
  LET Tok(c) ==
        CASE c.kind = "data"     -> Cell(c.n, FALSE)
          [] c.kind = "null"     -> Cell(0, TRUE)
          [] c.kind = "addr"     -> Cell(base + c.offset, TRUE)
          [] c.kind = "threaded" -> Cell(Mask(- (c.n + c.group * 512), Bit14), TRUE)
          [] c.kind = "xt"       -> Cell(- (c.n + c.group * 512), TRUE)
          [] c.kind = "label"    -> Cell(Mask(- (c.n + c.group * 512), Bit15), TRUE)
          [] c.kind = "doer"     -> Cell(-2 - c.n, TRUE)
  IN  [bases |-> <<base>>, checksum |-> 0,
       sections |-> <<[i \in DOMAIN contents[1] |-> Tok(contents[1][i])]>>]

(* What the cross compiler can make an image of. *)
Crossable(e, base, contents) ==
  /\ IsEngine(e) /\ base \in {0, 256}
  /\ contents \in Seq(Seq(Content)) /\ Len(contents) = 1
  /\ base + Len(contents[1]) < SectionSize
  /\ \A i \in DOMAIN contents[1] :
       /\ InSystem(e, SizesOf(contents), contents[1][i])
       /\ contents[1][i].kind = "null" => base > 0

(* dump-fi: the sections as they are in memory, with their addresses in    *)
(* the base fields; there are no relocation bits.                          *)
dump_fi(d, contents) ==
  [bases |-> d.at, checksum |-> d.e.vm_prims,
   sections |-> [s \in DOMAIN contents |->
      [i \in DOMAIN contents[s] |-> Cell(DumpCell(d.e, d.at, contents[s][i]), FALSE)]]]

(* A system that can be dumped: no section is at an address that means     *)
(* that the section is relocatable, or has bits of a section number.       *)
Dumpable(d, contents) ==
  /\ IsEngine(d.e) /\ d.e.kind = "ditc" /\ d.e.vm_prims > 0
  /\ contents \in Seq(Seq(Content))
  /\ d.at \in Seq(Int) /\ Len(d.at) = Len(contents)
  /\ \A s \in DOMAIN contents :
       /\ d.at[s] \in 1 .. SectionSize - 1 /\ d.at[s] # 256
       /\ \A i \in DOMAIN contents[s] :
            InSystem(d.e, SizesOf(contents), contents[s][i]) /\ contents[s][i].kind # "null"

-----------------------------------------------------------------------------
(* Relocation. *)

Bit14Clear(token) == ((-token - 1) \div Bit14) % 2 = 1
Bit15Clear(token) == ((-token - 1) \div Bit15) % 2 = 1
CF(token) == -token - 2

(* CFA(n): bit 14 chooses the table of the doubly indirect engine. *)
CFA(e, n, bit14) ==
  IF e.kind = "ditc" /\ ~bit14 THEN e.xts + n ELSE e.vm_prims + n + CFA_OFFSET

(* The value of a reference to the engine, and whether it is to be         *)
(* compiled later.                                                         *)
Reloc(v, compile) == [value |-> v, compile |-> compile]

(* Group 0: no code field, a doer, or a primitive by its number. *)
RelocCF(e, token) ==
  LET bit14 == Bit14Clear(token)
      t4    == IF bit14 THEN token + Bit14 ELSE token
  IN  IF t4 = CF_NIL THEN Reloc(0, FALSE)
      ELSE IF e.kind # "ditc" /\ CF(t4) \in 0 .. DOER_MAX
           THEN Reloc(e.labels + CF(token), FALSE)
      ELSE IF CF(t4) < NPrims(e)
           THEN Reloc(CFA(e, CF(t4), bit14), e.kind = "direct" /\ bit14)
      ELSE Reloc(token, FALSE)

(* Primitive number index of the engine. *)
RelocIndex(e, index, bit14, bit15) ==
  LET compile == e.kind = "direct" /\ bit14
  IN  IF ~compile /\ bit15 THEN Reloc(e.labels + index, FALSE)
      ELSE Reloc(CFA(e, index, bit14), compile)

(* If the engine has no such primitive the token stays. *)
RelocPrim(e, groups, token) ==
  LET group == ((-token) \div 512) % 32
      tok   == (-token) % 512
  IN  IF group = 0 THEN RelocCF(e, token)
      ELSE IF group < LastGroup /\ tok < groups[group + 1] - groups[group]
      THEN RelocIndex(e, groups[group] + tok, Bit14Clear(token), Bit15Clear(token))
      ELSE Reloc(token, FALSE)

(* An address: section and offset in it. *)
RelocAddr(at, bases, token) ==
  LET s == token \div SectionSize + 1
  IN  at[s] - bases[s] + (token % SectionSize)

(* gforth_relocate_range: section s of an image, with the sections at      *)
(* addresses at; the cells, the indices to compile, and the places that    *)
(* are the target of an address.                                           *)
gforth_relocate_range(e, groups, at, bases, cells, s) ==
  LET base  == (s - 1) * SectionSize + bases[s]
      steps == (Len(cells) - 1) \div RELINFOBITS + 1
      T     == {i \in DOMAIN cells : cells[i].tagged}
      prims == {i \in T : cells[i].tok < 0}
      addrs == {i \in T \ prims : cells[i].tok >= bases[s]}
      bitnums == {cells[i].tok - base : i \in
                    {j \in addrs : cells[j].tok \div SectionSize = s - 1}}
  IN  [cells |-> [i \in DOMAIN cells |->
                    IF i \in prims THEN RelocPrim(e, groups, cells[i].tok).value
                    ELSE IF i \in addrs THEN RelocAddr(at, bases, cells[i].tok)
                    ELSE cells[i].tok],
       compile |-> {i \in prims : RelocPrim(e, groups, cells[i].tok).compile},
       targets |-> {b \in bitnums : b \div RELINFOBITS < steps}]

(* A section in memory before relocation: what was read, and are there     *)
(* relocation bits for it?                                                 *)
Read(cells, bits) == [cells |-> cells, bits |-> bits]
AsRead(read) ==
  [cells |-> [i \in DOMAIN read.cells |-> read.cells[i].tok], compile |-> {}, targets |-> {}]

(* gforth_relocate: the sections, up to one without relocation bits; that  *)
(* one and those behind it stay as they were read.  The first cell of the  *)
(* image gets its address.                                                 *)
gforth_relocate(e, groups, at, bases, read) ==
  [s \in DOMAIN read |->
     LET r == gforth_relocate_range(e, groups, at, bases, read[s].cells, s)
     IN  IF \E t \in 1 .. s : ~read[t].bits THEN AsRead(read[s])
         ELSE IF s = 1 THEN [r EXCEPT !.cells[1] = at[1]]
         ELSE r]

-----------------------------------------------------------------------------
(* What the contents of a cell are in engine e, with sections at at. *)
Meaning(e, at, c) ==
  LET index == GroupStart(e, c.group) + c.n
  IN  CASE c.kind = "data" -> c.n
        [] c.kind = "null" -> 0
        [] c.kind = "addr" -> at[c.sect + 1] + c.offset
        [] c.kind = "threaded" -> e.vm_prims + index + CFA_OFFSET
        [] c.kind = "xt" -> IF e.kind = "ditc" THEN e.xts + index
                            ELSE e.vm_prims + index + CFA_OFFSET
        [] c.kind = "label" -> e.labels + index
        [] c.kind = "doer" -> IF e.kind = "ditc" THEN e.xts + c.n
                              ELSE e.labels + c.n

=============================================================================
