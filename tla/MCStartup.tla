----------------------------- MODULE MCStartup -----------------------------
(***************************************************************************)
(* Instances of Startup for TLC.  Images of two sections are made by a     *)
(* doubly indirect engine with two groups of primitives, and loaded by     *)
(* engines of each kind, among them one with more primitives in the first  *)
(* group.                                                                  *)
(***************************************************************************)
EXTENDS Startup

Tables(kind, groups, a) ==
  [kind |-> kind, groups |-> groups, relocatable |-> TRUE, ip_update |-> TRUE,
   vm_prims |-> a, xts |-> a + 30, labels |-> a + 60]

Old == <<2, 2, 1>>
New == <<2, 3, 1>>

Maker == Tables("ditc", Old, 5000)

(* The second dump: --offset-image shifts the tables. *)
Offset ==
  [Maker EXCEPT !.vm_prims = @ + 26, !.xts = @ + 22, !.labels = @ + 18]

Direct == Tables("direct", New, 7000)
MCEngines ==
  {Maker, Direct, [Direct EXCEPT !.relocatable = FALSE], Tables("indirect", Old, 7000)}

Null == [kind |-> "null"]
Prims == {Threaded(1, 1), Threaded(2, 0), XtOf(2, 0), LabelOf(1, 0), LabelOf(2, 0)}
Cells(n) ==
  Prims \cup {Data(0), Data(17), Doer(0), Doer(1)}
        \cup {Addr(s, o) : s \in 0 .. n - 1, o \in {2, 4}}

(* A section starts with its own address and that of its end. *)
Section(s, xs) == <<Addr(s, 0), Addr(s, 4)>> \o xs
Contents ==
  {<<Section(0, <<x, y>>), Section(1, <<z, Threaded(1, 1)>>)>> :
     x \in Cells(2), y \in Prims, z \in {Data(0), Addr(0, 2), Addr(1, 3)}}
KernelContents ==
  {<<Section(0, <<x, y>>)>> : x \in Cells(1) \cup {Null}, y \in {Threaded(2, 0)}}

Dump(e, at) == [e |-> e, at |-> at]
Sizes(d, n, f) ==
  [dict |-> d, data |-> n, return |-> n, fp |-> f, locals |-> n]
End(k) == [sect |-> Len(k), at |-> "end"]

Compared(d1, d2, k, cut) ==
  [img |-> comp_image(d1, d2, k), contents |-> k, size |-> Sizes(9, 8, 6), cut |-> cut,
   maker |-> "comp-i", d1 |-> d1, d2 |-> d2]
Dump1 == Dump(Maker, <<2000, 2200>>)
Dump2 == Dump(Offset, <<2056, 2300>>)
Typical == {k \in Contents : k[1][3] = Addr(1, 2) /\ k[1][4] = Threaded(2, 0)}

(* Complete files, of each maker, and files that end early. *)
MCFiles ==
  {Compared(Dump1, Dump2, k, End(k)) : k \in Contents}
  \cup
  {Compared(Dump1, Dump(Maker, <<2056, 2300>>), k, End(k)) :
     k \in {x \in Contents : x[1][3] = Data(17)}}
  \cup
  {Compared(Dump1, Dump2, k, [sect |-> s, at |-> p]) :
     k \in Typical, s \in {1, 2}, p \in {"header", "bits", "end"}}
  \cup
  {Compared(Dump1, Dump2, k, [sect |-> 2, at |-> "cells"]) : k \in Typical}
  \cup
  {[img |-> CrossImage(Maker, 256, k), contents |-> k, size |-> Sizes(12, 4, 8),
    cut |-> End(k), maker |-> "cross", e |-> Maker, base |-> 256] : k \in KernelContents}
  \cup
  {[img |-> dump_fi(Dump(Maker, <<2500, 2700>>), k), contents |-> k, size |-> Sizes(9, 8, 6),
    cut |-> End(k), maker |-> "dump", d |-> Dump(Maker, <<2500, 2700>>)] : k \in Typical}

MCPlaces == {<<2500>>, <<2500, 2700>>, <<2056, 2000>>}

(* Files that may be found. *)
Is(units) == [opens |-> TRUE, units |-> units]
None == [opens |-> FALSE, units |-> <<>>]
Good == Is(<<"other", "magic">>)
Wrong == Is(<<"foreign", "magic">>)
MCPaths ==
  {[prog |-> <<None>>, dirs |-> <<Wrong, Good, Wrong>>, named |-> <<>>],
   [prog |-> <<Good>>, dirs |-> <<Is(<<"other">>)>>, named |-> <<>>],
   [prog |-> <<>>, dirs |-> <<Is(<<"other">>)>>, named |-> <<>>],
   [prog |-> <<Good>>, dirs |-> <<Good>>, named |-> <<Wrong>>]}

Plain == [noDynamic |-> "default", noDynImage |-> FALSE, offset |-> "default",
          size |-> Zeros, bad |-> "none"]
MCCommands ==
  {Plain, [Plain EXCEPT !.bad = "fp"],
   [Plain EXCEPT !.noDynamic = "yes", !.noDynImage = TRUE,
                  !.size = Sizes(14, 7, 0), !.offset = "yes"]}

=============================================================================
