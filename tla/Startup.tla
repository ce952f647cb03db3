------------------------------ MODULE Startup ------------------------------
(***************************************************************************)
(* The start of the engine (engine/main.c): options, the search for the    *)
(* image file, loading of its sections, relocation, check, and the Forth   *)
(* system running in it (gforth_main), up to several times in one process  *)
(* (gforth_make_image).  One action per stage; the C globals survive from  *)
(* one start to the next.                                                  *)
(*                                                                         *)
(* An image file is [img, contents, size, cut, maker, ...]: the image      *)
(* (module Image), what its cells stand for, the sizes in its header,      *)
(* where the file ends, and how it was made: by comp-image from the dumps  *)
(* d1 and d2 (maker "comp-i"), by the cross compiler for engine e, with    *)
(* addresses from base on (maker "cross"), or by savesystem as the dump d  *)
(* (maker "dump").  It ends in the header, in the relocation bits or the   *)
(* cells of section cut.sect, or, if it is whole, behind its last section. *)
(***************************************************************************)
EXTENDS Image

CONSTANTS
  Commands,     \* command lines: [noDynamic, noDynImage, offset,
                \*   size, bad]; an option is "yes", "no" or not given, "default",
                \*   size 0 is not given, and bad names one that is no number
  Files,        \* image files
  Paths,        \* what is found along the path: [prog, dirs, named]
  Engines,      \* the engines a process may be
  TableSize,    \* size of the tables of the doubly indirect engine
  Places,       \* where the sections may be placed: sequences of addresses
  RwxMayFail,   \* can mapping the image with PROT_EXEC be denied?
  FloatSize,    \* sizeof(Float)
  UCellMax,     \* (UCell)-1
  Garbage,      \* values of uninitialized memory
  MaxStarts

(* dictsize, dsize, rsize, fsize, lsize, and the fields of the header *)
SizeNames == {"dict", "data", "return", "fp", "locals"}

ASSUME StartupAssumption ==
  /\ MaxStarts \in Nat \ {0} /\ RwxMayFail \in BOOLEAN
  /\ FloatSize \in Nat \ {0} /\ UCellMax \in Nat
  /\ Garbage \subseteq Nat /\ Garbage # {}

(* gforth_engine(0): the tables of the doubly indirect engine are allocated *)
(* anew at every start.                                                     *)
EngineAt(e, n) ==
  IF e.kind # "ditc" THEN e
  ELSE [e EXCEPT !.vm_prims = @ + (n - 1) * TableSize,
                 !.xts = @ + (n - 1) * TableSize,
                 !.labels = @ + (n - 1) * TableSize]

(* The image files are made by the tools, on an engine whose primitives    *)
(* the engines here provide, and start with their address.  The checksum   *)
(* of an image that refers to the tables by address is that of one engine  *)
(* only.                                                                   *)
OnlyOn(made) ==
  \A e \in Engines, n \in 1 .. MaxStarts :
    LET x == EngineAt(e, n) IN
    x.vm_prims = made.vm_prims =>
      /\ x.kind = "ditc" /\ x.groups = made.groups
      /\ x.xts = made.xts /\ x.labels = made.labels

ASSUME FilesAssumption ==
  \A f \in Files :
    /\ \/ /\ f.maker = "comp-i" /\ Comparable(f.d1, f.d2, f.contents)
          /\ f.img = comp_image(f.d1, f.d2, f.contents)
          /\ \A e \in Engines : Provides(e, f.d1.e)
          /\ f.d1.e = f.d2.e => OnlyOn(f.d1.e)
       \/ /\ f.maker = "cross" /\ Crossable(f.e, f.base, f.contents)
          /\ f.img = CrossImage(f.e, f.base, f.contents)
          /\ \A e \in Engines : Provides(e, f.e)
       \/ /\ f.maker = "dump" /\ Dumpable(f.d, f.contents)
          /\ f.img = dump_fi(f.d, f.contents) /\ OnlyOn(f.d.e)
    /\ Len(f.contents) > 0 /\ Len(f.contents[1]) > 0 /\ f.contents[1][1] = Addr(0, 0)
    /\ f.cut.at \in {"header", "bits", "cells", "end"}
    /\ f.cut.sect \in DOMAIN f.contents
    /\ f.cut.at = "cells" => f.cut.sect > 1
    /\ f.cut.at = "bits" => f.maker # "dump"

ASSUME EnvironmentAssumption ==
  /\ \A e \in Engines : IsEngine(e)
  /\ \A at \in Places : at \in Seq(Int)
  /\ TableSize \in Int
  /\ \A k \in Commands :
       /\ k.size \in [SizeNames -> Nat] /\ k.bad \in SizeNames \cup {"none"}
       /\ k.noDynImage \in BOOLEAN
  /\ \A f \in Files : f.size \in [SizeNames -> Nat]

VARIABLES
  pc,           \* the stage
  cmd, file, path,  \* arguments of this start
  starts,       \* number of this start
  engine,
  c,            \* C globals: no_dynamic, no_dynamic_image, offset_image,
                \*   prot_exec, priminfos (check_prims has filled them in),
                \*   ip_update0 (is it set?), groups, the sizes, up (are there
                \*   stacks?); no_dynamic_orig is local to gforth_loader
  dir,          \* files tried so far
  mem,          \* the memory image: at, header sizes, what was mapped, how many
                \*   sections were loaded, how the next was cut, the sections
  retvalue

vars == <<pc, cmd, file, path, starts, engine, c, dir, mem, retvalue>>

(* The engine of the start n. *)
Engine(n) == EngineAt(engine, n)

Zeros == [k \in SizeNames |-> 0]
NoMem == [at |-> <<>>, size |-> Zeros, mapped |-> Zeros, loaded |-> 0,
          broken |-> "no", sections |-> <<>>]

Init ==
  /\ pc = "args" /\ cmd \in Commands /\ file \in Files /\ path \in Paths
  /\ starts = 1 /\ engine \in Engines
  /\ c = [no_dynamic |-> FALSE, no_dynamic_image |-> FALSE, offset_image |-> FALSE,
          prot_exec |-> TRUE, priminfos |-> FALSE, ip_update0 |-> FALSE,
          groups |-> InitGroups(engine), size |-> Zeros, up |-> "none",
          no_dynamic_orig |-> FALSE]
  /\ dir = 0 /\ mem = NoMem /\ retvalue = 0

Fail(value) == pc' = "failed" /\ retvalue' = value

Option(given, old) == IF given = "default" THEN old ELSE given = "yes"

(* gforth_args: only the options that are given are set.  A size that      *)
(* convsize cannot convert is stored, too, and the start ends there.       *)
gforth_args ==
  /\ pc = "args"
  /\ IF cmd.bad # "none"
     THEN c' = [c EXCEPT !.size[cmd.bad] = UCellMax] /\ Fail(-24)
     ELSE /\ c' = [c EXCEPT
                 !.no_dynamic = Option(cmd.noDynamic, @),
                 !.no_dynamic_orig = Option(cmd.noDynamic, c.no_dynamic),
                 !.no_dynamic_image = @ \/ cmd.noDynImage,
                 !.offset_image = Option(cmd.offset, @),
                 !.size = [k \in SizeNames |-> IF cmd.size[k] = 0 THEN @[k] ELSE cmd.size[k]]]
          /\ pc' = "search" /\ UNCHANGED retvalue
  /\ UNCHANGED <<cmd, file, path, starts, engine, dir, mem>>

(* Mutant of checkimage: an image of another machine is accepted, too. *)
checkimage_any(f) ==
  /\ f.opens
  /\ \E n \in DOMAIN f.units : f.units[n] \in {"magic", "foreign"}

(* checkimage: the file can be opened, it has a magic at a multiple of 8,  *)
(* and the first one is of this machine.  A file is its units of 8: a      *)
(* magic of this or another machine ("magic", "foreign"), or "other".      *)
checkimage(f) ==
  /\ f.opens
  /\ \E n \in DOMAIN f.units :
       /\ \A m \in 1 .. n - 1 : f.units[m] = "other"
       /\ f.units[n] # "other"
       /\ f.units[n] = "magic"

(* The files that open_image_file tries: a name with a directory in it is  *)
(* taken as it is (named); otherwise the directory of the program, if its  *)
(* name tells it (prog), and then those of the path (dirs).                *)
Candidates(p) == p.named \o (IF p.named = <<>> THEN p.prog \o p.dirs ELSE <<>>)

(* open_image_file: the next file. *)
open_image_file ==
  /\ pc = "search"
  /\ IF dir = Len(Candidates(path)) THEN Fail(-59) /\ UNCHANGED dir
     ELSE /\ dir' = dir + 1
          /\ pc' = IF checkimage(Candidates(path)[dir + 1]) THEN "header" ELSE "search"
          /\ UNCHANGED retvalue
  /\ UNCHANGED <<cmd, file, path, starts, engine, c, mem>>

maxaligned(n) == ((n + FloatSize - 1) \div FloatSize) * FloatSize

(* Mutant of set_stack_sizes: the header keeps its sizes. *)
set_stack_sizes_global(size, header) ==
  [size |-> [k \in SizeNames |-> maxaligned(IF size[k] = 0 THEN header[k] ELSE size[k])],
   header |-> header]

(* set_stack_sizes: the sizes in use, and in the header after it. *)
set_stack_sizes(size, header) ==
  LET s == [k \in SizeNames |-> maxaligned(IF size[k] = 0 THEN header[k] ELSE size[k])]
  IN  [size |-> s, header |-> s]

(* gforth_init, and the header is read, for its sizes.  When the file ends *)
(* in it, the rest is what was on the stack, and there is only a message.  *)
ReadHeader ==
  /\ pc = "header"
  /\ \/ \E header \in IF file.cut.at = "header" THEN [SizeNames -> Garbage] ELSE {file.size} :
          /\ c' = [c EXCEPT !.size = set_stack_sizes(@, header).size]
          /\ pc' = "alloc" /\ UNCHANGED retvalue
     \/ Fail(-59) /\ UNCHANGED c
  /\ UNCHANGED <<cmd, file, path, starts, engine, dir, mem>>

(* dict_alloc_read: mapped, or read if the image is to be offset.  If the  *)
(* image cannot be mapped executable, there will be no native code.  With  *)
(* a short header it fails, or an access behind the end of the file kills  *)
(* the process.                                                            *)
dict_alloc_read ==
  /\ pc = "alloc"
  /\ \/ \E at \in Places :
          /\ file.cut.at # "header" /\ Len(at) = Len(file.img.sections)
          /\ mem' = [mem EXCEPT !.at = at, !.size = file.size, !.mapped["dict"] = c.size["dict"]]
          /\ pc' = "prims"
          /\ \/ UNCHANGED c
             \/ /\ RwxMayFail /\ ~c.offset_image
                /\ c' = [c EXCEPT !.no_dynamic = TRUE, !.prot_exec = FALSE]
          /\ UNCHANGED retvalue
     \/ file.cut.at = "header" /\ pc' = "crashed" /\ UNCHANGED <<c, mem, retvalue>>
     \/ Fail(-59) /\ UNCHANGED <<c, mem>>
  /\ UNCHANGED <<cmd, file, path, starts, engine, dir>>

(* check_prims, of an engine with native code: the properties of the       *)
(* primitives, unless not even the goto is relocatable.                    *)
check_prims ==
  /\ pc = "prims" /\ pc' = "supers"
  /\ c' = IF engine.kind # "direct" \/ c.no_dynamic THEN c
          ELSE IF ~engine.relocatable THEN [c EXCEPT !.no_dynamic = TRUE]
          ELSE [c EXCEPT !.priminfos = TRUE]
  /\ UNCHANGED <<cmd, file, path, starts, engine, dir, mem, retvalue>>

(* is_relocatable(the primitive that only updates ip) *)
IpUpdateRelocatable == engine.kind = "direct" /\ engine.ip_update /\ ~c.no_dynamic

(* prepare_super_table, as far as it looks at what the start before left:  *)
(* it asserts that there is no ip update yet.  Then the header in memory   *)
(* gets the sizes, and loading of section 1 begins.                        *)
prepare_super_table ==
  /\ pc = "supers"
  /\ IF IpUpdateRelocatable /\ c.ip_update0
     THEN pc' = "aborted" /\ UNCHANGED <<c, mem>>
     ELSE /\ c' = [c EXCEPT !.ip_update0 = @ \/ IpUpdateRelocatable,
                            !.size = set_stack_sizes(@, mem.size).size]
          /\ mem' = [mem EXCEPT !.size = set_stack_sizes(c.size, @).header]
          /\ pc' = "section"
  /\ UNCHANGED <<cmd, file, path, starts, engine, dir, retvalue>>

HasBits(base) == base \in {0, 256}
EndsIn(place, i) == file.cut.at = place /\ file.cut.sect = i

(* One turn of the loop over the sections in gforth_loader: the relocation *)
(* bits of section i, if there are any (otherwise the address must fit),   *)
(* and the cells of the next section.  Where the file ends, or there is no *)
(* other section, loading ends and the start goes on.                      *)
LoadSection ==
  LET i == mem.loaded + 1
      base == file.img.bases[i]
      Break(loaded, broken) ==
        /\ mem' = [mem EXCEPT !.loaded = loaded, !.broken = broken]
        /\ pc' = "relocate" /\ UNCHANGED retvalue
  IN  /\ pc = "section"
      /\ IF HasBits(base) /\ EndsIn("bits", i) THEN Break(i - 1, "bits")
         ELSE IF ~HasBits(base) /\ base # mem.at[i] THEN Fail(-59) /\ UNCHANGED mem
         ELSE IF i = Len(file.img.sections) \/ EndsIn("end", i) THEN Break(i, "no")
         ELSE IF EndsIn("cells", i + 1) THEN Break(i, "cells")
         ELSE mem' = [mem EXCEPT !.loaded = i] /\ UNCHANGED <<pc, retvalue>>
      /\ UNCHANGED <<cmd, file, path, starts, engine, c, dir>>

(* What may be in memory for a section that the file ends in: relocation   *)
(* bits are in memory that was not initialized; cells that were not read   *)
(* are 0, and there are no relocation bits.                                *)
Broken(cells) ==
  CASE mem.broken = "no" -> {<<>>}
    [] mem.broken = "bits" ->
         {<<Read([i \in DOMAIN cells |-> Cell(cells[i].tok, i \in B)], TRUE)>> :
            B \in SUBSET DOMAIN cells}
    [] mem.broken = "cells" ->
         {<<Read([i \in DOMAIN cells |-> IF i <= n THEN cells[i] ELSE Cell(0, FALSE)], FALSE)>> :
            n \in 0 .. Len(cells) - 1}

(* The sections in memory.  No address, and no base, was stored for those  *)
(* that are not there.                                                     *)
Whole == [s \in 1 .. mem.loaded |-> Read(file.img.sections[s], HasBits(file.img.bases[s]))]
There == IF mem.broken = "no" THEN mem.loaded ELSE mem.loaded + 1
Sections == [s \in DOMAIN mem.at |-> IF s <= There THEN mem.at[s] ELSE 0]
Bases(g) == [s \in DOMAIN mem.at |-> IF s <= There THEN file.img.bases[s] ELSE g]

(* gforth_relocate, with native code unless switched off; the option is    *)
(* restored to what it was when gforth_loader was entered.                 *)
Relocate ==
  LET groups == SumGroups(c.groups)
      native == ~c.no_dynamic /\ ~c.no_dynamic_image
  IN  /\ pc = "relocate" /\ pc' = "checksum"
      /\ \E g \in Garbage, broken \in Broken(file.img.sections[There]) :
           LET r == gforth_relocate(Engine(starts), groups, Sections, Bases(g), Whole \o broken)
           IN  mem' = [mem EXCEPT !.sections =
                         [s \in DOMAIN r |-> [cells |-> r[s].cells,
                            compile |-> r[s].compile, targets |-> r[s].targets,
                            native |-> native]]]
      /\ c' = [c EXCEPT !.groups = groups, !.no_dynamic = c.no_dynamic_orig]
      /\ UNCHANGED <<cmd, file, path, starts, engine, dir, retvalue>>

(* The checksum of the engine is that of the image, or the image has none. *)
Checksum ==
  /\ pc = "checksum"
  /\ IF file.img.checksum \in {0, Engine(starts).vm_prims}
     THEN pc' = "stacks" /\ UNCHANGED retvalue
     ELSE Fail(-59)
  /\ UNCHANGED <<cmd, file, path, starts, engine, c, dir, mem>>

(* gforth_stacks and gforth_setstacks *)
Stacks ==
  /\ pc = "stacks" /\ pc' = "boot"
  /\ c' = [c EXCEPT !.up = "live"]
  /\ mem' = [mem EXCEPT !.mapped =
               [k \in SizeNames |-> IF k = "dict" THEN @[k] ELSE c.size[k]]]
  /\ UNCHANGED <<cmd, file, path, starts, engine, dir, retvalue>>

(* gforth_boot, gforth_bootmessage and gforth_quit: Forth runs, and comes  *)
(* back with a value; -56 means quit.                                      *)
Run ==
  /\ pc \in {"boot", "bootmessage", "quit"}
  /\ \E v \in {-56, 0} :
       /\ retvalue' = v
       /\ pc' = IF v = -56 /\ pc = "boot" THEN "bootmessage"
                ELSE IF v = -56 /\ pc = "bootmessage" THEN "quit"
                ELSE "done"
  /\ UNCHANGED <<cmd, file, path, starts, engine, c, dir, mem>>

(* gforth_make_image: free stacks and dictionary, and start again, with    *)
(* other options and the same image.  The return value is not looked at:   *)
(* without stacks, freeing them crashes.                                   *)
StartAgain ==
  /\ pc \in {"done", "failed"} /\ starts < MaxStarts
  /\ starts' = starts + 1 /\ UNCHANGED engine
  /\ IF c.up = "live"
     THEN /\ pc' = "args" /\ cmd' \in Commands
          /\ c' = [c EXCEPT !.up = "freed"]
          /\ dir' = 0 /\ mem' = NoMem /\ retvalue' = 0
     ELSE pc' = "crashed" /\ UNCHANGED <<cmd, c, dir, mem, retvalue>>
  /\ UNCHANGED <<file, path>>

Next ==
  \/ gforth_args \/ open_image_file \/ ReadHeader \/ dict_alloc_read
  \/ check_prims \/ prepare_super_table \/ LoadSection \/ Relocate \/ Checksum \/ Stacks \/ Run
  \/ StartAgain

Spec == Init /\ [][Next]_vars

-----------------------------------------------------------------------------
Running == pc \in {"boot", "bootmessage", "quit"}

(* An image means the same wherever it is loaded, and whatever engine made *)
(* it: in a system that runs, every cell of a section that was read stands *)
(* for what it stood for when the image was made, the threaded code is to  *)
(* be compiled, and a basic block ends at every place that some address of *)
(* the section points to.  An address of a section that the file does not  *)
(* have any more is not right; from a whole file, all sections are read.   *)
LoadedRight ==
  Running =>
    /\ EndsIn("end", Len(file.contents)) => mem.loaded = Len(file.contents)
    /\ \A s \in 1 .. mem.loaded : \A i \in DOMAIN file.contents[s] :
         LET x == file.contents[s][i]
             m == mem.sections[s]
             e == Engine(starts)
         IN  (x.kind = "addr" => x.sect < mem.loaded)
             => /\ m.cells[i] = Meaning(e, mem.at, x)
                /\ (i \in m.compile) = (x.kind = "threaded" /\ e.kind = "direct")
                /\ x.kind = "addr" /\ x.sect = s - 1 /\ x.offset < Len(m.cells)
                   /\ e.kind = "direct" => x.offset \in m.targets

(* The image is the first usable file of those that open_image_file tries: *)
(* it can be opened, and the first magic in it is of this machine.         *)
Usable(f) ==
  f.opens /\ \E n \in DOMAIN f.units :
               f.units[n] = "magic" /\ \A m \in 1 .. n - 1 : f.units[m] = "other"
FirstUsable ==
  pc \notin {"args", "search", "failed", "crashed", "aborted"} =>
    /\ Usable(Candidates(path)[dir])
    /\ \A d \in 1 .. dir - 1 : ~Usable(Candidates(path)[d])

(* What is mapped for the dictionary and the stacks is what Forth finds in *)
(* the header, in the second start as in the first; a size that was asked  *)
(* for is rounded up to a whole number of floats, and to no more than that *)
(* (set_stack_sizes, before and after the image is mapped).                *)
SizesAgree ==
  Running =>
    /\ mem.mapped = mem.size
    /\ \A k \in SizeNames :
         cmd.size[k] # 0 =>
           /\ mem.mapped[k] % FloatSize = 0
           /\ mem.mapped[k] \in cmd.size[k] .. cmd.size[k] + FloatSize - 1

(* When dynamic code generation was disabled while the image was loaded,   *)
(* it stays so: native code is generated only with the properties of the   *)
(* primitives, and into memory that can be executed.                       *)
NoDynamicKept ==
  Running /\ engine.kind = "direct" /\ ~c.no_dynamic => c.priminfos /\ c.prot_exec

(* A start in a process that has started before is like the first one:     *)
(* what prepare_super_table asserts of its tables holds.                   *)
NoAbort == pc # "aborted"

=============================================================================
