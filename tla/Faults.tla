------------------------------ MODULE Faults ------------------------------
(***************************************************************************)
(* Stacks and memory faults: gforth_stacks lays out the user area and the  *)
(* stacks of a task with inaccessible pages between them (engine/main.c),  *)
(* the hardware stops an access to one of these, segv_handler              *)
(* (engine/signals.c) finds out which stack it was from the address, and   *)
(* gforth_go resumes in the Forth code of throw.  Tasks are created with   *)
(* newtask4 (unix/pthread.fs) and end by freeing their memory.             *)
(*                                                                         *)
(* Addresses count cells; a float is a cell.  A size is not in general a   *)
(* number of whole pages.                                                  *)
(***************************************************************************)
EXTENDS Integers

CONSTANTS
  Tasks,
  PageSize,        \* cells in a page
  SPILLAGE,        \* how far off a stack a fault is taken for one of the stack
  SIGSTKSZ,
  StackCache,      \* cells below the bottom that primitives may touch (8)
  Engines,         \* "debugging" (GFORTH_DEBUGGING), "fast"
  Sizes,           \* sizes asked for: of data, return, FP and locals stack
  MemPages,        \* pages of the address space
  Places,          \* pages where the system may place a mapping
  MaxAccess        \* cells by which a primitive moves a stack pointer

ASSUME FaultsAssumption ==
  /\ PageSize \in Nat \ {0} /\ MemPages \in Nat \ {0, 1, 2} /\ Places \subseteq Nat
  /\ SPILLAGE \in Nat \ {0} /\ 2 * SPILLAGE <= PageSize /\ MaxAccess \in 1 .. SPILLAGE
  /\ SIGSTKSZ \in {n * PageSize : n \in 1 .. MemPages}
  /\ StackCache \in 0 .. SPILLAGE - 1
  /\ Engines \subseteq {"debugging", "fast"}
  /\ Sizes \subseteq Nat \X Nat \X Nat \X Nat

VARIABLES
  engine,     \* which engine runs
  mem,        \* state of the pages: "free", "rw" or "none" (no access)
  task,       \* tasks: user area, bottoms of the stacks, where the memory is from
  ptr,        \* stack pointers of the running tasks
  sigstack,   \* alternate signal stacks
  caught,     \* what gforth_go has caught
  dictguard   \* the page behind the dictionary section mapped last

vars == <<engine, mem, task, ptr, sigstack, caught, dictguard>>

Stacks == {"sp", "rp", "fp", "lp"}
None == [state |-> "none"]
Page(a) == a \div PageSize
wholepage(n) == ((n + PageSize - 1) \div PageSize) * PageSize

NEXTPAGE(a) == ((a - 1) \div PageSize) * PageSize + PageSize
NEXTPAGE2(a) == NEXTPAGE(a) + PageSize
NEXTPAGE3(a) == NEXTPAGE(a) + 2 * PageSize

Pages(a, size) == a \div PageSize .. (a + size - 1) \div PageSize

(* Sizes of the stacks in the order of the parameters of gforth_stacks. *)
Params(d, f, r, l) == [sp |-> d, fp |-> f, rp |-> r, lp |-> l]

totalsize(z) ==
  wholepage(z.sp) + wholepage(z.fp) + wholepage(z.rp) + wholepage(z.lp)
    + 6 * PageSize + 2 * SIGSTKSZ

(* Where gforth_stacks puts things in memory at a: the user area, then     *)
(* each stack behind a guard page, and one guard page more.                *)
Layout(a, z, asked) ==
  LET d == a + 2 * PageSize
      r == d + wholepage(z.sp) + PageSize
      f == r + wholepage(z.rp) + PageSize
      l == f + wholepage(z.fp) + PageSize
  IN  [state |-> "made", up |-> a, total |-> totalsize(z), asked |-> asked,
       sp0 |-> d + z.sp, rp0 |-> r + z.rp, fp0 |-> f + z.fp, lp0 |-> l + z.lp,
       guards |-> {d - PageSize, r - PageSize, f - PageSize, l - PageSize,
                   l + wholepage(z.lp)}]

Init ==
  /\ engine \in Engines
  /\ mem = [p \in 0 .. MemPages - 1 |-> IF p = 1 THEN "rw" ELSE IF p = 2 THEN "none" ELSE "free"]
  /\ task = [t \in Tasks |-> None]
  /\ ptr = [t \in Tasks |-> None]
  /\ sigstack = [t \in Tasks |-> None]
  /\ caught = [t \in Tasks |-> None]
  /\ dictguard = 2 * PageSize

(* The items below the bottom of the data and FP stacks that the engine    *)
(* caches in registers must be accessible, unless it is for debugging.     *)
Bottoms(k) ==
  IF engine = "debugging" THEN k ELSE [k EXCEPT !.sp0 = @ - StackCache, !.fp0 = @ - 1]

(* The debugging engine rounds the sizes up, so that the bottom of a stack *)
(* is next to a guard page.                                                *)
Rounded(z) ==
  IF engine = "debugging" THEN [s \in Stacks |-> wholepage(z[s])] ELSE z

(* gforth_stacks: mapped anywhere, or, if that fails, allocated without    *)
(* guards.  A failing mprotect is not considered.                          *)
gforth_stacks(t, z, asked) ==
  \E p \in Places :
    LET a == p * PageSize
        k == Layout(a, Rounded(z), asked)
        mine == Pages(a, k.total)
    IN  /\ mine \subseteq DOMAIN mem /\ \A q \in mine : mem[q] = "free"
        /\ \/ /\ task' = [task EXCEPT ![t] = Bottoms(k)]
              /\ mem' = [q \in DOMAIN mem |->
                           IF q \in {Page(g) : g \in k.guards} THEN "none"
                           ELSE IF q \in mine THEN "rw" ELSE mem[q]]
           \/ /\ task' = [task EXCEPT ![t] = [k EXCEPT !.guards = {}]]
              /\ mem' = [q \in DOMAIN mem |-> IF q \in mine THEN "rw" ELSE mem[q]]

(* newtask4 with sizes for data, return, FP and locals stack; the address  *)
(* of kill-task is put at the bottom of the return stack.                  *)
newtask4(t, d, r, f, l) ==
  /\ task[t].state = "none"
  /\ gforth_stacks(t, Params(d, r, f, l), [sp |-> d, rp |-> r, fp |-> f, lp |-> l])
  /\ UNCHANGED <<engine, ptr, sigstack, caught, dictguard>>

(* Mutant of gforth_set_sigaltstack: the stack ends where it should start. *)
gforth_set_sigaltstack_low(k) ==
  [state |-> "set", base |-> wholepage(k.lp0) - SIGSTKSZ, size |-> SIGSTKSZ]

(* gforth_set_sigaltstack: the second half, as some systems expect the end *)
(* of the stack instead of its start.                                      *)
gforth_set_sigaltstack(k) ==
  [state |-> "set", base |-> wholepage(k.lp0) + PageSize + SIGSTKSZ, size |-> SIGSTKSZ]

Bases(k) == [sp |-> k.sp0, rp |-> k.rp0, fp |-> k.fp0, lp |-> k.lp0]

(* gforth_setstacks, and the task is put on the data stack. *)
gforth_setstacks(k) ==
  [state |-> "run", sp |-> k.sp0 - 1, rp |-> k.rp0, fp |-> k.fp0, lp |-> k.lp0]

(* The thread starts; newtask4 has lowered rp0. *)
gforth_thread(t) ==
  /\ task[t].state = "made" /\ ptr[t].state = "none"
  /\ \E k \in {[task[t] EXCEPT !.rp0 = @ - 1]} :
       /\ task' = [task EXCEPT ![t] = k]
       /\ ptr' = [ptr EXCEPT ![t] = gforth_setstacks(k)]
       /\ sigstack' = [sigstack EXCEPT ![t] = gforth_set_sigaltstack(k)]
  /\ UNCHANGED <<engine, mem, caught, dictguard>>

JUSTUNDER(a1, a2) == a2 - 1 - a1 \in 0 .. SPILLAGE - 1
JUSTOVER(a1, a2) == a1 - a2 \in 0 .. SPILLAGE - 1

(* Mutant of segv_handler: the pages of the bottoms are taken for whole. *)
segv_handler_bottom(k, guard, addr) ==
  IF addr - guard \in 0 .. PageSize - 1 THEN -8
  ELSE IF JUSTUNDER(addr, NEXTPAGE3(k.up)) THEN -3
  ELSE IF JUSTOVER(addr, k.sp0) THEN -4
  ELSE IF JUSTUNDER(addr, k.sp0 + PageSize) THEN -5
  ELSE IF JUSTOVER(addr, k.rp0) THEN -6
  ELSE IF JUSTUNDER(addr, k.rp0 + PageSize) THEN -44
  ELSE IF JUSTOVER(addr, k.fp0) THEN -45
  ELSE IF JUSTUNDER(addr, k.fp0 + PageSize) THEN -2058
  ELSE IF JUSTOVER(addr, k.lp0) THEN -2059 ELSE -9

(* segv_handler: the throw code for a fault at addr in task k. *)
segv_handler(k, guard, addr) ==
  IF addr - guard \in 0 .. PageSize - 1 THEN -8
  ELSE IF JUSTUNDER(addr, NEXTPAGE3(k.up)) THEN -3
  ELSE IF JUSTOVER(addr, NEXTPAGE(k.sp0)) THEN -4
  ELSE IF JUSTUNDER(addr, NEXTPAGE2(k.sp0)) THEN -5
  ELSE IF JUSTOVER(addr, NEXTPAGE(k.rp0)) THEN -6
  ELSE IF JUSTUNDER(addr, NEXTPAGE2(k.rp0)) THEN -44
  ELSE IF JUSTOVER(addr, NEXTPAGE(k.fp0)) THEN -45
  ELSE IF JUSTUNDER(addr, NEXTPAGE2(k.fp0)) THEN -2058
  ELSE IF JUSTOVER(addr, NEXTPAGE(k.lp0)) THEN -2059 ELSE -9

(* Mutant of RpUsable: the return stack may be full. *)
RpUsable_full(k, rp) ==
  engine = "debugging" /\ rp >= NEXTPAGE2(k.sp0) /\ rp < NEXTPAGE(k.rp0)

(* May gforth_go push the place of the fault onto the return stack? *)
RpUsable(k, rp) ==
  engine = "debugging" /\ rp - 2 > NEXTPAGE2(k.sp0) /\ rp < NEXTPAGE(k.rp0)

(* gforth_go after setjmp has returned with code: the cell it writes is on *)
(* the return stack of the task, or on one of its own (0).  What really    *)
(* happened, move d of stack s, is recorded beside it.                     *)
gforth_go(k, rp, code, s, d) ==
  [state |-> "caught", code |-> code, stack |-> s, dir |-> d,
   pushed |-> IF RpUsable(k, rp) THEN rp - 1 ELSE 0]

Direction == {"push", "pop"}

Used ==
  UNION {{<<u, x>> : x \in {y \in Stacks : ptr[u][y] # gforth_setstacks(task[u])[y]}} :
           u \in {v \in Tasks : ptr[v].state = "run"}}

(* A primitive moves the pointer of stack s by n cells and touches the     *)
(* last of them.  If that faults, the return stack pointer in saved_rp may *)
(* have been moved or not.  Without guard pages nothing is noticed.  One   *)
(* stack at a time is in use, besides the return stack.                    *)
Access(t, s, d, n) ==
  LET q == IF d = "push" THEN ptr[t][s] - n ELSE ptr[t][s] + n
      addr == IF d = "push" THEN q ELSE q - 1
  IN  /\ ptr[t].state = "run" /\ caught[t].state = "none" /\ task[t].guards # {}
      /\ Used \subseteq {<<t, s>>, <<t, "rp">>}
      /\ IF mem[Page(addr)] = "rw"
         THEN ptr' = [ptr EXCEPT ![t][s] = q] /\ UNCHANGED caught
         ELSE /\ UNCHANGED ptr
              /\ \E rp \in {ptr[t].rp, IF s = "rp" THEN q ELSE ptr[t].rp} :
                   caught' = [caught EXCEPT ![t] =
                     gforth_go(task[t], rp, segv_handler(task[t], dictguard, addr), s, d)]
      /\ UNCHANGED <<engine, mem, task, sigstack, dictguard>>

(* A store behind the end of the dictionary. *)
DictOverflow(t) ==
  /\ ptr[t].state = "run" /\ caught[t].state = "none"
  /\ \E addr \in dictguard .. dictguard + PageSize - 1 :
       caught' = [caught EXCEPT ![t] =
         gforth_go(task[t], ptr[t].rp, segv_handler(task[t], dictguard, addr),
                   "dictionary", "push")]
  /\ UNCHANGED <<engine, mem, task, ptr, sigstack, dictguard>>

(* Throw unwinds the stacks to a handler in the first word of the task. *)
Recover(t) ==
  /\ caught[t].state = "caught"
  /\ caught' = [caught EXCEPT ![t] = None]
  /\ ptr' = [ptr EXCEPT ![t] = gforth_setstacks(task[t])]
  /\ UNCHANGED <<engine, mem, task, sigstack, dictguard>>

(* Mutant of FreeSize: the bottom of the locals stack is taken for the end. *)
FreeSize_short(k) == wholepage(k.lp0 - k.up) + 2 * SIGSTKSZ

(* The size gforth_free_stacks works out from the bottom of the last stack. *)
FreeSize(k) == wholepage(k.lp0 + PageSize - k.up) + 2 * SIGSTKSZ

(* The thread ends: gforth_free_stacks.  Memory that was not mapped is not *)
(* page-aligned, munmap fails, and the memory is lost.                     *)
gforth_free_stacks(t) ==
  /\ ptr[t].state = "run"
  /\ task' = [task EXCEPT ![t] = IF @.guards # {} THEN None ELSE [@ EXCEPT !.state = "lost"]]
  /\ mem' = IF task[t].guards = {} THEN mem
            ELSE [q \in DOMAIN mem |->
                    IF q \in Pages(task[t].up, FreeSize(task[t])) THEN "free" ELSE mem[q]]
  /\ ptr' = [ptr EXCEPT ![t] = None]
  /\ sigstack' = [sigstack EXCEPT ![t] = None]
  /\ caught' = [caught EXCEPT ![t] = None]
  /\ UNCHANGED <<engine, dictguard>>

Next ==
  \E t \in Tasks :
    \/ \E z \in Sizes : newtask4(t, z[1], z[2], z[3], z[4])
    \/ gforth_thread(t)
    \/ \E s \in Stacks, d \in Direction, n \in 1 .. MaxAccess : Access(t, s, d, n)
    \/ DictOverflow(t)
    \/ Recover(t)
    \/ gforth_free_stacks(t)

Spec == Init /\ [][Next]_vars

-----------------------------------------------------------------------------
(* The throw codes of overflow and underflow. *)
Reported ==
  [sp |-> [push |-> -3, pop |-> -4],        rp |-> [push |-> -5, pop |-> -6],
   fp |-> [push |-> -44, pop |-> -45],      lp |-> [push |-> -2058, pop |-> -2059],
   dictionary |-> [push |-> -8]]

(* A fault is reported as what it is, overflow or underflow of the stack   *)
(* whose pointer has left its pages, though segv_handler knows only the    *)
(* address and the bottoms of the stacks.                                  *)
FaultBlamed ==
  \A t \in Tasks :
    caught[t].state = "caught" => caught[t].code = Reported[caught[t].stack][caught[t].dir]

(* What gforth_go pushes for the backtrace lands on the return stack of    *)
(* the task, between its limits, whatever the program has done to rp.      *)
PushOnReturnStack ==
  \A t \in Tasks :
    caught[t].state = "caught" /\ caught[t].pushed # 0 =>
      /\ caught[t].pushed >= NEXTPAGE2(task[t].sp0)
      /\ caught[t].pushed < NEXTPAGE(task[t].rp0)
      /\ mem[Page(caught[t].pushed)] = "rw"

Owned(t) == IF task[t].state = "none" THEN {} ELSE Pages(task[t].up, task[t].total)

(* What a task has mapped is unmapped when it ends, all of it, and nothing *)
(* else: no page stays behind, and no page of another task goes away.      *)
FreedExactly ==
  /\ {p \in DOMAIN mem : mem[p] # "free"} = {1, 2} \cup UNION {Owned(t) : t \in Tasks}
  /\ \A t, u \in Tasks : t # u => Owned(t) \cap Owned(u) = {}

(* The alternate signal stack, on which segv_handler runs, is memory of    *)
(* the task that no stack pointer gets to without a fault.                 *)
SignalStackApart ==
  \A t \in Tasks : sigstack[t].state = "set" =>
    LET own == Pages(sigstack[t].base, sigstack[t].size)
    IN  /\ own \subseteq Owned(t) /\ \A p \in own : mem[p] = "rw"
        /\ task[t].guards # {} =>
             \E g \in task[t].guards : \A p \in own : Page(task[t].lp0 - 1) < Page(g) /\ Page(g) < p

Low(k, s) ==
  CASE s = "sp" -> NEXTPAGE3(k.up)  [] s = "rp" -> NEXTPAGE2(k.sp0)
    [] s = "fp" -> NEXTPAGE2(k.rp0) [] s = "lp" -> NEXTPAGE2(k.fp0)

(* Every stack of a new task holds what was asked of newtask4 for it, but  *)
(* for the items the engine keeps away.                                    *)
SizesAsAsked ==
  \A t \in Tasks : task[t].state = "made" /\ task[t].guards # {} =>
    \A s \in Stacks :
      Bases(task[t])[s] - Low(task[t], s) + StackCache + 1 >= task[t].asked[s]

=============================================================================
