# Verification of Gforth

TLA+ models of parts of Gforth, model-checked with TLC and, where a property
matters for every instance, proved with TLAPS. Source paths below are relative
to the repository.

## 1. Inventory

Gforth is a Forth system: a C engine (`engine/`) that executes virtual machine
code, a kernel image (`kernel/`) with the text interpreter, compiler and
dictionary, and libraries in Forth on top. Most of it is sequential; the state
that lives longer than one word, and the state that several tasks share, is
where orders of calls matter that nobody writes a test for.

| Component | State | Operations | Interacts with | What makes it correct |
|---|---|---|---|---|
| Block buffers (`blocks.fs`) | 32 direct-mapped buffers (block, file id, dirty flag, data), `block-fid`, `last-block`, file handles and positions, input frames of `load` | `open-blocks` `use` `block` `buffer` `update` `save-buffers` `empty-buffers` `flush` `load` `-->` `block-included` `bye` | C file I/O, text interpreter (source is `block`) | an update reaches its own block of its own file or stays pending; unchanged buffers show the file |
| Cooperative multitasker (`tasker.fs`) | doubly linked rings of user areas, the user pointer, saved stacks | `NewTask` `activate` `pass` `wake` `sleep` `pause` `stop` `kill` `kill-task` | key, emit, type call `pause` | no ready task drops out of the ring, no freed area stays linked, everybody gets a turn |
| Message queues (`unix/pthread.fs`) | a pipe per thread, `wake#` | `send-event` `stop` `stop-ns` `?events` `event-loop` `pause` `restart` `halt` `event-block` | POSIX pipes and threads | sending order, at-most-and-at-least-once execution, a request returns after its answer |
| Fork-join (`cilk.fs`) | list of free workers, `sync#` | `cilk-init` `spawn` `cilk-sync` `cilk-bye` | message queues | each subproblem once, sync after all, no worker left over |
| Optimizer (`engine/main.c`) | super table, automaton of labels, code areas, `dynamicinfos`, `ip_at` | `compile_prim1`, `gforth_compile_range`, `forget_dyncode3`, decompiling | compiler, markers | native code executes what was compiled, from every entry; the cheapest cover |
| Image files (`comp-i.fs`, `engine/main.c`) | images, relocation tags | comparing two dumps, `gforth_relocate` | engine, cross compiler | a relocated cell means what it meant |
| Start of the engine (`engine/main.c`) | C globals, sections in memory | `gforth_args` `open_image_file` `gforth_loader` `gforth_main` | image files, stacks | the first usable image, also in a second start |
| Stacks and faults (`engine/main.c`, `engine/signals.c`) | user areas, guard pages, signal stacks | `gforth_stacks` `gforth_free_stacks` `segv_handler` `gforth_go` | tasks, exceptions | the right stack is blamed, nothing else is overwritten or freed |
| Terminal and signals (`engine/io.c`, `engine/signals.c`, `engine/support.c`) | modes of the terminal, signal mask, characters put back | `key?` `key` `read-line` `system`, handlers | POSIX, exceptions | no key is lost, the terminal is restored, Ctrl-C gets through |
| Hashed dictionary (`hash.fs`) | bucket table, wordlist numbers, population counts | reveal, find, rehash, doubling | wordlists, markers | a search finds the newest word of that name in that wordlist, and no other |
| Task creation, semaphores (`unix/pthread.fs`) | thread ids, mutexes | `newtask4` `activate` `pass` `kill` `lock` `unlock` | stacks, C library | a task has the stacks it asked for |
| Wordlists, search order (`search.fs`, `kernel/int.fs`) | vocabulary chain, search order stack | `wordlist` `set-order` `find-name-in` | dictionary | |
| Exceptions (`except.fs`, `kernel/int.fs`) | chain of handlers, stack depths | `catch` `throw` `try` … `endtry` | everything | the innermost handler runs with its own depths |
| Input sources (`kernel/input*.fs`) | stack of input frames | `evaluate` `include` `load` `save-input` | exceptions | frames are popped exactly once |
| Sections, markers (`sections.fs`, `marker.fs`) | dictionary pointers | `set-section` `marker` | dictionary, native code | a marker restores all it saw |
| Forward references (`forward.fs`) | chains of unresolved calls | `forward`, resolution | compiler | every call is patched |
| Locals, control flow (`glocals.fs`, `kernel/cond.fs`) | locals list, control flow stack | `if` `then` `begin` `until` … | compiler | locals visible at a join are defined on every way to it |
| Primitives, Vmgen, cross compiler, C interface, editor, graphics, Android, boards, architectures | | | | not modelled; reasons in section 6 |

Hard behaviours: I/O that fails in the middle of a loop over buffers; a text
interpreter that fetches its source through the same buffers the program
edits; task switches in the middle of a word (`stop` is finished by another
task); threads that execute foreign code while they wait; counters that are
decremented by messages; a hash table that is rebuilt in the middle of its own
rebuilding; native code that leaves out whatever the optimizer believes to know
about ip and the stacks; signals that leave C code half done. `PROJECT.json` lists the hazards line by line.

## 2. Modules

| Module | Models | Composes |
|---|---|---|
| `BlockStore` | abstract: files of blocks, pending updates, write-back | |
| `Blocks` | `blocks.fs` but for `block-included` | instance of `BlockStore` (`StoreSpec`) |
| `BlockIncluded` | `block-included` | extends `Blocks` |
| `BlocksProofs` | theorems about `Blocks` | extends `Blocks` |
| `Tasker` | `tasker.fs` | |
| `TaskerProofs` | theorems about `Tasker` | extends `Tasker` |
| `Events` | message queues of `unix/pthread.fs` | |
| `EventsProofs` | theorems about `Events` | extends `Events` |
| `ForkJoin` | abstract: spawn, execute once, join | |
| `Cilk` | `cilk.fs` on message queues | instance of `ForkJoin` (`ForkJoinSpec`) |
| `CilkProofs` | theorems about `Cilk` | extends `Cilk` |
| `Selection` | super table, costs and labelling of basic blocks in `engine/main.c` | |
| `NativeCode` | code generation in `engine/main.c` | extends `Selection` |
| `NativeExec` | what native code does, and the properties of `NativeCode` | extends `NativeCode` |
| `Image` | `comp-i.fs`, relocation in `engine/main.c` | |
| `Startup` | start of the engine | extends `Image` |
| `StartupProofs` | theorems about `Image` and `Startup` | extends `Startup` |
| `Faults` | stacks, guard pages, faults | |
| `FaultsProofs` | theorems about `Faults` | extends `Faults` |
| `Terminal` | terminal, line input, signals | |
| `TerminalProofs` | theorems about `Terminal` | extends `Terminal` |
| `ReadLineProofs` | the theorem about the lines of `read_line` | extends `TerminalProofs` |
| `HashDict` | `hash.fs`, with wordlists and markers | |
| `MCBlocks`, `MCTasker`, `MCEvents`, `MCCilk`, `MCNative`, `MCStartup`, `MCFaults`, `MCTerminal`, `MCHashDict` | instances for TLC | |

Definitions marked "Mutant of" are faulty variants of the definition that
follows. No specification uses them; putting one in the place of its original
has to make TLC find the property violated that `PROJECT.json` pairs it with.

### Blocks

A buffer is the four fields of `buffer-struct` (`bufferBlock`, `bufferFid`,
`bufferDirty`, `blockBuffer`). Contents are abstract values: `Blank` is a block
of spaces, `Nul` a hole of a sparse file, `Torn` what a failed transfer leaves,
`Absent` behind the end of file. A file id is a handle with a file and a
position (in blocks), so that a seek through one handle and a write through
another are distinguished, and a closed handle can be handed out again.

Words that save buffers do one I/O call per step: `word` is the word at work,
`i`..`last` its loop over the buffers, `want` and `newFid` its arguments. No
client word runs in between, but every call may fail (`Faults`, at most
`MaxFaults` times) and throw; `Throw` then unwinds some of the input frames,
since any of them may be below a `catch`. `load` is the stack `input`; `Fetch`
is the `source` method, which calls `block` before every word that is
interpreted. `touched` is an auxiliary variable: the program has stored into
the buffer without an `update`. `Unassigned` stands for the cell -1, a number
above the limit. `open-blocks` is atomic up to the opened handle; the search
path and the creation of missing files are not distinguished. `close-file`
does not fail in the model.

`BlockIncluded` adds `block-included`, which is kept apart since it breaks the
invariants the other words keep (see the findings). A use of a closed `FILE*`
is undefined: the model lets it throw, crash, or appear to succeed.

### Tasker

`next` and `prev` are the first two cells of every user area and header,
`LinkTask` the stores of `link-task` in their order. `state` is auxiliary: what
the calls so far say about a task. `context` says that `save-task` holds the
task's own stacks (set by `activate`, `pause` and `stop`). Guards exclude calls
that have no defined effect in the code: waking a task that was never
activated, stopping or killing the only ready task, killing the running task by
`kill`, sleeping or waking oneself (waking makes the running task a ring of its
own and cuts all others off).

### Events

A task is a stack of the words it is in, because executing an event may send
(and wait for room in a pipe), stop, or call `event-block` itself. `stop` is a
frame that reads one event and turns into `?events`; `?events` reads as long as
there is something to read; `timed` is the wait of `stop-ns`. Events are
records of what the xt does; `Called` gives the words the xt calls, which are
put over `?events`. `sent`, `executed`, `answered` and `returned` are
auxiliary.

### Cilk

`word`, `serving` and `left` say where the invoker is; `pipe` holds the
announcements that wait for it, `inbox[w]` what waits for a worker. `workers`
and `sync` are the list and the counter; only the invoker changes them, while
it serves events in `stop`. `allocated` says that the string `workers` has been
allocated, which is what `cilk-init` tests. `pthread_join` of a detached thread
returns at once. The invoker is the only spawner, as the manual demands.

### Selection, NativeCode, NativeExec

The tables the engine computes from its compiled primitives (`priminfos`,
`super_costs`, `super2`) are the constant `Prims`: sequences of simple
primitives with stack states, ip offsets and lengths. `Selection` is functional
C code as operators: `prepare_super_table`, `lookup_super`, the costs, and
the labelling of a block with the automaton's states (`tpa_state_normalize`,
`lookup_tpa_state`, `transitions`). `NativeCode` turns a
definition into machine code, which is a sequence of fragments: bodies, ip
updates, dispatches, padding. One action compiles one definition, since nothing
interrupts it; what is shared between definitions (the areas, the last jump,
the automaton, `dynamicinfos`) is state. `NativeExec` walks through the
fragments as a processor would, with the stack state and the ip it has, and
compares with the threaded code: `CodeRuns` is stated without any reference to
how the code was generated. `OptimalCover` compares the selection with `Best`,
the minimum over all covers. `Forget` is a marker as it is executed, with the
code kept; `ForgetCode` also calls `forget_dyncode3`; `kept` says that the
former has happened. The options are those of the command line that selection
and generation look at, `--no-super` included. `gforth_alloc` delivers
`MaxAreas` areas; after that generation goes on with no room (`lost`). When
memory is lost, a block does not fit, code runs over the end of its area, or ip
updates are appended for ever, the state is `Ended`: the process has stopped at
the assertion of `optimize_rewrite`, hangs, or has written where it should not,
and is not followed any further. The lengths, loads and stores of the table in `MCNative` are invented,
in proportion to what the primitives need on amd64.

### Image, Startup

What a cell stands for (a number, an address, a primitive, a doer) is kept
apart from the number that the cell holds, so that `LoadedRight` can compare
the meaning before and after. `comp_image` compares two dumps cell by cell,
`gforth_relocate` undoes this for one engine. Every section has a base: 0, or
256 for the cross compiler, means that there are relocation bits; any other
base, as `dump-fi` writes it, is the address that the section has to be at, and
relocation stops at the first section without bits. A file records how it was
made (`maker`), so that `FilesAssumption` can say what the tools are given:
`Comparable` dumps, `Crossable` contents, `Dumpable` systems.

Startup has one action per stage of `gforth_start` and `gforth_main`; the C
globals, options among them, are the record `c` and survive into the second
start, where only the options that are given are set again. A command may have a
size that `convsize` rejects. Files to search are given by their units of 8
bytes, so that `checkimage` finds the first magic and then compares it; a name
with a directory is tried alone, and the program's directory only if its name
tells one. `set_stack_sizes` rounds each of the five sizes up to whole floats.
A file may end early (`cut`): in the header (what is missing is `Garbage`), in
relocation bits or the cells of a section, or between two sections; the loader
breaks out and goes on with what it has, and so does the model. Mapping
executable memory may be denied, in which case the engine goes on without
dynamic code. `check_prims` and `prepare_super_table` are there as far as they
set or assert a global: the former is skipped or gives up for some engines, the
latter aborts when an earlier start has left its ip update.

### Faults

Addresses are numbers, in cells; `mem` gives the state of every page. A
primitive moves a stack pointer and accesses memory there; an access to a guard
page faults. `segv_handler` sees what it sees in the code: the address, and the
bottoms of the stacks of the running task.

### Terminal

`pc` stands between two steps of the C code that a signal can tell apart;
signals arrive at any of them. `hits` remembers that a signal has come in one
of the windows that the code leaves open: while modes are being changed
("mode"), while SIGINT is blocked ("mask"), and between the list of streams
with a character put back and the character ("char"). The properties say what
holds outside these windows.

### HashDict

`stack` holds what is left to do of the words being executed, since
`hashdouble`, `addall`, `inithash`, `(reveal` and `hash-alloc` call each other:
a step goes up to the next call. The linked lists (`wl`) are what the program
has defined; the table has to follow. Markers cut lists and have the table
rebuilt.

## 3. Runs

| Run | Instance | Shows |
|---|---|---|
| `blocks_io` | 2 files, 2 handles, 2 buffers, 3 blocks (0 and 2 share a buffer), one failure of any kind | `TypeOK`, `BuffersBelong`, `StoreSpec` |
| `blocks_load` | 1 file with offset 2, block limit 5, `load` nested once, one failing write | `Coherent`, `StoreSpec` |
| `tasker` | 5 tasks | `TypeOK`, `Rings`, `OneRing`, `EveryoneRuns` |
| `events` | 2 threads, 2 operations each, pipes of 5 | `SendingOrder`, `AnswerFirst`, `BlockReturns`, `Delivered` |
| `cilk` | 2 cores, 4 threads (two generations), 3 subproblems | `Counted`, `ListedIdle`, `NoStrays`, `ForkJoinSpec`, `WordsReturn`, `WorkDone` |
| `native` | 26 primitives and variants, 2 stack states, 9 settings of the options, definitions of up to 4 instructions, a second definition, 2 areas, 1 marker | `CodeRuns`, `OptimalCover`, `AreasHold`, `DecompileRight` |
| `startup` | 4 engines, images of one and two sections, whole and cut at every kind of place, 4 searches, 2 starts | `LoadedRight`, `FirstUsable`, `SizesAgree` |
| `faults` | 2 tasks, pages of 6 cells, stacks of whole and broken pages, both engines | `FaultBlamed`, `PushOnReturnStack`, `FreedExactly`, `SignalStackApart` |
| `terminal` | 2 keys, 4 files, lines of 2, 2 signals | `KeysConserved`, `LinesRight`, `LookaheadKnown`, `TerminalRestored`, `InterruptsOpen`, `InterruptDelivered` |
| `hash` | 10 words, 3 wordlists, 1 marker, table of 4 | `FindRight`, `NoDangling`, `RebuildEnds` |
| `blocks_included` | as `blocks_io`, with `block-included` | violated: `WritesToItsBlock` |
| `hash_marker` | as `hash`, with 2 markers | violated: `NoDangling` |

Bounds. Two buffers and block numbers that collide are enough for every
eviction; two handles for every switch between an old and a new file, and for
reuse of a closed one; one failure leaves every partial state a throw can
leave, and the proofs cover any number. The offset run needs blocks below the
offset, at the limit and behind the end of the file: 0, 1, 2, 4 with a limit of
5. With five tasks the running ring, the sleepers and their neighbours are all
distinct. A pipe of 5 never fills up with the events that two operations of
each thread can cause, as a real pipe (thousands of events) does not in a sane
program; a full one makes `send-event` wait, which the hazards discuss. Three
subproblems on two workers make `spawn` wait for a worker; four threads allow
`cilk-init` after `cilk-bye`. In `events` the threads may all
wait in `stop`: there deadlock is not an error.

`native`: the table has every kind of instruction the selection tells apart
(superinstructions, two stack states with transitions, a variant with lagging
ip, conditional branches to ip, a primitive that cannot be copied, ip updates
in both directions up to 2, so that longer distances need several); blocks
longer than `MAX_BB` (3) are split, areas of 27 units run full, a second
definition meets the automaton, the areas and the infos of the first; the
definitions end at `MaxHere`. Primitives differ in the loads and stores they
need, so that the metric `lsu` chooses another cover than code size does; of
this setting `AreasHold` demands only that code stays inside. `--no-super` is
in the run with the ip-update optimizations off and one stack state,
`--opt-ip-updates=2` with the definitions it can compile. The default options,
with and without superinstructions, have all definitions of two instructions
and longer ones; the other settings have fewer, with every kind of branch, and
primitives that can and cannot be copied. `startup`:
the second section makes tokens with section numbers, the second start meets
the globals of the first; an engine with one primitive more in the first group
makes numbers differ from those of the image; sizes on the command line and in
the header are multiples of a float (4) and not. `faults`: a primitive moves a pointer by at most 2 cells, less than
`SPILLAGE` (3), as in the code, where pages are far larger than both. `terminal`: two signals
are enough for a second one during the handling of what the first has left;
the files have every line end, at the end of file and at the end of the buffer.
`hash`: with hashbits 2 the table doubles after four wordlist numbers or eight
words, so within ten words it doubles from `(reveal` of the program, from
`inithash`, and during rebuilding. Three wordlists are what the table can number
without doubling it for the number alone; with four `FindRight` is false
(`MCHashNumbers.cfg`), and so the claim of run `hash` is limited to fewer wordlists
than the table has buckets. `native`, `startup`, `faults` and `terminal`
come to an end (bounds reached, process exited): no deadlock check there.

Fairness. `tasker`: `WF(Pause)`, the running task calls `pause` again and
again, which is what cooperative means; `EveryoneRuns` also assumes that waking
comes to an end, since `wake` puts a task in front of the others. `events`:
weak fairness of every thread's word (threads are preemptive) and of coming
back to the queue (`event-loop`, `key` and `pause` do). `cilk`: weak fairness
of the invoker's words and of every worker; subproblems terminate. Nothing is
assumed about what programs call. Liveness that depends on more is stated with
its exception: `BlockReturns` exempts a task that was restarted or halted.
`terminal`: C code goes on (`WF(Step)`), and a pending signal that is
repeatedly unblocked is delivered (`SF(Deliver)`; POSIX promises more, delivery
before `sigprocmask` returns). `hash`: a word that has been called goes on
(`WF(Step)`).

## 4. Proofs

`BlocksProofs` (any number of buffers, files, handles, blocks, any offset,
failures, nesting):

- `BlocksInvariant`: `BlocksInv == TypeOK /\ BuffersBelong /\ LoopInv` is
  inductive. `BuffersBelong` alone is not: that `open-blocks` may switch files
  rests on all buffers below `i` being clean and on `newFid` being open and
  different from `block-fid`; that `block` may overwrite its victim rests on
  the victim being clean after `save-buffer`. `LoopInv` says this.
- `TypeCorrect`, `AssignedBelong`: the two named parts.
- `CoherentBuffers`: if `"read" \notin Faults`, `Coherent` holds. With
  failing reads it does not (section 5).
- `BlocksImplementStore`: `Spec => StoreSpec`, for all faults. A successful
  `save-buffer` is `WriteBack`, a failed one `Tear` or `Proceed`, `update` and
  stores are `Change`, `empty-buffers` is `Discard`; because a buffer belongs
  to the current file, the seek and the write go through the same handle, so
  what is written is the place the pending update belongs to.

`TaskerProofs` (any set of tasks): `TypeCorrect` and `TaskRings`, that `TypeOK`
and `Rings` are invariant, from the inductive `TaskerInv == TypeOK /\ Rings`.
The argument is about one relink: unlinking leaves rings of one kind, inserting
into a ring makes the node of its kind; `stop` and `kill-task` act on
`prev[next[up]]`, which is `up` because the ring is doubly linked.
`OneRingOfEachKind`, that there is *one* ring of each kind, has `Whole` as its
strengthening: a set of nodes that holds a node of a kind and is closed under
`next` holds all nodes of that kind. This needs no count of steps along the
ring: from a set that is closed after a relink, one that was closed before it
is made by adding or removing the node that was moved.

`EventsProofs` (any set of tasks, size of pipes, length of programs):

- `OrderInvariant`, `EventsInOrder`: `SendingOrder`, from `OrderInv == Types /\
  SendOnTop /\ Behind /\ SendingOrder`. It rests on a task that is in
  `send-event` being in no word called from there, so that an event cannot be
  overtaken by one that the same task sends later. Stated for `NestedSpec`,
  where an event may itself call `event-block`; `Spec` implies it.
- `AnswerInvariant`, `AnswersComeFirst`: `AnswerFirst`, for `Spec`. The
  strengthening follows a request around: as long as a task waits, there is at
  most one request or answer of its own on its way, in one pipe or in the hands
  of one sender (`Carried`, `Queued`, `OneToken`), with the number the task
  waits for, and when `wake#` equals that number the answer has come
  (`Blocks`). The number is one more than `wake#` was, and a plain restart
  stores 0, which is never awaited. Under `NestedSpec` this is false (section 5).

`CilkProofs` (any set of workers, number of cores, number of subproblems):
`CilkInv == TypeOK /\ Queued /\ AwayCounted /\ Lifecycle /\ JobsOnce` is
inductive (`CilkInvariant`). A worker is in the list, in the pipe, or has
something to do, and never two of these (`Queued`); `sync#` is the number of
those that work and are not in the list, up to the one `spawn` or
`start-workers` is about to count (`AwayCounted`); whoever has nothing
allocated has no workers (`Lifecycle`); a subproblem is unsent, with one worker
or done once (`JobsOnce`). From it follow `SyncCounts`, `ListIsIdle`,
`ByeLeavesNobody` and the refinement `CilkImplementsForkJoin`: `spawn` is the
spawn, a worker's execution the execution, the return of a sync the join, and
every other step stutters, since `sync# = 0` means that no subproblem is unsent
or with a worker.

`TerminalProofs` (any input and files, any size of lines, any number of signals
at any place): `TerminalInv == Types /\ Hands /\ Modes /\ Mask /\ Known /\
KeysConserved` is inductive (`TerminalInvariant`). Each part says what holds at
every place of the C code as long as no signal has come in its window (`hits`);
`Mask` needs `Modes`, and `KeysConserved` needs `Known`, that a noted lookahead
is there. From it `NoKeyLost`, `LookaheadIsKnown`, `InterruptsAreOpen`, and
`TerminalIsRestored` under `~ShellRestores`; with a shell that restores the
modes of a job it continues, it is false (section 5).

`ReadLineProofs` (the same constants): `LinesAreRight`, from `ReadLineInv`, which
adds that the characters in hand are the beginning of a line (`HandLine`) and
that the lines delivered, with the lines from position `u3` on, are those of the
file (`Lines`). The lines of a text are a recursive function of the position;
that it satisfies its equation is proved from the least-number principle
(lemma `LeastNumber`), which needs no operator as a parameter.

`FaultsProofs` (any page size, size of memory, number of tasks, sizes of the
stacks): `FaultsInv` is inductive (`FaultsInvariant`). It describes what
`gforth_stacks` lays out by the numbers of the guard pages (`Shape`), where the
bottoms are relative to them (`LastPages`), and where the pointers of a running
task may be (`Inside`: between the guards of their stacks). The rest is page
arithmetic: `NEXTPAGE` and its variants applied to a bottom give the page of the
guard the handler means. From it `MemoryIsFreed`, `PushesStayOnReturnStack` and
`SignalStackIsApart` for all sizes. `FaultsAreBlamed` has the hypothesis
`Roomy`: sizes whose last page holds what the fast engine keeps away from the
top (the cached stack items, one return address, one FP item). Whole pages, the
default, are `Roomy`, and so are the sizes of the run; without it the theorem is
false (section 5). The debugging engine rounds up and needs only the first and
the third size not to be 0.

`StartupProofs` (any contents in any number of sections, any places of them, any
engines that provide the primitives of the image, any number of starts):

- Sums: `GroupStart` and what `SumGroups` makes of `groups` are recursive
  functions; that they satisfy their equations, grow and agree is proved by the
  least-number principle. Hence `groups[g]` is the number of primitives in front
  of group `g`, and summing up again changes nothing, since the last entry is
  no longer 0 (`SumOnce`, `SumAgain`): this is what keeps a second start right.
- Tokens: group, number and the two bits of a tag are read back as they were
  written, as 9 bits suffice for a number and 5 for a group (`XtParts`, ...), and
  `RelocPrim` turns a token into the reference it came from (`TokenBecomes`).
- `Encoded` says how a cell with given contents is written. `ComparedIsEncoded`:
  comparing two `Comparable` dumps encodes every cell. The order of the tests in
  `compare-section` matters: an address is in one section of both dumps, at the
  same offset, a reference to the engine is in none, and it moves by the offset
  of its own table only. `CrossIsEncoded`: so does the cross compiler.
- `RangeRight`: `gforth_relocate_range` turns an encoded cell into its meaning
  in the engine at hand, and finds the cells to compile and the targets.
- `StartupInvariantHolds`: `StartupInvariant == Types /\ Searched /\ SizesKept /\
  Relocated` is inductive. `FirstUsable` needs what the search has refused so
  far; `SizesAgree` that between the two calls of `set_stack_sizes` the sizes are
  rounded up already and none is 0 that was given, so that the second call
  changes only the header; `LoadedRight` how far loading has come, that between
  relocation and running neither the sections nor the engine change, and that
  the checksum was compared. For a dump it needs that the sections before the
  one at hand were found at their addresses, since there is no relocation. From
  it `FirstImageIsTaken`, `SizesAlwaysAgree` (what is mapped is what the header
  says, and the size asked for rounded up, for any `FloatSize`) and, with the
  above, `ImageMeansTheSame`, which covers the sections that a cut file still
  has.

Assumptions: the named `ASSUME`s of `Blocks` (at least one buffer; the mark of
an unassigned buffer is not below the limit; null values are distinct from
values), `Tasker` (headers are not tasks), `Events` (a pipe holds an event),
`Cilk` (the message to leave is no subproblem), `Terminal` (types of the
constants) and `Faults` (a primitive moves a pointer by at most `SPILLAGE`, two
of which fit into a page; the signal stack is of whole pages; fewer stack items
are cached than `SPILLAGE`: 128 bytes against pages of 4 KB and more). For images and the start
(`ImageAssumption`, `StartupAssumption`, `FilesAssumption`,
`EnvironmentAssumption`): a group has at most 512 primitives, of which an engine
has fewer than 31 groups; the engines have all primitives of the engine an image
was made with, in the same place; the two dumps are of one system, with every
section at another address (`check-sections` asserts it) and the three tables
moved by three different offsets (what `--offset-image` is for), or not moved;
a dumped section is at no address that means that it is relocatable; a file does
not end inside the cells of the first section, which are read with the header;
in a dump no section, with the address behind its last cell, touches another one
or a table, as `sect-reloc` counts that address as part of the section; only the
engine an image with a checksum was made with has this checksum. The last one
is needed: on the doubly indirect engine the checksum is the address of one
table, `gforth_loader` compares nothing else, and an image with references to
the tables as they are has to find all three of them, and the same primitives.
TLC evaluates all of them in the runs.

Only model-checked:

- everything about liveness (`EveryoneRuns`, `BlockReturns`, `Delivered`,
  `WordsReturn`, `WorkDone`, `InterruptDelivered`, `RebuildEnds`): temporal
  reasoning under fairness is out of reach of the provers;
- `CodeRuns`, `OptimalCover` and the other properties of `NativeExec`: they
  execute code, or compare with a minimum over all covers, by recursion over
  the code. `DecompileRight` does not, but rests on the labels of
  `Selection`: that an instruction was selected that starts where it should and
  ends within the block. A label means this only if its cost is not `INF_COST`,
  which sums of costs could reach for large enough constants;
- `FindRight` and `NoDangling` of `HashDict`: the table is indexed by exclusive
  or of bit patterns, for which the provers have no theory. Neither holds for
  all constants (section 5), so that a theorem needed bounds like those of the
  run.

## 5. Findings

With a run that ends in a violation (details in `PROJECT.json`):

- `blocks_included`: a write-back during `block-included` can hit another block
  (`blocks.fs:124`).
- `hash_marker`: a marker that is executed after another one leaves forgotten
  words in the hash table (`hash.fs:159`).

With a configuration of their own, whose property TLC finds violated; the
passing runs exclude these cases, and the comments of their properties say so:

- `MCHashNumbers.cfg`, `FindRight` with four wordlists: `hash-alloc` takes a
  number and then calls `hashdouble`, which numbers all wordlists anew; two of
  them can share a number from then on, and searching one finds words of the
  other (`hash.fs:190`; `search-wordlist` is to "Search the word list identified
  by @i{wid}", `kernel/int.fs:325`).
- `MCNativeIp.cfg`, `IpUpdatesEnd`: at levels 1 and 2 of `--opt-ip-updates`,
  which the manual documents (`doc/gforth.texi.in:1070`), `max_ip_update` stays
  0 (`main.c:1237`), and `append_ip_update1` appends updates by 0 cells for ever
  (`main.c:1353`).
- `MCNativeMetric.cfg`, `BlocksFit`: with another metric than code size the
  cover can be longer than the estimate of `reserve_code_super` ("only safe if
  we optimize for code size (the default)", `main.c:1525`), and a block runs out
  of its area, where `optimize_rewrite` asserts that it does not (`main.c:2097`).
- `MCNativeBranch.cfg`, `CodeInside`: the estimate, and the reservation of
  `append_prim` (`main.c:1453`), leave out the ip updates around a branch to ip
  (`main.c:1476`). How much they take is a matter of the machine; with the
  proportions of `MCNative` code goes beyond the end of its area.
- `MCNativeNoSuper.cfg`, `CodeRuns`: `--no-super` makes every primitive a
  superend (`main.c:1144`), and for a branch to ip the update that was to be
  suppressed (`main.c:1481`) is appended (`main.c:1493`): the branch goes to the
  instruction behind it, taken or not. Transitions get a dispatch that skips an
  instruction, and the estimate leaves out the dispatches.
- `MCNativeNoEquiv.cfg`, `OptimalCover`: `--tpa-noequiv` with superinstructions
  compares costs that are relative to different ends (`main.c:2004`); the cover
  is not the cheapest ("we should be able to use an automaton without state
  equivalence", `main.c:1012`).
- `MCStartupNoexec.cfg`, `NoDynamicKept`: `no_dynamic` is restored after loading
  (`main.c:2452`), though mapping has switched it off (`main.c:714`).
- `MCStartupAgain.cfg`, `NoAbort`: `prepare_super_table` asserts of a global that
  nothing resets that it is 0 (`main.c:961`); a second start in one process
  (`gforth_make_image`) of an engine with native code stops there.

The following are behaviours of the models, and of the code as far as it is
read here, that the passing runs exclude by a bound, a guard or an exception.
Each can be seen by changing one line of a configuration.

| Behaviour | To see it |
|---|---|
| A failed read leaves garbage in a buffer that keeps its old block number (`blocks.fs:172`) | `Coherent` in `MCBlocksIO.cfg` |
| `flush update` marks an unassigned buffer; the `flush` of `bye` then throws and loses updates (`blocks.fs:117`) | `ByeSaves` in `MCBlocksIO.cfg`, with `Requests = {0, 1}` |
| An answer to `event-block` is lost behind a `restart` (`pthread.fs:402`) | `AnswerNoticed` (temporal) in `MCEvents.cfg` |
| Nested `event-block`s share a wake number (`pthread.fs:399`) | `NestedSpec` with `AnswerFirst` in `MCEvents.cfg` |
| Executing a marker keeps the infos of forgotten native code: `forget-dyncode`, on which `marker.fs:109` depends, is not defined; the decompiler then shows the old primitive | `DecompileRight` without `~kept` |
| `newtask4` takes the sizes in the order data, return, FP, locals, `gforth_stacks` takes data, FP, return, locals (`pthread.fs:230`, `main.c:2855`; the prototypes in `forth.h` and `libcc.h` have the order of `newtask4`) | `SizesAsAsked` in `MCFaults.cfg` |
| A stack a few cells larger than whole pages: the fast engine keeps items away from its top, the bottom falls on the page before the last, and `segv_handler` reports -9 instead of an underflow (`main.c`, `gforth_stacks`) | size 7 in `MCSizes` with `FaultBlamed` in `MCFaults.cfg` |
| `--die-on-signal` survives the first signal (`signals.c:65` tests the count before incrementing it) | `DiesOnSignal` in `MCTerminal.cfg` |
| SIGCONT with the terminal still raw: the raw modes are saved as those to restore at exit (`signals.c:267`) | `ShellRestores = TRUE` in `MCTerminal.cfg` |

Also seen: the manual (doc/gforth.texi.in:11827) says that block buffers are
not used by `load`, but `source` calls `block` and moves `last-block`.
`gforth_make_image` ignores a failing start and goes on to compare what is
there (`main.c:3087`).

## 6. Plan

1. Prove: of `NativeCode` that the decompiler sees what was compiled, from a bound
   on the costs and the labels of `Selection` as an invariant of the automaton;
   action properties
   that follow from the invariants proved (a block is written by its own file
   only, a request is answered once).
2. Extend: exceptions with input frames, the search order, sections, forward
   references, merging of locals lists.

### Not modelled

- Primitives, assemblers, disassemblers, Vmgen, the cross compiler, the C
  interface and generated bindings: translators and small functions without
  state that outlives a call; their tests reach them.
- `check_prims`: it finds out which primitives can be copied by comparing the
  machine code of two compilations, an input of the model (`Prims`). `Startup`
  has what it does to the globals.
- Options for output and for signals in the start; `--ss-greedy` is accepted
  by the engine, but nothing reads it. `GFORTHPATH` is part of `Paths`.
- What happens after memory has run out or was overwritten in code generation
  (`Ended`), and after memory for code was obtained that cannot be executed.
- Image files that end inside the cells of the first section, dumps of other
  engines than the doubly indirect one, and more sections than a token can
  number (254).
- The Android application (`engine/androidmain.c`, `Gforth.java`): the order of
  its events is that of a framework that is not in the repository. Seen while
  reading: `unpackFiles` ignores the outcome of `zexpand` and writes the
  checksum file all the same, so that an incomplete unpacking is not repeated.
- Drivers for the Beagle board and the NXT brick (`arch/arm/beagle`,
  `arch/arm/nxt`), from U-Boot and leJOS, the former's USB terminal disabled in
  its configuration; register definitions; freetype-gl; GNU getopt, fnmatch and
  longlong.h; output of flex and bison in the Vmgen examples. Much of the C
  code of the repository by lines is of these kinds.
- Editing of the command line, history and graphics: layout and display.
