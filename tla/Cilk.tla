------------------------------- MODULE Cilk -------------------------------
(***************************************************************************)
(* The fork-join framework of cilk.fs on top of the message queues of      *)
(* unix/pthread.fs.  One task, the invoker, spawns subproblems; a worker   *)
(* announces itself by an event that the invoker executes when it stops,   *)
(* gets a subproblem as an event of its own, and announces itself again.   *)
(*                                                                         *)
(* The list workers and the counter sync# are only touched by the invoker, *)
(* but between what it does and what the workers do every interleaving is  *)
(* possible.                                                               *)
(***************************************************************************)
EXTENDS Integers, Sequences, FiniteSets

CONSTANTS
  Workers,    \* the threads that worker-thread can create
  cores,      \* number of workers to use
  MaxJobs,    \* bound on the subproblems that the program spawns
  Bye         \* the event that ends a worker

ASSUME CilkAssumption ==
  /\ cores \in Nat /\ MaxJobs \in Nat
  /\ Bye \notin Nat

VARIABLES
  word,       \* the word of cilk.fs the invoker is in, or "idle"
  serving,    \* "stop" or "?events" when the word waits for events, else "no"
  left,       \* iterations left of the loop in start-workers or cilk-bye
  workers,    \* the workers that have announced themselves
  allocated,  \* the string workers is allocated
  sync,       \* sync# of the invoker
  pipe,       \* the events that wait for the invoker: announced workers
  state,      \* state[w]: what worker w is doing
  job,        \* job[w]: the subproblem it has received last
  inbox,      \* inbox[w]: the events that wait for w
  spawned,    \* number of subproblems spawned so far
  runs        \* auxiliary: how often each subproblem has been executed

invokerVars == <<word, serving, left, workers, allocated, sync>>
workerVars  == <<state, job, runs>>
vars == <<invokerVars, pipe, workerVars, inbox, spawned>>

Jobs == 1 .. MaxJobs

Init ==
  /\ word = "idle" /\ serving = "no" /\ left = 0
  /\ workers = <<>> /\ allocated = FALSE /\ sync = 0
  /\ pipe = <<>> /\ inbox = [w \in Workers |-> <<>>]
  /\ state = [w \in Workers |-> "new"]
  /\ job = [w \in Workers |-> 0]
  /\ spawned = 0 /\ runs = [j \in Jobs |-> 0]

New == {w \in Workers : state[w] = "new"}
Max1(n) == IF n < 1 THEN 1 ELSE n

-----------------------------------------------------------------------------
(* The worker: announce, stop, and in stop whatever events there are.      *)

(* +worker, called by the worker itself. *)
Announce(w) ==
  /\ state[w] = "announce"
  /\ pipe' = Append(pipe, w)
  /\ state' = [state EXCEPT ![w] = "stop"]
  /\ UNCHANGED <<invokerVars, inbox, spawned, job, runs>>

(* Mutant of Receive: the end is taken for a subproblem. *)
ReceiveOn(w) ==
  /\ state[w] \in {"stop", "?events"} /\ inbox[w] # <<>>
  /\ inbox' = [inbox EXCEPT ![w] = IF Head(@) = Bye THEN @ ELSE Tail(@)]
  /\ IF Head(inbox[w]) = Bye THEN UNCHANGED <<state, job>>
     ELSE /\ state' = [state EXCEPT ![w] = "running"]
          /\ job' = [job EXCEPT ![w] = Head(inbox[w])]
  /\ UNCHANGED <<invokerVars, pipe, spawned, runs>>

(* (stop): the worker reads a subproblem or its end. *)
Receive(w) ==
  /\ state[w] \in {"stop", "?events"} /\ inbox[w] # <<>>
  /\ inbox' = [inbox EXCEPT ![w] = Tail(@)]
  /\ IF Head(inbox[w]) = Bye
     THEN state' = [state EXCEPT ![w] = "gone"] /\ UNCHANGED job
     ELSE /\ state' = [state EXCEPT ![w] = "running"]
          /\ job' = [job EXCEPT ![w] = Head(inbox[w])]
  /\ UNCHANGED <<invokerVars, pipe, spawned, runs>>

(* The subproblem has been executed. *)
Execute(w) ==
  /\ state[w] = "running"
  /\ runs' = [runs EXCEPT ![job[w]] = @ + 1]
  /\ state' = [state EXCEPT ![w] = "?events"]
  /\ UNCHANGED <<invokerVars, pipe, inbox, spawned, job>>

(* stop returns. *)
Again(w) ==
  /\ state[w] = "?events" /\ inbox[w] = <<>>
  /\ state' = [state EXCEPT ![w] = "announce"]
  /\ UNCHANGED <<invokerVars, pipe, inbox, spawned, job, runs>>

Worker(w) == Announce(w) \/ Receive(w) \/ Execute(w) \/ Again(w)

-----------------------------------------------------------------------------
(* stop of the invoker: wait for an event, then execute all there are.     *)

(* Mutant of Listed: the worker is counted but not listed. *)
ListedNot ==
  /\ serving # "no" /\ pipe # <<>>
  /\ sync' = sync - 1 /\ allocated' = TRUE
  /\ pipe' = Tail(pipe)
  /\ serving' = "?events"
  /\ UNCHANGED <<word, left, workers, workerVars, inbox, spawned>>

(* The event that +worker has sent: list the worker, count it as done.     *)
Listed ==
  /\ serving # "no" /\ pipe # <<>>
  /\ workers' = Append(workers, Head(pipe)) /\ allocated' = TRUE
  /\ sync' = sync - 1
  /\ pipe' = Tail(pipe)
  /\ serving' = "?events"
  /\ UNCHANGED <<word, left, workerVars, inbox, spawned>>

Served ==
  /\ serving = "?events" /\ pipe = <<>>
  /\ serving' = "no"
  /\ UNCHANGED <<word, left, workers, allocated, sync, pipe, workerVars, inbox,
                 spawned>>

Stop ==
  /\ serving' = "stop"
  /\ UNCHANGED <<word, left, workers, allocated, sync, pipe, inbox>>

(* pause, or a stop of the program for other reasons, between two words.   *)
Pause ==
  /\ word = "idle" /\ serving = "no"
  /\ serving' = "?events"
  /\ UNCHANGED <<word, left, workers, allocated, sync, pipe, workerVars, inbox,
                 spawned>>

(* The invoker takes the next step of w. *)
At(w) == word = w /\ serving = "no"

(* Where the step goes on. *)
Goto(w) == word' = w /\ UNCHANGED serving

-----------------------------------------------------------------------------
(* cilk-init, when no worker has been started since the last cilk-bye.     *)
CilkInit ==
  /\ At("idle") /\ ~allocated /\ Cardinality(New) >= Max1(cores)
  /\ Goto("start-workers") /\ left' = Max1(cores)
  /\ UNCHANGED <<workers, allocated, sync, pipe, workerVars, inbox, spawned>>

(* worker-thread, then 1 sync# +! *)
WorkerThread ==
  /\ At("start-workers") /\ left > 0
  /\ \E w \in New : state' = [state EXCEPT ![w] = "announce"]
  /\ Goto("started")
  /\ UNCHANGED <<left, workers, allocated, sync, pipe, inbox, spawned, job, runs>>

CountStarted ==
  /\ At("started")
  /\ Goto("start-workers") /\ left' = left - 1 /\ sync' = sync + 1
  /\ UNCHANGED <<workers, allocated, pipe, workerVars, inbox, spawned>>

AllStarted ==
  /\ At("start-workers") /\ left = 0
  /\ Goto("init-sync")
  /\ UNCHANGED <<left, workers, allocated, sync, pipe, workerVars, inbox, spawned>>

(* Mutant of SyncStep: one worker may still be at work. *)
SyncStepEarly ==
  /\ At("cilk-sync") \/ At("init-sync") \/ At("bye-sync")
  /\ IF sync > 1 THEN Stop
     ELSE /\ IF word = "bye-sync" THEN Goto("cilk-bye") /\ left' = Len(workers)
                                  ELSE Goto("idle") /\ UNCHANGED left
          /\ UNCHANGED <<workers, allocated, sync, pipe, inbox>>
  /\ UNCHANGED <<workerVars, spawned>>

(* cilk-sync, called by the program, by start-workers and by cilk-bye:     *)
(* stop while sync# is positive.                                           *)
CilkSync ==
  /\ At("idle")
  /\ Goto("cilk-sync")
  /\ UNCHANGED <<left, workers, allocated, sync, pipe, workerVars, inbox, spawned>>

SyncStep ==
  /\ At("cilk-sync") \/ At("init-sync") \/ At("bye-sync")
  /\ IF sync > 0 THEN Stop
     ELSE /\ IF word = "bye-sync" THEN Goto("cilk-bye") /\ left' = Len(workers)
                                  ELSE Goto("idle") /\ UNCHANGED left
          /\ UNCHANGED <<workers, allocated, sync, pipe, inbox>>
  /\ UNCHANGED <<workerVars, spawned>>

(* Mutant of TakeWorker: the worker stays in the list. *)
TakeWorkerKeeps(event) ==
  IF workers = <<>> THEN Stop
  ELSE /\ inbox' = [inbox EXCEPT ![Head(workers)] = Append(@, event)]
       /\ UNCHANGED <<workers, allocated, sync, pipe>>

(* worker@: the first worker of the list gets the event; when the list is  *)
(* empty, stop until somebody has announced itself.                        *)
TakeWorker(event) ==
  IF workers = <<>> THEN Stop
  ELSE /\ workers' = Tail(workers)
       /\ inbox' = [inbox EXCEPT ![Head(workers)] = Append(@, event)]
       /\ UNCHANGED <<allocated, sync, pipe>>

(* spawn, also in spawn1 and spawn2; the program has called cilk-init.     *)
Spawn ==
  /\ At("idle") /\ allocated /\ spawned < MaxJobs
  /\ Goto("spawn") /\ spawned' = spawned + 1
  /\ UNCHANGED <<left, workers, allocated, sync, pipe, workerVars, inbox>>

SpawnStep ==
  /\ At("spawn")
  /\ TakeWorker(spawned)
  /\ workers # <<>> => Goto("spawned") /\ UNCHANGED left
  /\ UNCHANGED <<workerVars, spawned>>

(* Mutant of CountSpawned: the subproblem is not counted. *)
CountSpawnedNot ==
  /\ At("spawned")
  /\ Goto("idle")
  /\ UNCHANGED <<left, workers, allocated, sync, pipe, workerVars, inbox, spawned>>

CountSpawned ==
  /\ At("spawned")
  /\ Goto("idle") /\ sync' = sync + 1
  /\ UNCHANGED <<left, workers, allocated, pipe, workerVars, inbox, spawned>>

(* cilk-bye: sync, send every listed worker its end, free the list.  The   *)
(* threads are detached, so the pthread_join in (kill) waits for nothing.  *)
CilkBye ==
  /\ At("idle")
  /\ Goto("bye-sync")
  /\ UNCHANGED <<left, workers, allocated, sync, pipe, workerVars, inbox, spawned>>

ByeStep ==
  /\ At("cilk-bye") /\ left > 0
  /\ TakeWorker(Bye)
  /\ workers # <<>> => Goto("cilk-bye") /\ left' = left - 1
  /\ UNCHANGED <<workerVars, spawned>>

ByeEnd ==
  /\ At("cilk-bye") /\ left = 0
  /\ Goto("idle") /\ workers' = <<>> /\ allocated' = FALSE /\ sync' = 0
  /\ UNCHANGED <<left, pipe, workerVars, inbox, spawned>>

Program == CilkInit \/ CilkSync \/ Spawn \/ CilkBye \/ Pause

Invoker ==
  \/ WorkerThread \/ CountStarted \/ AllStarted \/ SyncStep
  \/ SpawnStep \/ CountSpawned \/ ByeStep \/ ByeEnd
  \/ Listed \/ Served

Next == Program \/ Invoker \/ \E w \in Workers : Worker(w)

Spec == Init /\ [][Next]_vars

(* Threads are preemptive and subproblems come to an end: whoever can take *)
(* a step does.  What the program calls next is its own business.          *)
FairSpec == Spec /\ WF_vars(Invoker) /\ \A w \in Workers : WF_vars(Worker(w))

-----------------------------------------------------------------------------
(* Properties *)

InvokerWords == {"idle", "start-workers", "started", "init-sync", "cilk-sync",
                 "bye-sync", "spawn", "spawned", "cilk-bye"}

(* Every variable keeps its type; in particular sync# never gets negative  *)
(* and cilk-sync never returns too early because of it.                    *)
TypeOK ==
  /\ word \in InvokerWords /\ serving \in {"no", "stop", "?events"}
  /\ left \in Nat /\ sync \in Nat /\ allocated \in BOOLEAN
  /\ workers \in Seq(Workers) /\ pipe \in Seq(Workers)
  /\ state \in [Workers -> {"new", "announce", "stop", "running", "?events", "gone"}]
  /\ job \in [Workers -> 0 .. MaxJobs]
  /\ inbox \in [Workers -> Seq(Jobs \cup {Bye})]
  /\ spawned \in 0 .. MaxJobs /\ runs \in [Jobs -> Nat]

(* The workers that have been started and not been told to end. *)
Told(w) == state[w] = "gone" \/ Bye \in {inbox[w][k] : k \in DOMAIN inbox[w]}
Live == {w \in Workers : state[w] # "new" /\ ~Told(w)}

(* sync# counts the workers that are not in the list: together they are    *)
(* the live workers, but for the one that has just been given a thread or  *)
(* a subproblem and is counted next.                                       *)
Counted ==
  Cardinality(Live) = Len(workers) + sync
                      + (IF word \in {"started", "spawned"} THEN 1 ELSE 0)

(* A listed worker waits with nothing to do, and is listed once: no two    *)
(* subproblems ever go to one worker.                                      *)
ListedIdle ==
  /\ \A k \in DOMAIN workers :
       state[workers[k]] = "stop" /\ inbox[workers[k]] = <<>>
  /\ \A k, m \in DOMAIN workers : workers[k] = workers[m] => k = m
  /\ \A w \in Workers : Len(inbox[w]) <= 1

(* After cilk-bye no worker is left that has not been told to end, and the *)
(* program may call cilk-init again.                                       *)
NoStrays == word = "idle" /\ ~allocated => Live = {} /\ pipe = <<>>

(* cilk.fs implements fork and join. *)
Join == INSTANCE ForkJoin WITH syncing <- word \in {"cilk-sync", "bye-sync"}
ForkJoinSpec == Join!ForkJoinSpec

(* cilk-init, spawn, cilk-sync and cilk-bye return. *)
WordsReturn == word # "idle" ~> word = "idle"

(* Every worker that has been told to end does, and every subproblem that  *)
(* has been spawned is executed.                                           *)
WorkDone ==
  /\ \A w \in Workers : Told(w) ~> state[w] = "gone"
  /\ \A j \in Jobs : spawned >= j ~> runs[j] = 1

=============================================================================
