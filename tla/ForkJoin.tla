----------------------------- MODULE ForkJoin -----------------------------
(***************************************************************************)
(* What cilk.fs promises the task that divides its work, without workers,  *)
(* queues or counters: every spawned subproblem is executed once, by       *)
(* somebody, and cilk-sync returns only when all of them have been.        *)
(***************************************************************************)
EXTENDS Naturals

CONSTANT MaxJobs      \* bound on the subproblems

VARIABLES spawned,    \* number of subproblems spawned so far
          runs,       \* runs[j]: how often subproblem j has been executed
          syncing     \* the spawner is in cilk-sync

joinVars == <<spawned, runs, syncing>>

ForkJoinInit ==
  /\ spawned = 0 /\ runs = [j \in 1 .. MaxJobs |-> 0] /\ syncing = FALSE

Spawn ==
  /\ ~syncing /\ spawned < MaxJobs
  /\ spawned' = spawned + 1
  /\ UNCHANGED <<runs, syncing>>

Execute(j) ==
  /\ j <= spawned /\ runs[j] = 0
  /\ runs' = [runs EXCEPT ![j] = 1]
  /\ UNCHANGED <<spawned, syncing>>

Sync == ~syncing /\ syncing' = TRUE /\ UNCHANGED <<spawned, runs>>

Join ==
  /\ syncing /\ \A j \in 1 .. spawned : runs[j] = 1
  /\ syncing' = FALSE
  /\ UNCHANGED <<spawned, runs>>

ForkJoinNext == Spawn \/ (\E j \in 1 .. MaxJobs : Execute(j)) \/ Sync \/ Join

ForkJoinSpec == ForkJoinInit /\ [][ForkJoinNext]_joinVars
=============================================================================
