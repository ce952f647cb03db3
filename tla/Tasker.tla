------------------------------ MODULE Tasker ------------------------------
(***************************************************************************)
(* The cooperative multitasker of Gforth (tasker.fs).  A task is the       *)
(* address of its user area, whose first two cells, next-task and          *)
(* prev-task, link it into a ring: the ring of the running task, the ring  *)
(* of the header sleepers, or for a moment the ring of the header killer.  *)
(* Whoever runs is named by the user pointer up; a task runs until it      *)
(* calls pause, stop or kill-task.                                         *)
(***************************************************************************)
EXTENDS Naturals

CONSTANTS Tasks,      \* the user areas
          main,       \* main-task, which is not allocated and never killed
          sleepers,   \* header of the ring of sleeping tasks
          killer      \* header of the ring through which kill unlinks

ASSUME TaskAssumption ==
  /\ main \in Tasks
  /\ sleepers \notin Tasks /\ killer \notin Tasks /\ sleepers # killer

VARIABLES
  next, prev,   \* the first two cells of a user area or a header
  up,           \* the user pointer: the running task
  state,        \* auxiliary: "free", "asleep" or "ready"
  context       \* save-task holds the stacks of the task itself

vars == <<next, prev, up, state, context>>

Nodes == Tasks \cup {sleepers, killer}

Init ==
  /\ next = [n \in Nodes |-> n] /\ prev = [n \in Nodes |-> n]
  /\ up = main
  /\ state = [t \in Tasks |-> IF t = main THEN "ready" ELSE "free"]
  /\ context = [t \in Tasks |-> FALSE]

-----------------------------------------------------------------------------
(* Mutant of LinkTask: t is not taken out of its old ring. *)
LinkTaskOnly(t, u, nxt, prv) ==
  /\ next' = [nxt EXCEPT ![t] = nxt[u], ![u] = t]
  /\ prev' = [[prv EXCEPT ![nxt[u]] = t] EXCEPT ![t] = u]

(* link-task takes t out of its ring and puts it behind u, one store after *)
(* the other; t and u may be the same, and the cells may be, too.          *)
LinkTask(t, u, nxt, prv) ==
  LET nextA == [nxt EXCEPT ![prv[t]] = nxt[t]]
      prevA == [prv EXCEPT ![nxt[t]] = prv[t]]
      prevB == [prevA EXCEPT ![nextA[u]] = t]
  IN /\ next' = [nextA EXCEPT ![t] = nextA[u], ![u] = t]
     /\ prev' = [prevB EXCEPT ![t] = u]

Allocated(t) == state[t] # "free"

(* single-tasking? *)
Alone == next[up] = up

(* NewTask: a ring of its own first, then sleep.  The new user area is a   *)
(* copy, save-task included: it has no context of its own yet.             *)
NewTask(t) ==
  /\ ~Allocated(t)
  /\ LinkTask(t, sleepers, [next EXCEPT ![t] = t], [prev EXCEPT ![t] = t])
  /\ state' = [state EXCEPT ![t] = "asleep"]
  /\ context' = [context EXCEPT ![t] = FALSE]
  /\ UNCHANGED up

(* activate, pass: fresh stacks for t, then wake. *)
Activate(t) ==
  /\ Allocated(t) /\ t # up
  /\ LinkTask(t, up, next, prev)
  /\ state' = [state EXCEPT ![t] = "ready"]
  /\ context' = [context EXCEPT ![t] = TRUE]
  /\ UNCHANGED up

(* wake puts the task right behind the running one.  A task that was never *)
(* activated has nothing to run and is not woken.                          *)
Wake(t) ==
  /\ Allocated(t) /\ context[t] /\ t # up
  /\ LinkTask(t, up, next, prev)
  /\ state' = [state EXCEPT ![t] = "ready"]
  /\ UNCHANGED <<up, context>>

(* sleep, for another task. *)
Sleep(t) ==
  /\ Allocated(t) /\ t # up
  /\ LinkTask(t, sleepers, next, prev)
  /\ state' = [state EXCEPT ![t] = "asleep"]
  /\ UNCHANGED <<up, context>>

(* Mutant of Pause: the switch skips a task. *)
PauseSkips ==
  /\ up' = next[next[up]]
  /\ context' = [context EXCEPT ![up] = TRUE]
  /\ UNCHANGED <<next, prev, state>>

(* pause switches to the next task, which may be the same one. *)
Pause ==
  /\ up' = next[up]
  /\ context' = [context EXCEPT ![up] = TRUE]
  /\ UNCHANGED <<next, prev, state>>

(* Mutant of Stop: the task goes to sleep first and then switches. *)
StopSleepsFirst ==
  /\ ~Alone
  /\ LinkTask(up, sleepers, next, prev)
  /\ up' = next'[up]
  /\ context' = [context EXCEPT ![up] = TRUE]
  /\ state' = [state EXCEPT ![up] = "asleep"]

(* stop switches first; the next task then puts its predecessor to sleep.  *)
(* The last ready task has nobody to switch to and does not stop.          *)
Stop ==
  /\ ~Alone
  /\ up' = next[up]
  /\ context' = [context EXCEPT ![up] = TRUE]
  /\ LinkTask(prev[next[up]], sleepers, next, prev)
  /\ state' = [state EXCEPT ![prev[next[up]]] = "asleep"]

(* Mutant of Unlinked: the area is freed while it is still linked. *)
UnlinkedNot(t) ==
  /\ UNCHANGED <<next, prev>>
  /\ state' = [state EXCEPT ![t] = "free"]

(* kill links t behind killer, resets killer to an empty ring and frees    *)
(* the area.                                                               *)
Unlinked(t) ==
  LET nextA == [next EXCEPT ![prev[t]] = next[t]]
      prevA == [prev EXCEPT ![next[t]] = prev[t]]
  IN /\ next' = [nextA EXCEPT ![t] = killer, ![killer] = killer]
     /\ prev' = [prevA EXCEPT ![t] = killer, ![killer] = killer]
     /\ state' = [state EXCEPT ![t] = "free"]

Kill(t) ==
  /\ Allocated(t) /\ t \notin {up, main}
  /\ Unlinked(t)
  /\ UNCHANGED <<up, context>>

(* kill-task, also at the end of a task: the next task kills the one       *)
(* before it.                                                              *)
KillTask ==
  /\ ~Alone /\ up # main
  /\ up' = next[up]
  /\ Unlinked(prev[next[up]])
  /\ UNCHANGED context

Next ==
  \/ \E t \in Tasks : NewTask(t) \/ Activate(t) \/ Wake(t) \/ Sleep(t) \/ Kill(t)
  \/ Pause \/ Stop \/ KillTask

Spec == Init /\ [][Next]_vars

(* Every task calls pause again and again: that is what cooperative means. *)
FairSpec == Spec /\ WF_vars(Pause)

-----------------------------------------------------------------------------
(* Properties *)

(* Every variable keeps its type. *)
TypeOK ==
  /\ next \in [Nodes -> Nodes] /\ prev \in [Nodes -> Nodes]
  /\ up \in Tasks
  /\ state \in [Tasks -> {"free", "asleep", "ready"}]
  /\ context \in [Tasks -> BOOLEAN]

(* The ring a node belongs to. *)
Kind(n) == IF n = sleepers THEN "asleep"
           ELSE IF n = killer THEN "killed" ELSE state[n]

Linked == {n \in Nodes : Kind(n) # "free"}

(* A neighbour points back and is of the same kind: nobody in a ring       *)
(* points at a freed area or into another ring.                            *)
DoublyLinked ==
  \A n \in Linked :
    /\ next[n] \in Linked /\ prev[n] \in Linked
    /\ prev[next[n]] = n /\ next[prev[n]] = n
    /\ Kind(next[n]) = Kind(n)

(* Whatever the order of the calls, the links are doubly linked rings of   *)
(* one kind each, the running task is ready, and every other ready task    *)
(* has stacks of its own to switch to (link-task, pause, stop, kill).      *)
Rings ==
  /\ DoublyLinked
  /\ state[up] = "ready"
  /\ \A t \in Tasks : state[t] = "ready" /\ t # up => context[t]

(* The nodes reached from n through next-task: the smallest set that holds *)
(* n and the successors of its elements.                                   *)
Closed(S) == \A n \in S : next[n] \in S
Reached(n) == {m \in Nodes : \A S \in SUBSET Nodes : n \in S /\ Closed(S) => m \in S}

(* There is one ring of ready tasks and one of sleeping ones: from the     *)
(* running task pause comes by every ready task, and none is lost.         *)
OneRing ==
  /\ Reached(up) = {t \in Tasks : state[t] = "ready"}
  /\ Reached(sleepers) = {sleepers} \cup {t \in Tasks : state[t] = "asleep"}

(* A ready task gets its turn, unless somebody puts it to sleep or kills   *)
(* it: the round robin of pause.                                           *)
RoundRobin ==
  \A t \in Tasks : state[t] = "ready" ~> (up = t \/ state[t] # "ready")

(* The same once no task is woken any more.                                *)
Waking == \E t \in Tasks : Wake(t) \/ Activate(t)
EveryoneRuns == <>[][~Waking]_vars => RoundRobin

=============================================================================
