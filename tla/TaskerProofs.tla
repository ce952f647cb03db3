--------------------------- MODULE TaskerProofs ---------------------------
(***************************************************************************)
(* Proofs about Tasker, for any set of tasks: link-task, kill and the task *)
(* switches keep the rings doubly linked and apart from each other.        *)
(***************************************************************************)
EXTENDS Tasker, TLAPS

Kinds == {"free", "asleep", "ready", "killed"}

(* The links nxt and prv are rings of nodes of one kind; a node of kind    *)
(* "free" is in none of them.                                              *)
RingsOf(nxt, prv, kind) ==
  \A n \in Nodes : kind[n] # "free" =>
    /\ prv[nxt[n]] = n /\ nxt[prv[n]] = n
    /\ kind[nxt[n]] = kind[n] /\ kind[prv[n]] = kind[n]

kinds == [n \in Nodes |-> Kind(n)]

(* DoublyLinked says the same of next and prev. *)
LEMMA RingsForm == TypeOK => (DoublyLinked <=> RingsOf(next, prev, kinds))
  <1> SUFFICES ASSUME TypeOK PROVE DoublyLinked <=> RingsOf(next, prev, kinds)
    OBVIOUS
  <1>1. /\ next \in [Nodes -> Nodes] /\ prev \in [Nodes -> Nodes]
        /\ \A n \in Nodes : kinds[n] = Kind(n)
        /\ \A n \in Nodes : n \in Linked <=> kinds[n] # "free"
    BY DEF TypeOK, kinds, Linked
  <1>2. ASSUME DoublyLinked PROVE RingsOf(next, prev, kinds)
    <2> SUFFICES ASSUME NEW n \in Nodes, kinds[n] # "free"
                 PROVE  /\ prev[next[n]] = n /\ next[prev[n]] = n
                        /\ kinds[next[n]] = kinds[n] /\ kinds[prev[n]] = kinds[n]
      BY DEF RingsOf
    <2>1. n \in Linked /\ next[n] \in Linked /\ prev[n] \in Linked
      BY <1>1, <1>2 DEF DoublyLinked
    <2>2. Kind(next[n]) = Kind(n) /\ Kind(prev[n]) = Kind(n)
          /\ prev[next[n]] = n /\ next[prev[n]] = n
      BY <1>2, <2>1 DEF DoublyLinked
    <2> QED
      BY <1>1, <2>2
  <1>3. ASSUME RingsOf(next, prev, kinds), NEW n \in Linked
        PROVE  /\ next[n] \in Linked /\ prev[n] \in Linked
               /\ prev[next[n]] = n /\ next[prev[n]] = n
               /\ Kind(next[n]) = Kind(n)
    <2>1. n \in Nodes /\ next[n] \in Nodes /\ prev[n] \in Nodes /\ kinds[n] # "free"
      BY <1>1 DEF Linked
    <2> QED
      BY <1>1, <1>3, <2>1 DEF RingsOf
  <1> QED
    BY <1>2, <1>3 DEF DoublyLinked

(* The first line of link-task: t leaves its ring. *)
LEMMA Unlinking ==
  ASSUME NEW nxt \in [Nodes -> Nodes], NEW prv \in [Nodes -> Nodes],
         NEW kind \in [Nodes -> Kinds], RingsOf(nxt, prv, kind),
         NEW t \in Nodes, kind[t] # "free"
  PROVE  RingsOf([nxt EXCEPT ![prv[t]] = nxt[t]], [prv EXCEPT ![nxt[t]] = prv[t]],
                 [kind EXCEPT ![t] = "free"])
  BY DEF RingsOf

(* The second line: t, which is in no ring, goes behind u. *)
LEMMA Inserting ==
  ASSUME NEW nxt \in [Nodes -> Nodes], NEW prv \in [Nodes -> Nodes],
         NEW kind \in [Nodes -> Kinds], RingsOf(nxt, prv, kind),
         NEW t \in Nodes, kind[t] = "free", NEW u \in Nodes, kind[u] # "free"
  PROVE  RingsOf([nxt EXCEPT ![t] = nxt[u], ![u] = t],
                 [[prv EXCEPT ![nxt[u]] = t] EXCEPT ![t] = u],
                 [kind EXCEPT ![t] = kind[u]])
  BY DEF RingsOf

-----------------------------------------------------------------------------
(* The inductive invariant. *)
TaskerInv == TypeOK /\ Rings

(* Rings from its parts, in the next state. *)
LEMMA RingsFromParts ==
  ASSUME TypeOK', RingsOf(next', prev', kinds'), state'[up'] = "ready",
         \A t \in Tasks : state'[t] = "ready" /\ t # up' => context'[t]
  PROVE  TaskerInv'
  <1>1. TypeOK' => (DoublyLinked' <=> RingsOf(next, prev, kinds)')
    BY RingsForm, PTL
  <1>2. RingsOf(next, prev, kinds)'
    BY DEF RingsOf
  <1> QED
    BY <1>1, <1>2 DEF TaskerInv, Rings

LEMMA KindFacts ==
  ASSUME TypeOK
  PROVE  /\ kinds \in [Nodes -> Kinds]
         /\ \A t \in Tasks : kinds[t] = state[t] /\ t \in Nodes
         /\ kinds[sleepers] = "asleep" /\ kinds[killer] = "killed"
         /\ sleepers \in Nodes /\ killer \in Nodes
  BY TaskAssumption DEF TypeOK, kinds, Kind, Kinds, Nodes

LEMMA KindsStep ==
  ASSUME TypeOK, NEW t \in Tasks, NEW s, state' = [state EXCEPT ![t] = s]
  PROVE  kinds' = [kinds EXCEPT ![t] = s]
  <1>1. \A n \in Nodes : Kind(n)' = IF n = t THEN s ELSE Kind(n)
    BY TaskAssumption DEF TypeOK, Kind, Nodes
  <1> QED
    BY <1>1 DEF kinds

(* link-task as a whole: t ends up in the ring of u. *)
LEMMA LinkOK ==
  ASSUME NEW nxt \in [Nodes -> Nodes], NEW prv \in [Nodes -> Nodes],
         NEW kind \in [Nodes -> Kinds], RingsOf(nxt, prv, kind),
         NEW t \in Nodes, kind[t] # "free", NEW u \in Nodes, kind[u] # "free", t # u,
         LinkTask(t, u, nxt, prv)
  PROVE  /\ next' \in [Nodes -> Nodes] /\ prev' \in [Nodes -> Nodes]
         /\ RingsOf(next', prev', [kind EXCEPT ![t] = kind[u]])
  <1> DEFINE nextA == [nxt EXCEPT ![prv[t]] = nxt[t]]
             prevA == [prv EXCEPT ![nxt[t]] = prv[t]]
             kindA == [kind EXCEPT ![t] = "free"]
  <1>1. /\ nextA \in [Nodes -> Nodes] /\ prevA \in [Nodes -> Nodes]
        /\ kindA \in [Nodes -> Kinds] /\ RingsOf(nextA, prevA, kindA)
    BY Unlinking DEF Kinds
  <1>2. kindA[t] = "free" /\ kindA[u] = kind[u]
    OBVIOUS
  <1>3. /\ next' = [nextA EXCEPT ![t] = nextA[u], ![u] = t]
        /\ prev' = [[prevA EXCEPT ![nextA[u]] = t] EXCEPT ![t] = u]
    BY DEF LinkTask
  <1>4. RingsOf(next', prev', [kindA EXCEPT ![t] = kindA[u]])
    <2> HIDE DEF nextA, prevA, kindA
    <2> QED
      BY <1>1, <1>2, <1>3, Inserting
  <1>5. [kindA EXCEPT ![t] = kindA[u]] = [kind EXCEPT ![t] = kind[u]]
    BY <1>2
  <1>6. next' \in [Nodes -> Nodes] /\ prev' \in [Nodes -> Nodes]
    <2> HIDE DEF nextA, prevA
    <2> QED
      BY <1>1, <1>3
  <1> QED
    BY <1>4, <1>5, <1>6

(* The same for the current links. *)
LEMMA RelinkOK ==
  ASSUME TypeOK, DoublyLinked, NEW t \in Tasks, state[t] # "free",
         NEW u \in Nodes, kinds[u] \in {"asleep", "ready"}, t # u,
         LinkTask(t, u, next, prev), state' = [state EXCEPT ![t] = kinds[u]]
  PROVE  /\ next' \in [Nodes -> Nodes] /\ prev' \in [Nodes -> Nodes]
         /\ state' \in [Tasks -> {"free", "asleep", "ready"}]
         /\ RingsOf(next', prev', kinds')
  <1>1. /\ next \in [Nodes -> Nodes] /\ prev \in [Nodes -> Nodes]
        /\ kinds \in [Nodes -> Kinds] /\ RingsOf(next, prev, kinds)
        /\ t \in Nodes /\ kinds[t] # "free" /\ kinds[u] # "free"
    BY RingsForm, KindFacts DEF TypeOK
  <1>2. kinds' = [kinds EXCEPT ![t] = kinds[u]]
    BY KindsStep
  <1>3. state' \in [Tasks -> {"free", "asleep", "ready"}]
    BY DEF TypeOK
  <1> QED
    BY <1>1, <1>2, <1>3, LinkOK

(* kill: t leaves its ring for good. *)
LEMMA KillOK ==
  ASSUME TypeOK, DoublyLinked, NEW t \in Tasks, state[t] # "free", Unlinked(t)
  PROVE  /\ next' \in [Nodes -> Nodes] /\ prev' \in [Nodes -> Nodes]
         /\ state' \in [Tasks -> {"free", "asleep", "ready"}]
         /\ RingsOf(next', prev', kinds')
  <1> DEFINE nextA == [next EXCEPT ![prev[t]] = next[t]]
             prevA == [prev EXCEPT ![next[t]] = prev[t]]
             kindA == [kinds EXCEPT ![t] = "free"]
  <1>1. /\ next \in [Nodes -> Nodes] /\ prev \in [Nodes -> Nodes]
        /\ kinds \in [Nodes -> Kinds] /\ RingsOf(next, prev, kinds)
        /\ t \in Nodes /\ kinds[t] # "free" /\ killer \in Nodes /\ t # killer
        /\ kinds[killer] = "killed"
    BY RingsForm, KindFacts, TaskAssumption DEF TypeOK
  <1>2. /\ nextA \in [Nodes -> Nodes] /\ prevA \in [Nodes -> Nodes]
        /\ RingsOf(nextA, prevA, kindA)
    BY <1>1, Unlinking
  <1>3. /\ next' = [nextA EXCEPT ![t] = killer, ![killer] = killer]
        /\ prev' = [prevA EXCEPT ![t] = killer, ![killer] = killer]
    BY DEF Unlinked
  <1>4. kinds' = kindA
    BY KindsStep DEF Unlinked
  <1>5. \A n \in Nodes : kinds[n] = "killed" => n = killer
    BY DEF kinds, Kind, Nodes, TypeOK
  <1>6. next' \in [Nodes -> Nodes] /\ prev' \in [Nodes -> Nodes]
    <2> HIDE DEF nextA, prevA
    <2> QED
      BY <1>1, <1>2, <1>3
  <1>7. RingsOf(next', prev', kindA)
    <2>1. \A n \in Nodes : kindA[n] = "killed" => n = killer
      BY <1>1, <1>5
    <2>2. kindA[t] = "free" /\ kindA[killer] = "killed"
      BY <1>1
    <2> HIDE DEF nextA, prevA, kindA
    <2> QED
      BY <1>1, <1>2, <1>3, <2>1, <2>2 DEF RingsOf
  <1>8. state' \in [Tasks -> {"free", "asleep", "ready"}]
    BY DEF Unlinked, TypeOK
  <1> QED
    BY <1>4, <1>6, <1>7, <1>8

-----------------------------------------------------------------------------
LEMMA TaskerInit == Init => TaskerInv
  <1> SUFFICES ASSUME Init PROVE TaskerInv
    OBVIOUS
  <1>1. TypeOK
    BY TaskAssumption DEF Init, TypeOK, Nodes
  <1>2. DoublyLinked
    BY DEF Init, DoublyLinked, Linked
  <1>3. state[up] = "ready" /\ \A t \in Tasks : state[t] = "ready" => t = up
    BY TaskAssumption DEF Init
  <1> QED
    BY <1>1, <1>2, <1>3 DEF TaskerInv, Rings

(* Every step keeps the invariant. *)
LEMMA TaskerStep == TaskerInv /\ Next => TaskerInv'
  <1> SUFFICES ASSUME TaskerInv, Next PROVE TaskerInv'
    OBVIOUS
  <1> USE DEF TaskerInv
  <1>0. /\ TypeOK /\ DoublyLinked /\ up \in Tasks /\ up \in Nodes /\ kinds[up] = "ready"
        /\ state[up] = "ready" /\ sleepers \in Nodes /\ kinds[sleepers] = "asleep"
        /\ \A t \in Tasks : state[t] = "ready" /\ t # up => context[t]
    BY KindFacts DEF Rings, TypeOK
  <1>1. ASSUME NEW t \in Tasks, NewTask(t) PROVE TaskerInv'
    <2> DEFINE nxt == [next EXCEPT ![t] = t]
               prv == [prev EXCEPT ![t] = t]
               kind == [kinds EXCEPT ![t] = "killed"]
    <2>1. /\ next \in [Nodes -> Nodes] /\ prev \in [Nodes -> Nodes]
          /\ kinds \in [Nodes -> Kinds] /\ RingsOf(next, prev, kinds)
          /\ t \in Nodes /\ kinds[t] = "free" /\ t # sleepers
      BY <1>0, <1>1, RingsForm, KindFacts DEF TypeOK, NewTask, Allocated
    <2>2. /\ nxt \in [Nodes -> Nodes] /\ prv \in [Nodes -> Nodes]
          /\ kind \in [Nodes -> Kinds] /\ kind[t] # "free"
          /\ kind[sleepers] = "asleep"
      BY <1>0, <2>1 DEF Kinds
    <2>3. RingsOf(nxt, prv, kind)
      BY <2>1 DEF RingsOf
    <2>4. LinkTask(t, sleepers, nxt, prv)
      BY <1>1 DEF NewTask
    <2>5. /\ next' \in [Nodes -> Nodes] /\ prev' \in [Nodes -> Nodes]
          /\ RingsOf(next', prev', [kind EXCEPT ![t] = "asleep"])
      <3> HIDE DEF nxt, prv, kind
      <3>1. /\ next' \in [Nodes -> Nodes] /\ prev' \in [Nodes -> Nodes]
            /\ RingsOf(next', prev', [kind EXCEPT ![t] = kind[sleepers]])
        BY <1>0, <2>1, <2>2, <2>3, <2>4, LinkOK
      <3> QED
        BY <2>2, <3>1
    <2>6. kinds' = [kind EXCEPT ![t] = "asleep"]
      <3>1. kinds' = [kinds EXCEPT ![t] = "asleep"]
        BY <1>0, <1>1, KindsStep DEF NewTask
      <3> QED
        BY <2>1, <3>1
    <2>7. TypeOK'
      BY <1>1, <2>5 DEF NewTask, TypeOK
    <2>8. t # up
      BY <1>0, <1>1 DEF NewTask, Allocated
    <2>9. state'[up'] = "ready"
      BY <1>0, <1>1, <2>8 DEF NewTask, TypeOK
    <2>10. \A s \in Tasks : state'[s] = "ready" /\ s # up' => context'[s]
      BY <1>0, <1>1 DEF NewTask, TypeOK
    <2> QED
      BY <2>5, <2>6, <2>7, <2>9, <2>10, RingsFromParts
  <1>2. ASSUME NEW t \in Tasks, Activate(t) \/ Wake(t) PROVE TaskerInv'
    <2>1. /\ next' \in [Nodes -> Nodes] /\ prev' \in [Nodes -> Nodes]
          /\ state' \in [Tasks -> {"free", "asleep", "ready"}]
          /\ RingsOf(next', prev', kinds')
      BY <1>0, <1>2, RelinkOK DEF Activate, Wake, Allocated
    <2>2. context' \in [Tasks -> BOOLEAN] /\ up' = up
      BY <1>2 DEF Activate, Wake, TypeOK
    <2>3. TypeOK'
      BY <2>1, <2>2 DEF TypeOK
    <2>4. state'[up'] = "ready"
      BY <1>0, <1>2, <2>2 DEF Activate, Wake, TypeOK
    <2>5. \A s \in Tasks : state'[s] = "ready" /\ s # up' => context'[s]
      BY <1>0, <1>2, <2>2 DEF Activate, Wake, TypeOK
    <2> QED
      BY <2>1, <2>3, <2>4, <2>5, RingsFromParts
  <1>3. ASSUME NEW t \in Tasks, Sleep(t) PROVE TaskerInv'
    <2>1. /\ next' \in [Nodes -> Nodes] /\ prev' \in [Nodes -> Nodes]
          /\ state' \in [Tasks -> {"free", "asleep", "ready"}]
          /\ RingsOf(next', prev', kinds')
      BY <1>0, <1>3, RelinkOK, TaskAssumption DEF Sleep, Allocated
    <2>2. TypeOK'
      BY <1>3, <2>1 DEF Sleep, TypeOK
    <2>3. state'[up'] = "ready"
          /\ \A s \in Tasks : state'[s] = "ready" /\ s # up' => context'[s]
      BY <1>0, <1>3 DEF Sleep, TypeOK
    <2> QED
      BY <2>1, <2>2, <2>3, RingsFromParts
  <1>4. ASSUME NEW t \in Tasks, Kill(t) PROVE TaskerInv'
    <2>1. /\ next' \in [Nodes -> Nodes] /\ prev' \in [Nodes -> Nodes]
          /\ state' \in [Tasks -> {"free", "asleep", "ready"}]
          /\ RingsOf(next', prev', kinds')
      BY <1>0, <1>4, KillOK DEF Kill, Allocated
    <2>2. TypeOK'
      BY <1>4, <2>1 DEF Kill, TypeOK
    <2>3. state'[up'] = "ready"
          /\ \A s \in Tasks : state'[s] = "ready" /\ s # up' => context'[s]
      BY <1>0, <1>4 DEF Kill, Unlinked, TypeOK
    <2> QED
      BY <2>1, <2>2, <2>3, RingsFromParts
  (* The task that follows in the ring. *)
  <1>5. /\ next[up] \in Tasks /\ state[next[up]] = "ready" /\ prev[next[up]] = up
    <2>1. up \in Linked
      BY <1>0 DEF Linked, kinds
    <2>2. next[up] \in Nodes /\ prev[next[up]] = up /\ Kind(next[up]) = "ready"
      BY <1>0, <2>1 DEF DoublyLinked, Linked, kinds
    <2> QED
      BY <2>2 DEF Kind, Nodes
  <1>6. CASE Pause
    <2>1. TypeOK'
      BY <1>5, <1>6 DEF Pause, TypeOK
    <2>2. kinds' = kinds
      BY <1>6 DEF Pause, kinds, Kind
    <2>3. RingsOf(next', prev', kinds')
      BY <1>0, <1>6, <2>2, RingsForm DEF Pause
    <2>4. state'[up'] = "ready"
      BY <1>5, <1>6 DEF Pause
    <2>5. \A s \in Tasks : state'[s] = "ready" /\ s # up' => context'[s]
      BY <1>0, <1>6 DEF Pause, TypeOK
    <2> QED
      BY <2>1, <2>3, <2>4, <2>5, RingsFromParts
  <1>7. CASE Stop
    <2>1. LinkTask(up, sleepers, next, prev) /\ state' = [state EXCEPT ![up] = "asleep"]
      BY <1>5, <1>7 DEF Stop
    <2>2. /\ next' \in [Nodes -> Nodes] /\ prev' \in [Nodes -> Nodes]
          /\ state' \in [Tasks -> {"free", "asleep", "ready"}]
          /\ RingsOf(next', prev', kinds')
      BY <1>0, <2>1, RelinkOK, TaskAssumption
    <2>3. TypeOK'
      BY <1>5, <1>7, <2>2 DEF Stop, TypeOK
    <2>4. up' = next[up] /\ up' # up
      BY <1>7 DEF Stop, Alone
    <2>5. state'[up'] = "ready"
      BY <1>5, <2>1, <2>4 DEF TypeOK
    <2>6. \A s \in Tasks : state'[s] = "ready" /\ s # up' => context'[s]
      BY <1>0, <1>7, <2>1 DEF Stop, TypeOK
    <2> QED
      BY <2>2, <2>3, <2>5, <2>6, RingsFromParts
  <1>8. CASE KillTask
    <2>1. Unlinked(up)
      BY <1>5, <1>8 DEF KillTask
    <2>2. /\ next' \in [Nodes -> Nodes] /\ prev' \in [Nodes -> Nodes]
          /\ state' \in [Tasks -> {"free", "asleep", "ready"}]
          /\ RingsOf(next', prev', kinds')
      BY <1>0, <2>1, KillOK
    <2>3. TypeOK'
      BY <1>5, <1>8, <2>2 DEF KillTask, TypeOK
    <2>4. up' = next[up] /\ up' # up
      BY <1>8 DEF KillTask, Alone
    <2>5. state'[up'] = "ready"
      BY <1>5, <2>1, <2>4 DEF Unlinked, TypeOK
    <2>6. \A s \in Tasks : state'[s] = "ready" /\ s # up' => context'[s]
      BY <1>0, <1>8, <2>1 DEF KillTask, Unlinked, TypeOK
    <2> QED
      BY <2>2, <2>3, <2>5, <2>6, RingsFromParts
  <1> QED
    BY <1>1, <1>2, <1>3, <1>4, <1>6, <1>7, <1>8 DEF Next

(* TypeOK and Rings together are inductive over all words of tasker.fs.    *)
THEOREM TaskerInvariant == Spec => []TaskerInv
  <1>1. TaskerInv /\ UNCHANGED vars => TaskerInv'
    BY DEF TaskerInv, TypeOK, Rings, DoublyLinked, Linked, Kind, vars
  <1> QED
    BY TaskerInit, TaskerStep, <1>1, PTL DEF Spec

(* The links, the user pointer and the saved contexts keep their types:    *)
(* the user pointer never names a header of a ring.                        *)
THEOREM TypeCorrect == Spec => []TypeOK
  <1>1. TaskerInv => TypeOK
    BY DEF TaskerInv
  <1> QED
    BY TaskerInvariant, <1>1, PTL

(* For every number of tasks and every order of NewTask, activate, wake,   *)
(* sleep, pause, stop, kill and kill-task, the links of tasker.fs stay     *)
(* doubly linked rings of one kind, no ring reaches a freed user area, and *)
(* pause and stop always switch to a ready task with stacks of its own.    *)
THEOREM TaskRings == Spec => []Rings
  <1>1. TaskerInv => Rings
    BY DEF TaskerInv
  <1> QED
    BY TaskerInvariant, <1>1, PTL

-----------------------------------------------------------------------------
(* There is one ring of each kind. *)

Ringed == {"asleep", "ready"}

(* From a ready or sleeping node the links nxt come by every node of that  *)
(* kind: whatever is closed under nxt and holds one of them holds all.     *)
WholeOf(nxt, kind) ==
  \A S \in SUBSET Nodes : \A m \in S, n \in Nodes :
    (\A x \in S : nxt[x] \in S) /\ kind[m] \in Ringed /\ kind[n] = kind[m] => n \in S

(* How WholeOf is used: only the nodes of the kind of m matter. *)
LEMMA WholeUse ==
  ASSUME NEW nxt, NEW kind, WholeOf(nxt, kind),
         NEW S \in SUBSET Nodes, \A x \in S : nxt[x] \in S,
         NEW m \in S, kind[m] \in Ringed
  PROVE  \A n \in Nodes : kind[n] = kind[m] => n \in S
  BY DEF WholeOf

(* Links and kinds of nodes that are neither ready nor asleep are free to  *)
(* change.                                                                 *)
LEMMA WholeFrame ==
  ASSUME NEW nxt \in [Nodes -> Nodes], NEW prv, NEW kind \in [Nodes -> Kinds],
         RingsOf(nxt, prv, kind), WholeOf(nxt, kind),
         NEW nxt2, NEW kind2,
         \A n \in Nodes : kind[n] \in Ringed \/ kind2[n] \in Ringed
                            => kind2[n] = kind[n] /\ nxt2[n] = nxt[n]
  PROVE  WholeOf(nxt2, kind2)
  <1> SUFFICES ASSUME NEW S \in SUBSET Nodes, NEW m \in S, NEW n \in Nodes,
                      \A x \in S : nxt2[x] \in S,
                      kind2[m] \in Ringed, kind2[n] = kind2[m]
               PROVE  n \in S
    BY DEF WholeOf
  <1> DEFINE R == {x \in S : kind[x] = kind[m]}
  <1>1. kind[m] = kind2[m] /\ kind[n] = kind[m] /\ kind[m] \in Ringed
    OBVIOUS
  <1>2. ASSUME NEW x \in R PROVE nxt[x] \in R
    <2>1. x \in S /\ x \in Nodes /\ kind[x] \in Ringed /\ kind[x] # "free"
      BY <1>1 DEF Ringed
    <2>2. nxt[x] = nxt2[x] /\ nxt[x] \in S
      BY <2>1
    <2>3. kind[nxt[x]] = kind[x]
      BY <2>1 DEF RingsOf
    <2> QED
      BY <2>2, <2>3
  <1>3. R \in SUBSET Nodes /\ m \in R
    OBVIOUS
  <1>4. n \in R
    <2> HIDE DEF R
    <2> QED
      BY <1>1, <1>2, <1>3, WholeUse
  <1> QED
    BY <1>4

(* The first line of link-task: the rest of the ring is still one. *)
LEMMA UnlinkingWhole ==
  ASSUME NEW nxt \in [Nodes -> Nodes], NEW prv \in [Nodes -> Nodes],
         NEW kind \in [Nodes -> Kinds], RingsOf(nxt, prv, kind), WholeOf(nxt, kind),
         NEW t \in Nodes, kind[t] # "free"
  PROVE  WholeOf([nxt EXCEPT ![prv[t]] = nxt[t]], [kind EXCEPT ![t] = "free"])
  <1> DEFINE nxtA == [nxt EXCEPT ![prv[t]] = nxt[t]]
             kindA == [kind EXCEPT ![t] = "free"]
  <1> SUFFICES ASSUME NEW S \in SUBSET Nodes, NEW m \in S, NEW n \in Nodes,
                      \A x \in S : nxtA[x] \in S,
                      kindA[m] \in Ringed, kindA[n] = kindA[m]
               PROVE  n \in S
    BY DEF WholeOf
  <1>1. /\ m # t /\ n # t /\ kind[m] = kindA[m] /\ kind[n] = kind[m] /\ kind[m] \in Ringed
        /\ kind[m] # "free"
    BY DEF Ringed
  <1>2. nxtA[prv[t]] = nxt[t] /\ \A x \in Nodes : x # prv[t] => nxtA[x] = nxt[x]
    OBVIOUS
  <1>3. prv[t] \in Nodes /\ nxt[prv[t]] = t /\ kind[prv[t]] = kind[t] /\ kind[nxt[t]] = kind[t]
    BY DEF RingsOf
  <1> DEFINE R == {x \in S : kind[x] = kind[m] /\ x # t}
  <1>4. \A x \in R : x \in Nodes /\ kind[nxt[x]] = kind[m] /\ (nxt[x] = t => x = prv[t])
    BY <1>1 DEF RingsOf
  <1> HIDE DEF nxtA, kindA
  <1>5. CASE prv[t] \in R
    <2> DEFINE Q == R \cup {t}
    <2>1. kind[t] = kind[m] /\ prv[t] \in S
      BY <1>3, <1>5
    <2>2. nxt[t] \in Q
      BY <1>2, <1>3, <2>1
    <2>3. ASSUME NEW x \in R PROVE nxt[x] \in Q
      <3>1. CASE x = prv[t]
        BY <1>3, <3>1
      <3>2. CASE x # prv[t]
        BY <1>2, <1>4, <3>2
      <3> QED
        BY <3>1, <3>2
    <2>4. Q \in SUBSET Nodes /\ m \in Q
      BY <1>1
    <2>5. n \in Q
      <3>1. \A x \in Q : nxt[x] \in Q
        BY <2>2, <2>3
      <3> HIDE DEF Q
      <3> QED
        BY <1>1, <2>4, <3>1, WholeUse
    <2> QED
      BY <1>1, <2>5
  <1>6. CASE prv[t] \notin R
    <2>1. \A x \in R : nxt[x] \in R
      BY <1>2, <1>4, <1>6
    <2>2. R \in SUBSET Nodes /\ m \in R
      BY <1>1
    <2>3. n \in R
      <3> HIDE DEF R
      <3> QED
        BY <1>1, <2>1, <2>2, WholeUse
    <2> QED
      BY <2>3
  <1> QED
    BY <1>5, <1>6

(* The second line: t becomes part of the one ring of u. *)
LEMMA InsertingWhole ==
  ASSUME NEW nxt \in [Nodes -> Nodes], NEW prv \in [Nodes -> Nodes],
         NEW kind \in [Nodes -> Kinds], RingsOf(nxt, prv, kind), WholeOf(nxt, kind),
         NEW t \in Nodes, kind[t] = "free", NEW u \in Nodes, kind[u] # "free"
  PROVE  WholeOf([nxt EXCEPT ![t] = nxt[u], ![u] = t], [kind EXCEPT ![t] = kind[u]])
  <1> DEFINE nxtB == [nxt EXCEPT ![t] = nxt[u], ![u] = t]
             kindB == [kind EXCEPT ![t] = kind[u]]
  <1> SUFFICES ASSUME NEW S \in SUBSET Nodes, NEW m \in S, NEW n \in Nodes,
                      \A x \in S : nxtB[x] \in S,
                      kindB[m] \in Ringed, kindB[n] = kindB[m]
               PROVE  n \in S
    BY DEF WholeOf
  <1> DEFINE k == kindB[m]
             R == {x \in S : kind[x] = k}
  <1>1. t # u /\ k # "free" /\ k \in Ringed /\ t \notin R
    BY DEF Ringed
  <1>2. /\ nxtB[t] = nxt[u] /\ nxtB[u] = t
        /\ \A x \in Nodes : x # t /\ x # u => nxtB[x] = nxt[x]
        /\ kindB[t] = kind[u] /\ \A x \in Nodes : x # t => kindB[x] = kind[x]
    BY <1>1
  <1>3. \A x \in Nodes : kind[x] # "free" => kind[nxt[x]] = kind[x]
    BY DEF RingsOf
  <1> HIDE DEF nxtB, kindB
  <1>4. ASSUME NEW x \in R PROVE nxt[x] \in R
    <2>1. x \in Nodes /\ x # t /\ x \in S /\ kind[x] = k /\ kind[nxt[x]] = k
      BY <1>1, <1>3
    <2>2. CASE x = u
      <3>1. t \in S
        BY <1>2, <2>1, <2>2
      <3>2. nxt[u] \in S
        BY <1>2, <3>1
      <3> QED
        BY <2>1, <2>2, <3>2
    <2>3. CASE x # u
      BY <1>2, <2>1, <2>3
    <2> QED
      BY <2>2, <2>3
  <1>5. \E x \in R : TRUE
    <2>1. CASE m # t
      BY <1>2, <2>1
    <2>2. CASE m = t
      <3>1. nxt[u] \in S /\ kind[nxt[u]] = k
        BY <1>2, <1>3, <2>2
      <3> QED
        BY <3>1
    <2> QED
      BY <2>1, <2>2
  <1>6. PICK r \in R : TRUE
    BY <1>5
  <1>7. \A x \in Nodes : kind[x] = k => x \in R
    <2>1. R \in SUBSET Nodes /\ kind[r] = k
      OBVIOUS
    <2> HIDE DEF R
    <2> QED
      BY <1>1, <1>4, <1>6, <2>1, WholeUse
  <1>8. CASE n # t
    BY <1>2, <1>7, <1>8
  <1>9. CASE n = t
    <2>1. u \in S
      BY <1>2, <1>7, <1>9
    <2> QED
      BY <1>2, <1>9, <2>1
  <1> QED
    BY <1>8, <1>9

LEMMA LinkWhole ==
  ASSUME NEW nxt \in [Nodes -> Nodes], NEW prv \in [Nodes -> Nodes],
         NEW kind \in [Nodes -> Kinds], RingsOf(nxt, prv, kind), WholeOf(nxt, kind),
         NEW t \in Nodes, kind[t] # "free", NEW u \in Nodes, kind[u] # "free", t # u,
         LinkTask(t, u, nxt, prv)
  PROVE  WholeOf(next', [kind EXCEPT ![t] = kind[u]])
  <1> DEFINE nextA == [nxt EXCEPT ![prv[t]] = nxt[t]]
             prevA == [prv EXCEPT ![nxt[t]] = prv[t]]
             kindA == [kind EXCEPT ![t] = "free"]
  <1>1. /\ nextA \in [Nodes -> Nodes] /\ prevA \in [Nodes -> Nodes]
        /\ kindA \in [Nodes -> Kinds] /\ RingsOf(nextA, prevA, kindA)
        /\ WholeOf(nextA, kindA)
    BY Unlinking, UnlinkingWhole DEF Kinds
  <1>2. kindA[t] = "free" /\ kindA[u] = kind[u]
    OBVIOUS
  <1>3. next' = [nextA EXCEPT ![t] = nextA[u], ![u] = t]
    BY DEF LinkTask
  <1>4. WholeOf(next', [kindA EXCEPT ![t] = kindA[u]])
    <2> HIDE DEF nextA, prevA, kindA
    <2> QED
      BY <1>1, <1>2, <1>3, InsertingWhole
  <1>5. [kindA EXCEPT ![t] = kindA[u]] = [kind EXCEPT ![t] = kind[u]]
    BY <1>2
  <1> QED
    BY <1>4, <1>5

Whole == WholeOf(next, kinds)

LEMMA RelinkWhole ==
  ASSUME TypeOK, DoublyLinked, Whole, NEW t \in Tasks, state[t] # "free",
         NEW u \in Nodes, kinds[u] \in {"asleep", "ready"}, t # u,
         LinkTask(t, u, next, prev), state' = [state EXCEPT ![t] = kinds[u]]
  PROVE  Whole'
  <1>1. /\ next \in [Nodes -> Nodes] /\ prev \in [Nodes -> Nodes]
        /\ kinds \in [Nodes -> Kinds] /\ RingsOf(next, prev, kinds)
        /\ t \in Nodes /\ kinds[t] # "free" /\ kinds[u] # "free"
    BY RingsForm, KindFacts DEF TypeOK
  <1>2. kinds' = [kinds EXCEPT ![t] = kinds[u]]
    BY KindsStep
  <1>3. WholeOf(next', [kinds EXCEPT ![t] = kinds[u]])
    BY <1>1, LinkWhole DEF Whole
  <1> QED
    BY <1>2, <1>3 DEF Whole, WholeOf

LEMMA KillWhole ==
  ASSUME TypeOK, DoublyLinked, Whole, NEW t \in Tasks, state[t] # "free", Unlinked(t)
  PROVE  Whole'
  <1> DEFINE nextA == [next EXCEPT ![prev[t]] = next[t]]
             prevA == [prev EXCEPT ![next[t]] = prev[t]]
             kindA == [kinds EXCEPT ![t] = "free"]
  <1>1. /\ next \in [Nodes -> Nodes] /\ prev \in [Nodes -> Nodes]
        /\ kinds \in [Nodes -> Kinds] /\ RingsOf(next, prev, kinds)
        /\ t \in Nodes /\ kinds[t] # "free" /\ killer \in Nodes /\ t # killer
        /\ kinds[killer] = "killed"
    BY RingsForm, KindFacts, TaskAssumption DEF TypeOK
  <1>2. /\ nextA \in [Nodes -> Nodes] /\ kindA \in [Nodes -> Kinds]
        /\ RingsOf(nextA, prevA, kindA) /\ WholeOf(nextA, kindA)
    BY <1>1, Unlinking, UnlinkingWhole DEF Kinds, Whole
  <1>3. next' = [nextA EXCEPT ![t] = killer, ![killer] = killer] /\ kinds' = kindA
    BY KindsStep DEF Unlinked
  <1>4. kindA[t] = "free" /\ kindA[killer] = "killed"
    BY <1>1
  <1>5. WholeOf(next', kindA)
    <2> HIDE DEF nextA, prevA, kindA
    <2>1. \A n \in Nodes : kindA[n] \in Ringed => n # t /\ n # killer
      BY <1>4 DEF Ringed
    <2>2. \A n \in Nodes : kindA[n] \in Ringed => next'[n] = nextA[n]
      BY <1>2, <1>3, <2>1
    <2> QED
      BY <1>2, <2>2, WholeFrame
  <1> QED
    BY <1>3, <1>5 DEF Whole, WholeOf

LEMMA WholeInit == Init => Whole
  <1> SUFFICES ASSUME Init, NEW S \in SUBSET Nodes, NEW m \in S, NEW n \in Nodes,
                      kinds[m] \in Ringed, kinds[n] = kinds[m]
               PROVE  n \in S
    BY DEF Whole, WholeOf
  <1>1. \A x \in Nodes : kinds[x] = IF x = sleepers THEN "asleep" ELSE IF x = killer THEN "killed"
                                    ELSE IF x = main THEN "ready" ELSE "free"
    BY TaskAssumption DEF Init, kinds, Kind, Nodes
  <1>2. m = n
    BY <1>1 DEF Ringed
  <1> QED
    BY <1>2

LEMMA WholeStep == TaskerInv /\ Whole /\ Next => Whole'
  <1> SUFFICES ASSUME TaskerInv, Whole, Next PROVE Whole'
    OBVIOUS
  <1> USE DEF TaskerInv
  <1>0. /\ TypeOK /\ DoublyLinked /\ up \in Tasks /\ up \in Nodes /\ kinds[up] = "ready"
        /\ state[up] = "ready" /\ sleepers \in Nodes /\ kinds[sleepers] = "asleep"
    BY KindFacts DEF Rings, TypeOK
  <1>1. ASSUME NEW t \in Tasks, NewTask(t) PROVE Whole'
    <2> DEFINE nxt == [next EXCEPT ![t] = t]
               prv == [prev EXCEPT ![t] = t]
               kind == [kinds EXCEPT ![t] = "killed"]
    <2>1. /\ next \in [Nodes -> Nodes] /\ prev \in [Nodes -> Nodes]
          /\ kinds \in [Nodes -> Kinds] /\ RingsOf(next, prev, kinds)
          /\ t \in Nodes /\ kinds[t] = "free" /\ t # sleepers
      BY <1>0, <1>1, RingsForm, KindFacts DEF TypeOK, NewTask, Allocated
    <2>2. /\ nxt \in [Nodes -> Nodes] /\ prv \in [Nodes -> Nodes]
          /\ kind \in [Nodes -> Kinds] /\ kind[t] # "free"
          /\ kind[sleepers] = "asleep"
      BY <1>0, <2>1 DEF Kinds
    <2>3. RingsOf(nxt, prv, kind)
      BY <2>1 DEF RingsOf
    <2>4. WholeOf(nxt, kind)
      <3>1. \A n \in Nodes : kinds[n] \in Ringed \/ kind[n] \in Ringed => n # t
        BY <2>1 DEF Ringed
      <3>2. \A n \in Nodes : n # t => kind[n] = kinds[n] /\ nxt[n] = next[n]
        BY <2>1
      <3> HIDE DEF nxt, kind
      <3> QED
        BY <2>1, <3>1, <3>2, WholeFrame DEF Whole
    <2>5. LinkTask(t, sleepers, nxt, prv)
      BY <1>1 DEF NewTask
    <2>6. WholeOf(next', [kind EXCEPT ![t] = "asleep"])
      <3> HIDE DEF nxt, prv, kind
      <3>1. WholeOf(next', [kind EXCEPT ![t] = kind[sleepers]])
        BY <1>0, <2>1, <2>2, <2>3, <2>4, <2>5, LinkWhole
      <3> QED
        BY <2>2, <3>1
    <2>7. kinds' = [kind EXCEPT ![t] = "asleep"]
      <3>1. kinds' = [kinds EXCEPT ![t] = "asleep"]
        BY <1>0, <1>1, KindsStep DEF NewTask
      <3> QED
        BY <2>1, <3>1
    <2> QED
      BY <2>6, <2>7 DEF Whole, WholeOf
  <1>2. ASSUME NEW t \in Tasks, Activate(t) \/ Wake(t) PROVE Whole'
    BY <1>0, <1>2, RelinkWhole DEF Activate, Wake, Allocated
  <1>3. ASSUME NEW t \in Tasks, Sleep(t) PROVE Whole'
    BY <1>0, <1>3, RelinkWhole, TaskAssumption DEF Sleep, Allocated
  <1>4. ASSUME NEW t \in Tasks, Kill(t) PROVE Whole'
    BY <1>0, <1>4, KillWhole DEF Kill, Allocated
  <1>5. prev[next[up]] = up
    BY <1>0 DEF DoublyLinked, Linked, kinds
  <1>6. CASE Pause
    BY <1>6 DEF Pause, Whole, WholeOf, kinds, Kind
  <1>7. CASE Stop
    <2>1. LinkTask(up, sleepers, next, prev) /\ state' = [state EXCEPT ![up] = "asleep"]
      BY <1>5, <1>7 DEF Stop
    <2> QED
      BY <1>0, <2>1, RelinkWhole, TaskAssumption
  <1>8. CASE KillTask
    <2>1. Unlinked(up)
      BY <1>5, <1>8 DEF KillTask
    <2> QED
      BY <1>0, <2>1, KillWhole
  <1> QED
    BY <1>1, <1>2, <1>3, <1>4, <1>6, <1>7, <1>8 DEF Next

(* From a node of a ring the links reach exactly the nodes of its kind. *)
LEMMA ReachedKind ==
  ASSUME TaskerInv, Whole, NEW r \in Nodes, kinds[r] \in Ringed
  PROVE  Reached(r) = {n \in Nodes : kinds[n] = kinds[r]}
  <1> DEFINE K == {n \in Nodes : kinds[n] = kinds[r]}
  <1>1. K \in SUBSET Nodes /\ r \in K /\ Closed(K)
    <2>1. RingsOf(next, prev, kinds) /\ next \in [Nodes -> Nodes]
      BY RingsForm DEF TaskerInv, Rings, TypeOK
    <2> QED
      BY <2>1 DEF RingsOf, Closed, Ringed
  <1>2. ASSUME NEW n \in K, NEW S \in SUBSET Nodes, r \in S, Closed(S) PROVE n \in S
    BY <1>2 DEF Whole, WholeOf, Closed
  <1> QED
    BY <1>1, <1>2 DEF Reached

(* There is one ring of ready tasks and one of sleeping tasks: pause comes *)
(* by every ready task, and a sleeping task is where wake finds it.        *)
THEOREM OneRingOfEachKind == Spec => []OneRing
  <1>1. TaskerInv /\ Whole => OneRing
    <2> SUFFICES ASSUME TaskerInv, Whole PROVE OneRing
      OBVIOUS
    <2>1. /\ up \in Nodes /\ kinds[up] = "ready" /\ sleepers \in Nodes
          /\ kinds[sleepers] = "asleep"
      BY KindFacts DEF TaskerInv, Rings, TypeOK
    <2>2. {n \in Nodes : kinds[n] = "ready"} = {t \in Tasks : state[t] = "ready"}
      BY TaskAssumption DEF kinds, Kind, Nodes
    <2>3. {n \in Nodes : kinds[n] = "asleep"}
            = {sleepers} \cup {t \in Tasks : state[t] = "asleep"}
      BY TaskAssumption DEF kinds, Kind, Nodes
    <2> QED
      BY <2>1, <2>2, <2>3, ReachedKind DEF OneRing, Ringed
  <1>2. Whole /\ UNCHANGED vars => Whole'
    BY DEF Whole, WholeOf, kinds, Kind, vars
  <1> QED
    BY <1>1, <1>2, WholeInit, WholeStep, TaskerInvariant, PTL DEF Spec

=============================================================================
