----------------------------- MODULE CilkProofs -----------------------------
(***************************************************************************)
(* Proofs about Cilk, for any set of workers, any number of cores and of   *)
(* subproblems: what sync# counts, that the list holds idle workers only,  *)
(* that cilk-bye leaves nobody behind, and that all this implements fork   *)
(* and join.                                                               *)
(***************************************************************************)
EXTENDS Cilk, FiniteSetTheorems, SequenceTheorems, TLAPS

(* What a sequence holds, and that it holds nothing twice. *)
Elems(s) == {s[k] : k \in DOMAIN s}
Distinct(s) == \A k, m \in DOMAIN s : s[k] = s[m] => k = m

(* Appending what a sequence does not hold. *)
LEMMA AppendElems ==
  ASSUME NEW S, NEW s \in Seq(S), NEW e \in S
  PROVE  /\ Append(s, e) \in Seq(S)
         /\ Elems(Append(s, e)) = Elems(s) \cup {e}
         /\ Distinct(s) /\ e \notin Elems(s) => Distinct(Append(s, e))
  <1>1. /\ Append(s, e) \in Seq(S)
        /\ DOMAIN Append(s, e) = 1 .. Len(s) + 1
        /\ \A i \in 1 .. Len(s) : Append(s, e)[i] = s[i]
        /\ Append(s, e)[Len(s) + 1] = e
        /\ DOMAIN s = 1 .. Len(s) /\ Len(s) \in Nat
    OBVIOUS
  <1> QED
    BY <1>1 DEF Elems, Distinct

(* Removing the first of a sequence that holds nothing twice. *)
LEMMA TailElems ==
  ASSUME NEW S, NEW s \in Seq(S), s # <<>>
  PROVE  /\ Tail(s) \in Seq(S) /\ Head(s) \in S /\ Head(s) \in Elems(s)
         /\ Len(Tail(s)) = Len(s) - 1
         /\ Distinct(s) => Distinct(Tail(s)) /\ Elems(Tail(s)) = Elems(s) \ {Head(s)}
  <1>1. /\ Tail(s) \in Seq(S) /\ Head(s) \in S
        /\ DOMAIN Tail(s) = 1 .. Len(s) - 1 /\ Len(Tail(s)) = Len(s) - 1
        /\ \A i \in 1 .. Len(s) - 1 : Tail(s)[i] = s[i + 1]
        /\ DOMAIN s = 1 .. Len(s) /\ Len(s) \in Nat /\ Len(s) >= 1
        /\ Head(s) = s[1]
    BY HeadTailProperties, EmptySeq
  <1>2. Head(s) \in Elems(s)
    BY <1>1 DEF Elems
  <1>3. ASSUME Distinct(s) PROVE Distinct(Tail(s))
    BY <1>1, <1>3 DEF Distinct
  <1>4. ASSUME Distinct(s) PROVE Elems(Tail(s)) = Elems(s) \ {Head(s)}
    <2>1. ASSUME NEW x \in Elems(Tail(s)) PROVE x \in Elems(s) \ {Head(s)}
      <3>1. PICK k \in 1 .. Len(s) - 1 : x = s[k + 1]
        BY <1>1 DEF Elems
      <3>2. k + 1 \in DOMAIN s /\ 1 \in DOMAIN s /\ k + 1 # 1
        BY <1>1
      <3> QED
        BY <1>1, <1>4, <3>1, <3>2 DEF Elems, Distinct
    <2>2. ASSUME NEW x \in Elems(s) \ {Head(s)} PROVE x \in Elems(Tail(s))
      <3>1. PICK k \in 1 .. Len(s) : x = s[k]
        BY <1>1 DEF Elems
      <3>2. k - 1 \in DOMAIN Tail(s) /\ Tail(s)[k - 1] = x
        BY <1>1, <3>1
      <3> QED
        BY <3>2 DEF Elems
    <2> QED
      BY <2>1, <2>2
  <1> QED
    BY <1>1, <1>2, <1>3, <1>4

(* A sequence that holds nothing twice is as long as it holds elements. *)
LEMMA LenElems ==
  ASSUME NEW S, NEW s \in Seq(S), Distinct(s)
  PROVE  IsFiniteSet(Elems(s)) /\ Cardinality(Elems(s)) = Len(s)
  <1>1. s \in Bijection(1 .. Len(s), Elems(s))
    <2>1. DOMAIN s = 1 .. Len(s) /\ s \in [1 .. Len(s) -> Elems(s)]
      BY DEF Elems
    <2> QED
      BY <2>1 DEF Bijection, Injection, IsInjective, Surjection, Elems, Distinct
  <1>2. Len(s) \in Nat /\ ExistsBijection(1 .. Len(s), Elems(s))
    BY <1>1 DEF ExistsBijection
  <1> QED
    BY <1>2, FS_CountingElements, FS_NatBijection

-----------------------------------------------------------------------------
(* The inductive invariant. *)

(* Live, as long as an inbox holds at most one event. *)
Working ==
  {w \in Workers : state[w] \notin {"new", "gone"} /\ inbox[w] # <<Bye>>}

(* The workers that sync# counts. *)
Away == Working \ Elems(workers)

(* A worker is in the list, in the pipe, or has something to do, and never *)
(* two of these.                                                           *)
Queued ==
  /\ Distinct(workers) /\ Distinct(pipe)
  /\ \A w \in Elems(workers) : state[w] = "stop" /\ inbox[w] = <<>> /\ w \notin Elems(pipe)
  /\ \A w \in Elems(pipe) : state[w] = "stop" /\ inbox[w] = <<>>
  /\ \A w \in Workers :
       inbox[w] = <<>> \/ (state[w] = "stop" /\ \E e \in Jobs \cup {Bye} : inbox[w] = <<e>>)

(* The worker that is counted next. *)
Uncounted == IF word \in {"started", "spawned"} THEN 1 ELSE 0

AwayCounted == IsFiniteSet(Away) /\ Cardinality(Away) = sync + Uncounted

(* Where the invoker is in the life of the workers. *)
Lifecycle ==
  /\ ~allocated => workers = <<>>
  /\ ~allocated /\ word \in {"idle", "cilk-sync", "bye-sync", "cilk-bye"} => Working = {}
  /\ word \in {"spawn", "spawned"} => allocated
  /\ word = "spawn" => spawned >= 1
  /\ word = "start-workers" => left > 0 \/ Working # {}
  /\ word \in {"started", "init-sync"} => Working # {}
  /\ word = "started" => left > 0
  /\ word \in {"start-workers", "started", "spawned", "cilk-bye"} => serving = "no"
  /\ word = "cilk-bye" => left = Len(workers) /\ sync = 0

(* Worker w has subproblem j. *)
Holds(w, j) == inbox[w] = <<j>> \/ (state[w] = "running" /\ job[w] = j)

(* The subproblem has been given to nobody yet. *)
Unsent(j) == word = "spawn" /\ j = spawned

(* Every subproblem that has been spawned is not sent yet, or with exactly *)
(* one worker, or done, and done once.                                     *)
JobsOnce ==
  /\ \A w \in Workers : state[w] = "running" => job[w] \in Jobs
  /\ \A j \in Jobs : runs[j] = IF j <= spawned /\ ~Unsent(j) /\ \A w \in Workers : ~Holds(w, j)
                               THEN 1 ELSE 0
  /\ \A w \in Workers, j \in Jobs : Holds(w, j) => j <= spawned /\ ~Unsent(j)
  /\ \A v, w \in Workers, j \in Jobs : Holds(v, j) /\ Holds(w, j) => v = w

CilkInv == TypeOK /\ Queued /\ AwayCounted /\ Lifecycle /\ JobsOnce

-----------------------------------------------------------------------------
(* What follows from the invariant in one state. *)

LEMMA ElemsType ==
  ASSUME NEW S, NEW s \in Seq(S)
  PROVE  Elems(s) \subseteq S /\ (Elems(s) = {} <=> s = <<>>)
  <1>1. DOMAIN s = 1 .. Len(s) /\ Len(s) \in Nat /\ \A k \in 1 .. Len(s) : s[k] \in S
    OBVIOUS
  <1>2. s # <<>> => Head(s) \in Elems(s)
    BY TailElems
  <1>3. s = <<>> => Elems(s) = {}
    BY DEF Elems
  <1> QED
    BY <1>1, <1>2, <1>3 DEF Elems

(* Working is Live. *)
LEMMA LiveForm == TypeOK /\ Queued => Live = Working
  <1> SUFFICES ASSUME TypeOK, Queued, NEW w \in Workers
               PROVE  state[w] # "new" /\ ~Told(w)
                        <=> state[w] \notin {"new", "gone"} /\ inbox[w] # <<Bye>>
    BY DEF Live, Working
  <1>1. CASE inbox[w] = <<>>
    BY <1>1 DEF Told
  <1>2. ASSUME NEW e \in Jobs \cup {Bye}, inbox[w] = <<e>>
        PROVE  Bye \in {inbox[w][k] : k \in DOMAIN inbox[w]} <=> inbox[w] = <<Bye>>
    <2>1. DOMAIN inbox[w] = {1} /\ inbox[w][1] = e
      BY <1>2
    <2>2. inbox[w] = <<Bye>> <=> e = Bye
      BY <1>2
    <2> QED
      BY <2>1, <2>2
  <1> QED
    BY <1>1, <1>2 DEF Told, Queued

(* A worker that has announced itself, or that has a subproblem, is away.  *)
LEMMA BusyAway ==
  ASSUME TypeOK, Queued
  PROVE  /\ Elems(workers) \subseteq Working
         /\ Elems(pipe) \subseteq Away
         /\ \A w \in Workers, j \in Jobs : Holds(w, j) => w \in Away
  <1>1. Elems(workers) \subseteq Workers /\ Elems(pipe) \subseteq Workers
    BY ElemsType DEF TypeOK
  <1>2. <<>> # <<Bye>> /\ \A j \in Jobs : <<j>> # <<Bye>> /\ <<j>> # <<>>
    BY CilkAssumption DEF Jobs
  <1> QED
    BY <1>1, <1>2 DEF Queued, Working, Away, Holds

(* While nobody is away, sync# is zero and everybody is listed. *)
LEMMA AwayFacts ==
  ASSUME CilkInv
  PROVE  /\ sync \in Nat /\ (Away = {} <=> sync + Uncounted = 0)
         /\ pipe # <<>> => sync + Uncounted >= 1
  <1>1. sync \in Nat /\ IsFiniteSet(Away) /\ Cardinality(Away) = sync + Uncounted
        /\ Uncounted \in {0, 1}
    BY DEF CilkInv, TypeOK, AwayCounted, Uncounted
  <1>2. Away = {} <=> sync + Uncounted = 0
    BY <1>1, FS_EmptySet
  <1>3. pipe # <<>> => Away # {}
    BY BusyAway, ElemsType DEF CilkInv, TypeOK
  <1> QED
    BY <1>1, <1>2, <1>3

-----------------------------------------------------------------------------
(* One lemma for every action. *)

(* A step of the invoker that moves no worker. *)
LEMMA Quiet ==
  ASSUME CilkInv, UNCHANGED <<workers, pipe, state, inbox>>
  PROVE  /\ Queued' /\ Away' = Away /\ Working' = Working
         /\ UNCHANGED <<job, runs, spawned>> /\ (word = "spawn" <=> word' = "spawn")
              => JobsOnce'
  <1>1. Queued' /\ Away' = Away /\ Working' = Working
    BY DEF CilkInv, Queued, Away, Working
  <1>2. ASSUME UNCHANGED <<job, runs, spawned>>, word = "spawn" <=> word' = "spawn"
        PROVE  JobsOnce'
    BY <1>2 DEF CilkInv, JobsOnce, Holds, Unsent
  <1> QED
    BY <1>1, <1>2

LEMMA PauseStep ==
  ASSUME CilkInv, Pause
  PROVE  CilkInv'
  <1>1. Queued' /\ Away' = Away /\ Working' = Working /\ JobsOnce'
    BY Quiet DEF Pause, workerVars
  <1>2. TypeOK'
    BY DEF CilkInv, TypeOK, Pause, workerVars
  <1>3. AwayCounted' /\ Lifecycle'
    BY <1>1 DEF CilkInv, AwayCounted, Lifecycle, Uncounted, Pause, workerVars
  <1> QED
    BY <1>1, <1>2, <1>3 DEF CilkInv

LEMMA ServedStep ==
  ASSUME CilkInv, Served
  PROVE  CilkInv'
  <1>1. Queued' /\ Away' = Away /\ Working' = Working /\ JobsOnce'
    BY Quiet DEF Served, workerVars
  <1>2. TypeOK'
    BY DEF CilkInv, TypeOK, Served, workerVars
  <1>3. AwayCounted' /\ Lifecycle'
    BY <1>1 DEF CilkInv, AwayCounted, Lifecycle, Uncounted, Served, workerVars
  <1> QED
    BY <1>1, <1>2, <1>3 DEF CilkInv

LEMMA CilkInitStep ==
  ASSUME CilkInv, CilkInit
  PROVE  CilkInv'
  <1>1. Queued' /\ Away' = Away /\ Working' = Working /\ JobsOnce'
    BY Quiet DEF CilkInit, At, Goto, workerVars
  <1>2. Max1(cores) \in Nat /\ Max1(cores) > 0
    BY CilkAssumption DEF Max1
  <1>3. TypeOK'
    BY <1>2 DEF CilkInv, TypeOK, CilkInit, At, Goto, InvokerWords, workerVars
  <1>4. AwayCounted' /\ Lifecycle'
    BY <1>1, <1>2 DEF CilkInv, AwayCounted, Lifecycle, Uncounted, CilkInit, At, Goto, workerVars
  <1> QED
    BY <1>1, <1>3, <1>4 DEF CilkInv

LEMMA CountStartedStep ==
  ASSUME CilkInv, CountStarted
  PROVE  CilkInv'
  <1>1. Queued' /\ Away' = Away /\ Working' = Working /\ JobsOnce'
    BY Quiet DEF CountStarted, At, Goto, workerVars
  <1>2. TypeOK'
    BY DEF CilkInv, TypeOK, Lifecycle, CountStarted, At, Goto, InvokerWords, workerVars
  <1>3. AwayCounted' /\ Lifecycle'
    BY <1>1 DEF CilkInv, TypeOK, AwayCounted, Lifecycle, Uncounted, CountStarted, At, Goto, workerVars
  <1> QED
    BY <1>1, <1>2, <1>3 DEF CilkInv

LEMMA AllStartedStep ==
  ASSUME CilkInv, AllStarted
  PROVE  CilkInv'
  <1>1. Queued' /\ Away' = Away /\ Working' = Working /\ JobsOnce'
    BY Quiet DEF AllStarted, At, Goto, workerVars
  <1>2. TypeOK'
    BY DEF CilkInv, TypeOK, AllStarted, At, Goto, InvokerWords, workerVars
  <1>3. AwayCounted' /\ Lifecycle'
    BY <1>1 DEF CilkInv, AwayCounted, Lifecycle, Uncounted, AllStarted, At, Goto, workerVars
  <1> QED
    BY <1>1, <1>2, <1>3 DEF CilkInv

LEMMA CilkSyncStep ==
  ASSUME CilkInv, CilkSync
  PROVE  CilkInv'
  <1>1. Queued' /\ Away' = Away /\ Working' = Working /\ JobsOnce'
    BY Quiet DEF CilkSync, At, Goto, workerVars
  <1>2. TypeOK'
    BY DEF CilkInv, TypeOK, CilkSync, At, Goto, InvokerWords, workerVars
  <1>3. AwayCounted' /\ Lifecycle'
    BY <1>1 DEF CilkInv, AwayCounted, Lifecycle, Uncounted, CilkSync, At, Goto, workerVars
  <1> QED
    BY <1>1, <1>2, <1>3 DEF CilkInv

LEMMA CilkByeStep ==
  ASSUME CilkInv, CilkBye
  PROVE  CilkInv'
  <1>1. Queued' /\ Away' = Away /\ Working' = Working /\ JobsOnce'
    BY Quiet DEF CilkBye, At, Goto, workerVars
  <1>2. TypeOK'
    BY DEF CilkInv, TypeOK, CilkBye, At, Goto, InvokerWords, workerVars
  <1>3. AwayCounted' /\ Lifecycle'
    BY <1>1 DEF CilkInv, AwayCounted, Lifecycle, Uncounted, CilkBye, At, Goto, workerVars
  <1> QED
    BY <1>1, <1>2, <1>3 DEF CilkInv

LEMMA CountSpawnedStep ==
  ASSUME CilkInv, CountSpawned
  PROVE  CilkInv'
  <1>1. Queued' /\ Away' = Away /\ Working' = Working /\ JobsOnce'
    BY Quiet DEF CountSpawned, At, Goto, workerVars
  <1>2. TypeOK'
    BY DEF CilkInv, TypeOK, CountSpawned, At, Goto, InvokerWords, workerVars
  <1>3. AwayCounted' /\ Lifecycle'
    BY <1>1 DEF CilkInv, TypeOK, AwayCounted, Lifecycle, Uncounted, CountSpawned, At, Goto, workerVars
  <1> QED
    BY <1>1, <1>2, <1>3 DEF CilkInv

(* cilk-sync returns when sync# is zero; then nobody is away, and at the   *)
(* end of cilk-init, where somebody has been started, the list is not      *)
(* empty.                                                                  *)
LEMMA SyncStepStep ==
  ASSUME CilkInv, SyncStep
  PROVE  CilkInv'
  <1>1. UNCHANGED <<workers, pipe, state, inbox, job, runs, spawned, sync, allocated>>
    BY DEF SyncStep, Stop, Goto, workerVars
  <1>2. word \in {"cilk-sync", "init-sync", "bye-sync"}
    BY DEF SyncStep, At
  <1>3. \/ word' = word /\ serving' = "stop" /\ left' = left
        \/ sync = 0 /\ word = "bye-sync" /\ word' = "cilk-bye" /\ left' = Len(workers)
             /\ serving = "no" /\ serving' = "no"
        \/ sync = 0 /\ word # "bye-sync" /\ word' = "idle" /\ left' = left
             /\ serving' = "no"
    BY DEF SyncStep, Stop, Goto, At, CilkInv, TypeOK
  <1>4. Queued' /\ Away' = Away /\ Working' = Working /\ JobsOnce'
    BY <1>1, <1>2, <1>3, Quiet
  <1>5. TypeOK'
    BY <1>1, <1>2, <1>3 DEF CilkInv, TypeOK, InvokerWords
  <1>6. AwayCounted'
    BY <1>1, <1>2, <1>3, <1>4 DEF CilkInv, AwayCounted, Uncounted
  <1>7. Lifecycle'
    <2>1. sync = 0 => Away = {}
      BY <1>2, AwayFacts DEF Uncounted
    <2>2. sync = 0 => Working = Elems(workers)
      BY <2>1, BusyAway DEF CilkInv, Away
    <2>3. workers = <<>> => Elems(workers) = {}
      BY ElemsType DEF CilkInv, TypeOK
    <2> QED
      BY <1>1, <1>2, <1>3, <1>4, <2>2, <2>3 DEF CilkInv, Lifecycle
  <1> QED
    BY <1>4, <1>5, <1>6, <1>7 DEF CilkInv

(* The end of cilk-bye: all have been told. *)
LEMMA ByeEndStep ==
  ASSUME CilkInv, ByeEnd
  PROVE  CilkInv' /\ Working' = {}
  <1>1. /\ word = "cilk-bye" /\ left = 0 /\ word' = "idle" /\ workers' = <<>>
        /\ allocated' = FALSE /\ sync' = 0
        /\ UNCHANGED <<serving, left, pipe, state, job, runs, inbox, spawned>>
    BY DEF ByeEnd, At, Goto, workerVars
  <1>2. workers = <<>> /\ sync = 0
    <2>1. Len(workers) = 0 /\ sync = 0 /\ workers \in Seq(Workers)
      BY <1>1 DEF CilkInv, TypeOK, Lifecycle
    <2> QED
      BY <2>1, EmptySeq
  <1>3. Queued' /\ Away' = Away /\ Working' = Working /\ JobsOnce'
    BY <1>1, <1>2, Quiet
  <1>4. Working = {}
    <2>1. Away = {}
      BY <1>1, <1>2, AwayFacts DEF Uncounted
    <2> QED
      BY <1>2, <2>1, ElemsType DEF Away, CilkInv, TypeOK
  <1>5. TypeOK' /\ AwayCounted' /\ Lifecycle'
    BY <1>1, <1>2, <1>3, <1>4 DEF CilkInv, TypeOK, AwayCounted, Lifecycle, Uncounted, InvokerWords
  <1> QED
    BY <1>3, <1>4, <1>5 DEF CilkInv

(* spawn: the next subproblem exists and has been sent to nobody. *)
LEMMA SpawnStart ==
  ASSUME CilkInv, Spawn
  PROVE  CilkInv'
  <1>1. /\ word = "idle" /\ serving = "no" /\ allocated /\ spawned < MaxJobs
        /\ word' = "spawn" /\ spawned' = spawned + 1
        /\ UNCHANGED <<serving, left, workers, allocated, sync, pipe, state, job, runs, inbox>>
    BY DEF Spawn, At, Goto, workerVars
  <1>2. Queued' /\ Away' = Away /\ Working' = Working
    BY <1>1, Quiet
  <1>3. spawned \in 0 .. MaxJobs /\ MaxJobs \in Nat
    BY CilkAssumption DEF CilkInv, TypeOK
  <1>4. TypeOK' /\ AwayCounted' /\ Lifecycle'
    BY <1>1, <1>2, <1>3 DEF CilkInv, TypeOK, AwayCounted, Lifecycle, Uncounted, InvokerWords
  <1>5. JobsOnce'
    <2>1. \A w \in Workers, j \in Jobs : Holds(w, j)' <=> Holds(w, j)
      BY <1>1 DEF Holds
    <2>2. \A j \in Jobs : (j <= spawned /\ ~Unsent(j)) <=> (j <= spawned' /\ ~Unsent(j)')
      BY <1>1, <1>3 DEF Unsent, Jobs
    <2> QED
      BY <1>1, <2>1, <2>2 DEF CilkInv, JobsOnce
  <1> QED
    BY <1>2, <1>4, <1>5 DEF CilkInv

(* What worker@ does to the queues when there is somebody in the list: the *)
(* first one of the list gets the event.                                   *)
LEMMA Taken ==
  ASSUME CilkInv, workers # <<>>, NEW e \in Jobs \cup {Bye},
         workers' = Tail(workers),
         inbox' = [inbox EXCEPT ![Head(workers)] = Append(@, e)],
         UNCHANGED <<pipe, state>>
  PROVE  /\ Head(workers) \in Working
         /\ inbox[Head(workers)] = <<>> /\ inbox'[Head(workers)] = <<e>>
         /\ state[Head(workers)] = "stop"
         /\ workers' \in Seq(Workers) /\ Len(workers') = Len(workers) - 1
         /\ inbox' \in [Workers -> Seq(Jobs \cup {Bye})]
         /\ Queued'
         /\ Away' = IF e = Bye THEN Away ELSE Away \cup {Head(workers)}
         /\ Head(workers) \notin Away
  <1> DEFINE h == Head(workers)
  <1>1. /\ workers \in Seq(Workers) /\ pipe \in Seq(Workers)
        /\ inbox \in [Workers -> Seq(Jobs \cup {Bye})]
        /\ Queued
    BY DEF CilkInv, TypeOK
  <1>2. /\ workers' \in Seq(Workers) /\ h \in Workers /\ h \in Elems(workers)
        /\ Len(workers') = Len(workers) - 1
        /\ Distinct(workers') /\ Elems(workers') = Elems(workers) \ {h}
    BY <1>1, TailElems DEF Queued
  <1>3. inbox[h] = <<>> /\ state[h] = "stop" /\ h \notin Elems(pipe)
    BY <1>1, <1>2 DEF Queued
  <1>4. /\ inbox'[h] = <<e>> /\ \A w \in Workers : w # h => inbox'[w] = inbox[w]
        /\ inbox' \in [Workers -> Seq(Jobs \cup {Bye})]
    BY <1>1, <1>2, <1>3
  <1>5. Queued'
    <2>1. \A w \in Elems(workers)' : w \in Elems(workers) /\ w # h
      BY <1>2
    <2>2. Elems(workers) \subseteq Workers /\ Elems(pipe) \subseteq Workers
      BY <1>1, ElemsType
    <2> QED
      BY <1>1, <1>2, <1>3, <1>4, <2>1, <2>2 DEF Queued
  <1>6. h \in Working /\ h \notin Away
    BY <1>2, <1>3, BusyAway DEF CilkInv, Away
  <1>7. Working' = IF e = Bye THEN Working \ {h} ELSE Working
    <2>1. <<e>> = <<Bye>> <=> e = Bye
      OBVIOUS
    <2> QED
      BY <1>2, <1>4, <1>6, <2>1 DEF Working
  <1>8. Away' = IF e = Bye THEN Away ELSE Away \cup {h}
    BY <1>2, <1>6, <1>7 DEF Away
  <1> QED
    BY <1>2, <1>3, <1>4, <1>5, <1>6, <1>8

LEMMA SpawnStepStep ==
  ASSUME CilkInv, SpawnStep
  PROVE  CilkInv'
  <1> USE DEF workerVars
  <1>0. word = "spawn" /\ serving = "no" /\ spawned \in Jobs /\ allocated
        /\ UNCHANGED <<state, job, runs, spawned>>
    BY DEF SpawnStep, At, CilkInv, Lifecycle, TypeOK, Jobs
  <1>1. CASE workers = <<>>
    <2>1. /\ serving' = "stop"
          /\ UNCHANGED <<word, left, workers, allocated, sync, pipe, inbox>>
      BY <1>1 DEF SpawnStep, TakeWorker, Stop
    <2>2. Queued' /\ Away' = Away /\ Working' = Working /\ JobsOnce'
      BY <1>0, <2>1, Quiet
    <2>3. TypeOK' /\ AwayCounted' /\ Lifecycle'
      BY <1>0, <2>1, <2>2 DEF CilkInv, TypeOK, AwayCounted, Lifecycle, Uncounted
    <2> QED
      BY <2>2, <2>3 DEF CilkInv
  <1>2. CASE workers # <<>>
    <2> DEFINE h == Head(workers)
    <2>1. /\ workers' = Tail(workers) /\ word' = "spawned"
          /\ inbox' = [inbox EXCEPT ![h] = Append(@, spawned)]
          /\ UNCHANGED <<allocated, sync, pipe, left, serving>>
      BY <1>2 DEF SpawnStep, TakeWorker, Goto
    <2>2. spawned # Bye
      BY <1>0, CilkAssumption DEF Jobs
    <2>3. /\ h \in Working /\ inbox[h] = <<>> /\ inbox'[h] = <<spawned>> /\ state[h] = "stop"
          /\ workers' \in Seq(Workers) /\ inbox' \in [Workers -> Seq(Jobs \cup {Bye})]
          /\ Queued' /\ Away' = Away \cup {h} /\ h \notin Away
      BY <1>0, <1>2, <2>1, <2>2, Taken
    <2>4. TypeOK'
      BY <1>0, <2>1, <2>3 DEF CilkInv, TypeOK, InvokerWords
    <2>5. AwayCounted'
      <3>1. IsFiniteSet(Away) /\ Cardinality(Away) = sync /\ sync \in Nat
        BY <1>0 DEF CilkInv, TypeOK, AwayCounted, Uncounted
      <3>2. IsFiniteSet(Away') /\ Cardinality(Away') = sync + 1
        BY <2>3, <3>1, FS_AddElement
      <3> QED
        BY <2>1, <3>2 DEF AwayCounted, Uncounted
    <2>6. Lifecycle'
      BY <1>0, <2>1 DEF Lifecycle
    <2>7. JobsOnce'
      <3>1. h \in Workers
        BY <2>3 DEF Working
      <3>2. \A w \in Workers, j \in Jobs : Holds(w, j)' <=> Holds(w, j) \/ (w = h /\ j = spawned)
        <4>1. \A j \in Jobs : <<spawned>> = <<j>> <=> j = spawned
          OBVIOUS
        <4>2. \A j \in Jobs : ~Holds(h, j)
          BY <2>3 DEF Holds
        <4>3. \A w \in Workers : w # h => inbox'[w] = inbox[w]
          BY <2>1, <3>1 DEF CilkInv, TypeOK
        <4> QED
          BY <1>0, <2>3, <3>1, <4>1, <4>2, <4>3 DEF Holds
      <3>3. \A w \in Workers : ~Holds(w, spawned)
        BY <1>0 DEF CilkInv, JobsOnce, Unsent
      <3>4. \A j \in Jobs : ~Unsent(j)' /\ (Unsent(j) <=> j = spawned)
        BY <1>0, <2>1 DEF Unsent
      <3>5. \A w \in Workers, j \in Jobs : Holds(w, j)' => j <= spawned
        BY <1>0, <3>2 DEF CilkInv, JobsOnce, Jobs
      <3>6. \A j \in Jobs : runs'[j] = IF j <= spawned' /\ ~Unsent(j)' /\ \A w \in Workers : ~Holds(w, j)'
                               THEN 1 ELSE 0
        <4> TAKE j \in Jobs
        <4>1. CASE j = spawned
          <5>1. runs[j] = 0
            BY <4>1, <3>4 DEF CilkInv, JobsOnce
          <5> QED
            BY <1>0, <3>1, <3>2, <4>1, <5>1
        <4>2. CASE j # spawned
          BY <1>0, <3>2, <3>4, <4>2 DEF CilkInv, JobsOnce
        <4> QED
          BY <4>1, <4>2
      <3>7. \A v, w \in Workers, j \in Jobs : Holds(v, j)' /\ Holds(w, j)' => v = w
        BY <3>2, <3>3 DEF CilkInv, JobsOnce
      <3> QED
        BY <1>0, <3>4, <3>5, <3>6, <3>7 DEF CilkInv, JobsOnce
    <2> QED
      BY <2>3, <2>4, <2>5, <2>6, <2>7 DEF CilkInv
  <1> QED
    BY <1>1, <1>2

(* A step that gives nobody a subproblem and executes none. *)
LEMMA SameJobs ==
  ASSUME CilkInv, UNCHANGED <<runs, spawned>>, word = "spawn" <=> word' = "spawn",
         \A w \in Workers, j \in Jobs : Holds(w, j)' <=> Holds(w, j),
         \A w \in Workers : state'[w] = "running" => job'[w] \in Jobs
  PROVE  JobsOnce'
  BY DEF CilkInv, JobsOnce, Unsent

LEMMA ByeStepStep ==
  ASSUME CilkInv, ByeStep
  PROVE  CilkInv'
  <1> DEFINE h == Head(workers)
  <1>1. word = "cilk-bye" /\ left > 0 /\ left = Len(workers) /\ serving = "no" /\ sync = 0
    BY DEF ByeStep, At, CilkInv, Lifecycle
  <1>2. workers # <<>> /\ workers \in Seq(Workers)
    BY <1>1 DEF CilkInv, TypeOK
  <1>3. /\ workers' = Tail(workers) /\ word' = "cilk-bye" /\ left' = left - 1
        /\ inbox' = [inbox EXCEPT ![h] = Append(@, Bye)]
        /\ UNCHANGED <<allocated, sync, pipe, serving, state, job, runs, spawned>>
    BY <1>1, <1>2 DEF ByeStep, TakeWorker, Goto, workerVars
  <1>4. /\ h \in Working /\ inbox[h] = <<>> /\ inbox'[h] = <<Bye>> /\ state[h] = "stop"
        /\ workers' \in Seq(Workers) /\ Len(workers') = Len(workers) - 1
        /\ inbox' \in [Workers -> Seq(Jobs \cup {Bye})]
        /\ Queued' /\ Away' = Away
    BY <1>2, <1>3, Taken
  <1>5. TypeOK'
    BY <1>1, <1>3, <1>4 DEF CilkInv, TypeOK
  <1>6. AwayCounted' /\ Lifecycle'
    BY <1>1, <1>2, <1>3, <1>4 DEF CilkInv, TypeOK, AwayCounted, Uncounted, Lifecycle
  <1>7. JobsOnce'
    <2>1. \A j \in Jobs : <<Bye>> # <<j>>
      BY CilkAssumption DEF Jobs
    <2>2. \A w \in Workers : w # h => inbox'[w] = inbox[w]
      BY <1>3 DEF CilkInv, TypeOK
    <2>3. \A w \in Workers, j \in Jobs : Holds(w, j)' <=> Holds(w, j)
      BY <1>3, <1>4, <2>1, <2>2 DEF Holds
    <2> QED
      BY <1>1, <1>3, <2>3, SameJobs DEF CilkInv, JobsOnce
  <1> QED
    BY <1>4, <1>5, <1>6, <1>7 DEF CilkInv

(* worker-thread: one more worker, which is counted next. *)
LEMMA WorkerThreadStep ==
  ASSUME CilkInv, WorkerThread
  PROVE  CilkInv'
  <1>1. PICK n \in New : state' = [state EXCEPT ![n] = "announce"]
    BY DEF WorkerThread
  <1>2. /\ word = "start-workers" /\ serving = "no" /\ left > 0 /\ word' = "started"
        /\ UNCHANGED <<serving, left, workers, allocated, sync, pipe, inbox, spawned, job, runs>>
    BY DEF WorkerThread, At, Goto
  <1>3. n \in Workers /\ state[n] = "new" /\ inbox[n] = <<>>
        /\ n \notin Elems(workers) /\ n \notin Elems(pipe)
    BY DEF New, CilkInv, Queued
  <1>4. state'[n] = "announce" /\ \A w \in Workers : w # n => state'[w] = state[w]
    BY <1>1, <1>3 DEF CilkInv, TypeOK
  <1>5. Elems(workers) \subseteq Workers /\ Elems(pipe) \subseteq Workers
    BY ElemsType DEF CilkInv, TypeOK
  <1>6. TypeOK'
    BY <1>1, <1>2 DEF CilkInv, TypeOK, InvokerWords
  <1>7. Queued'
    BY <1>2, <1>3, <1>4, <1>5 DEF CilkInv, Queued
  <1>8. Working' = Working \cup {n} /\ n \notin Working
    <2>1. <<>> # <<Bye>>
      OBVIOUS
    <2> QED
      BY <1>2, <1>3, <1>4, <2>1 DEF Working
  <1>9. AwayCounted'
    <2>1. Away' = Away \cup {n} /\ n \notin Away
      BY <1>2, <1>3, <1>8 DEF Away
    <2>2. IsFiniteSet(Away) /\ Cardinality(Away) = sync /\ sync \in Nat
      BY <1>2 DEF CilkInv, TypeOK, AwayCounted, Uncounted
    <2>3. IsFiniteSet(Away') /\ Cardinality(Away') = sync + 1
      BY <2>1, <2>2, FS_AddElement
    <2> QED
      BY <1>2, <2>3 DEF AwayCounted, Uncounted
  <1>10. Lifecycle'
    BY <1>2, <1>8 DEF CilkInv, Lifecycle
  <1>11. JobsOnce'
    <2>1. \A w \in Workers : state'[w] = "running" <=> state[w] = "running"
      BY <1>3, <1>4
    <2>2. \A w \in Workers, j \in Jobs : Holds(w, j)' <=> Holds(w, j)
      BY <1>2, <2>1 DEF Holds
    <2> QED
      BY <1>2, <2>1, <2>2, SameJobs DEF CilkInv, JobsOnce
  <1> QED
    BY <1>6, <1>7, <1>9, <1>10, <1>11 DEF CilkInv

(* The event of +worker: the worker that has announced itself was away. *)
LEMMA ListedStep ==
  ASSUME CilkInv, Listed
  PROVE  CilkInv'
  <1> DEFINE h == Head(pipe)
  <1>1. /\ serving # "no" /\ pipe # <<>> /\ serving' = "?events" /\ sync' = sync - 1
        /\ workers' = Append(workers, h) /\ pipe' = Tail(pipe) /\ allocated' = TRUE
        /\ UNCHANGED <<word, left, state, job, runs, inbox, spawned>>
    BY DEF Listed, workerVars
  <1>2. word \notin {"start-workers", "started", "spawned", "cilk-bye"}
    BY <1>1 DEF CilkInv, Lifecycle
  <1>3. sync \in Nat /\ sync >= 1
    BY <1>1, <1>2, AwayFacts DEF Uncounted
  <1>4. /\ pipe' \in Seq(Workers) /\ h \in Workers /\ h \in Elems(pipe)
        /\ Distinct(pipe') /\ Elems(pipe') = Elems(pipe) \ {h}
    BY <1>1, TailElems DEF CilkInv, TypeOK, Queued
  <1>5. state[h] = "stop" /\ inbox[h] = <<>> /\ h \notin Elems(workers) /\ h \in Away
    BY <1>4, BusyAway DEF CilkInv, Queued
  <1>6. /\ workers' \in Seq(Workers) /\ Distinct(workers')
        /\ Elems(workers') = Elems(workers) \cup {h}
    BY <1>1, <1>4, <1>5, AppendElems, SMTT(20) DEF CilkInv, TypeOK, Queued
  <1>7. TypeOK'
    BY <1>1, <1>3, <1>4, <1>6, SMTT(20) DEF CilkInv, TypeOK
  <1>8. Queued'
    BY <1>1, <1>4, <1>5, <1>6 DEF CilkInv, Queued
  <1>9. Working' = Working
    BY <1>1 DEF Working
  <1>10. AwayCounted'
    <2>1. Away' = Away \ {h}
      BY <1>6, <1>9 DEF Away
    <2>2. IsFiniteSet(Away) /\ Cardinality(Away) = sync
      BY <1>2, <1>3 DEF CilkInv, AwayCounted, Uncounted
    <2>3. IsFiniteSet(Away') /\ Cardinality(Away') = sync - 1
      BY <1>5, <2>1, <2>2, FS_RemoveElement
    <2> QED
      BY <1>1, <1>2, <1>3, <2>3 DEF AwayCounted, Uncounted
  <1>11. Lifecycle'
    BY <1>1, <1>2, <1>9 DEF CilkInv, Lifecycle
  <1>12. JobsOnce'
    <2>1. \A w \in Workers, j \in Jobs : Holds(w, j)' <=> Holds(w, j)
      BY <1>1 DEF Holds
    <2> QED
      BY <1>1, <2>1, SameJobs DEF CilkInv, JobsOnce
  <1> QED
    BY <1>7, <1>8, <1>10, <1>11, <1>12 DEF CilkInv

LEMMA AnnounceStep ==
  ASSUME CilkInv, NEW w \in Workers, Announce(w)
  PROVE  CilkInv'
  <1>1. /\ state[w] = "announce" /\ pipe' = Append(pipe, w)
        /\ state' = [state EXCEPT ![w] = "stop"]
        /\ UNCHANGED <<word, serving, left, workers, allocated, sync, inbox, spawned, job, runs>>
    BY DEF Announce, invokerVars
  <1>2. state'[w] = "stop" /\ \A v \in Workers : v # w => state'[v] = state[v]
    BY <1>1 DEF CilkInv, TypeOK
  <1>3. inbox[w] = <<>> /\ w \notin Elems(workers) /\ w \notin Elems(pipe)
    BY <1>1 DEF CilkInv, Queued
  <1>4. /\ pipe' \in Seq(Workers) /\ Distinct(pipe')
        /\ Elems(pipe') = Elems(pipe) \cup {w}
    BY <1>1, <1>3, AppendElems DEF CilkInv, TypeOK, Queued
  <1>5. Elems(workers) \subseteq Workers /\ Elems(pipe) \subseteq Workers
    BY ElemsType DEF CilkInv, TypeOK
  <1>6. TypeOK'
    BY <1>1, <1>4 DEF CilkInv, TypeOK
  <1>7. Queued'
    BY <1>1, <1>2, <1>3, <1>4, <1>5 DEF CilkInv, Queued
  <1>8. Working' = Working /\ Away' = Away
    BY <1>1, <1>2 DEF Working, Away
  <1>9. AwayCounted' /\ Lifecycle'
    BY <1>1, <1>8 DEF CilkInv, AwayCounted, Lifecycle, Uncounted
  <1>10. JobsOnce'
    <2>1. \A v \in Workers : state'[v] = "running" <=> state[v] = "running"
      BY <1>1, <1>2
    <2>2. \A v \in Workers, j \in Jobs : Holds(v, j)' <=> Holds(v, j)
      BY <1>1, <2>1 DEF Holds
    <2> QED
      BY <1>1, <2>1, <2>2, SameJobs DEF CilkInv, JobsOnce
  <1> QED
    BY <1>6, <1>7, <1>9, <1>10 DEF CilkInv

LEMMA AgainStep ==
  ASSUME CilkInv, NEW w \in Workers, Again(w)
  PROVE  CilkInv'
  <1>1. /\ state[w] = "?events" /\ state' = [state EXCEPT ![w] = "announce"]
        /\ UNCHANGED <<word, serving, left, workers, allocated, sync, pipe, inbox, spawned, job, runs>>
    BY DEF Again, invokerVars
  <1>2. state'[w] = "announce" /\ \A v \in Workers : v # w => state'[v] = state[v]
    BY <1>1 DEF CilkInv, TypeOK
  <1>3. inbox[w] = <<>> /\ w \notin Elems(workers) /\ w \notin Elems(pipe)
    BY <1>1 DEF CilkInv, Queued
  <1>4. Elems(workers) \subseteq Workers /\ Elems(pipe) \subseteq Workers
    BY ElemsType DEF CilkInv, TypeOK
  <1>5. TypeOK'
    BY <1>1 DEF CilkInv, TypeOK
  <1>6. Queued'
    BY <1>1, <1>2, <1>3, <1>4 DEF CilkInv, Queued
  <1>7. Working' = Working /\ Away' = Away
    BY <1>1, <1>2 DEF Working, Away
  <1>8. AwayCounted' /\ Lifecycle'
    BY <1>1, <1>7 DEF CilkInv, AwayCounted, Lifecycle, Uncounted
  <1>9. JobsOnce'
    <2>1. \A v \in Workers : state'[v] = "running" <=> state[v] = "running"
      BY <1>1, <1>2
    <2>2. \A v \in Workers, j \in Jobs : Holds(v, j)' <=> Holds(v, j)
      BY <1>1, <2>1 DEF Holds
    <2> QED
      BY <1>1, <2>1, <2>2, SameJobs DEF CilkInv, JobsOnce
  <1> QED
    BY <1>5, <1>6, <1>8, <1>9 DEF CilkInv

(* (stop) of a worker: the event in its inbox becomes what it does. *)
LEMMA ReceiveStep ==
  ASSUME CilkInv, NEW w \in Workers, Receive(w)
  PROVE  CilkInv'
  <1>1. /\ inbox[w] # <<>> /\ inbox' = [inbox EXCEPT ![w] = Tail(@)]
        /\ UNCHANGED <<word, serving, left, workers, allocated, sync, pipe, spawned, runs>>
    BY DEF Receive, invokerVars
  <1>2. PICK e \in Jobs \cup {Bye} : inbox[w] = <<e>>
    BY <1>1 DEF CilkInv, Queued
  <1>3. state[w] = "stop" /\ Head(inbox[w]) = e /\ Tail(inbox[w]) = <<>>
    BY <1>1, <1>2 DEF CilkInv, Queued
  <1>4. inbox'[w] = <<>> /\ (\A v \in Workers : v # w => inbox'[v] = inbox[v])
        /\ inbox' \in [Workers -> Seq(Jobs \cup {Bye})]
    BY <1>1, <1>3 DEF CilkInv, TypeOK
  <1>5. w \notin Elems(workers) /\ w \notin Elems(pipe)
    BY <1>1 DEF CilkInv, Queued
  <1>6. Elems(workers) \subseteq Workers /\ Elems(pipe) \subseteq Workers
    BY ElemsType DEF CilkInv, TypeOK
  <1>7. /\ e = Bye => state' = [state EXCEPT ![w] = "gone"] /\ job' = job
        /\ e # Bye => state' = [state EXCEPT ![w] = "running"] /\ job' = [job EXCEPT ![w] = e]
    BY <1>3 DEF Receive
  <1>8. /\ \A v \in Workers : v # w => state'[v] = state[v] /\ job'[v] = job[v]
        /\ e = Bye => state'[w] = "gone"
        /\ e # Bye => state'[w] = "running" /\ job'[w] = e /\ e \in Jobs
    BY <1>7 DEF CilkInv, TypeOK
  <1>9. TypeOK'
    <2>1. Jobs \subseteq 0 .. MaxJobs
      BY DEF Jobs
    <2> QED
      BY <1>1, <1>4, <1>7, <2>1 DEF CilkInv, TypeOK
  <1>10. Queued'
    BY <1>1, <1>4, <1>5, <1>6, <1>8 DEF CilkInv, Queued
  <1>11. Working' = Working /\ Away' = Away
    <2>1. <<e>> = <<Bye>> <=> e = Bye
      OBVIOUS
    <2>2. <<>> # <<Bye>>
      OBVIOUS
    <2>3. \A v \in Workers : v \in Working' <=> v \in Working
      BY <1>2, <1>3, <1>4, <1>8, <2>1, <2>2 DEF Working
    <2>4. Working' = Working
      BY <2>3 DEF Working
    <2> QED
      BY <1>1, <2>4 DEF Away
  <1>12. AwayCounted' /\ Lifecycle'
    BY <1>1, <1>11 DEF CilkInv, AwayCounted, Lifecycle, Uncounted
  <1>13. JobsOnce'
    <2>1. \A v \in Workers, j \in Jobs : Holds(v, j)' <=> Holds(v, j)
      <3>1. \A j \in Jobs : /\ <<e>> = <<j>> <=> e = j
                            /\ <<>> # <<j>> /\ j # Bye
        BY CilkAssumption DEF Jobs
      <3> QED
        BY <1>2, <1>3, <1>4, <1>8, <3>1 DEF Holds
    <2>2. \A v \in Workers : state'[v] = "running" => job'[v] \in Jobs
      BY <1>8 DEF CilkInv, JobsOnce
    <2> QED
      BY <1>1, <2>1, <2>2, SameJobs
  <1> QED
    BY <1>9, <1>10, <1>12, <1>13 DEF CilkInv

(* A subproblem is executed, for the first time. *)
LEMMA ExecuteStep ==
  ASSUME CilkInv, NEW w \in Workers, Execute(w)
  PROVE  CilkInv' /\ runs[job[w]] = 0 /\ job[w] \in Jobs /\ job[w] <= spawned
  <1> DEFINE j0 == job[w]
  <1>1. /\ state[w] = "running" /\ runs' = [runs EXCEPT ![j0] = @ + 1]
        /\ state' = [state EXCEPT ![w] = "?events"]
        /\ UNCHANGED <<word, serving, left, workers, allocated, sync, pipe, inbox, spawned, job>>
    BY DEF Execute, invokerVars
  <1>2. state'[w] = "?events" /\ \A v \in Workers : v # w => state'[v] = state[v]
    BY <1>1 DEF CilkInv, TypeOK
  <1>3. inbox[w] = <<>> /\ w \notin Elems(workers) /\ w \notin Elems(pipe)
    BY <1>1 DEF CilkInv, Queued
  <1>4. Elems(workers) \subseteq Workers /\ Elems(pipe) \subseteq Workers
    BY ElemsType DEF CilkInv, TypeOK
  <1>5. /\ j0 \in Jobs /\ Holds(w, j0) /\ j0 <= spawned /\ ~Unsent(j0) /\ runs[j0] = 0
        /\ \A v \in Workers : v # w => ~Holds(v, j0)
    BY <1>1 DEF CilkInv, JobsOnce, Holds
  <1>6. TypeOK'
    BY <1>1, <1>5 DEF CilkInv, TypeOK
  <1>7. Queued'
    BY <1>1, <1>2, <1>3, <1>4 DEF CilkInv, Queued
  <1>8. Working' = Working /\ Away' = Away
    BY <1>1, <1>2 DEF Working, Away
  <1>9. AwayCounted' /\ Lifecycle'
    BY <1>1, <1>8 DEF CilkInv, AwayCounted, Lifecycle, Uncounted
  <1>10. JobsOnce'
    <2>1. \A v \in Workers, j \in Jobs : Holds(v, j)' <=> Holds(v, j) /\ ~(v = w /\ j = j0)
      <3>1. \A j \in Jobs : <<>> # <<j>>
        OBVIOUS
      <3>2. \A j \in Jobs : ~Holds(w, j)' /\ (Holds(w, j) <=> j = j0)
        BY <1>1, <1>2, <1>3, <3>1 DEF Holds
      <3>3. \A v \in Workers, j \in Jobs : v # w => (Holds(v, j)' <=> Holds(v, j))
        BY <1>1, <1>2 DEF Holds
      <3> QED
        BY <3>2, <3>3
    <2>2. \A j \in Jobs : Unsent(j)' <=> Unsent(j)
      BY <1>1 DEF Unsent
    <2>3. runs'[j0] = 1 /\ \A j \in Jobs : j # j0 => runs'[j] = runs[j]
      BY <1>1, <1>5 DEF CilkInv, TypeOK
    <2>4. \A j \in Jobs : runs'[j] = IF j <= spawned' /\ ~Unsent(j)' /\ \A v \in Workers : ~Holds(v, j)'
                               THEN 1 ELSE 0
      <3> TAKE j \in Jobs
      <3>1. CASE j = j0
        BY <1>1, <1>5, <2>1, <2>2, <2>3, <3>1
      <3>2. CASE j # j0
        BY <1>1, <2>1, <2>2, <2>3, <3>2 DEF CilkInv, JobsOnce
      <3> QED
        BY <3>1, <3>2
    <2>5. \A v \in Workers : state'[v] = "running" => job'[v] \in Jobs
      BY <1>1, <1>2 DEF CilkInv, JobsOnce
    <2> QED
      BY <1>1, <2>1, <2>2, <2>4, <2>5 DEF CilkInv, JobsOnce
  <1> QED
    BY <1>5, <1>6, <1>7, <1>9, <1>10 DEF CilkInv

-----------------------------------------------------------------------------
(* The theorems. *)

LEMMA InvInit == Init => CilkInv
  <1> SUFFICES ASSUME Init PROVE CilkInv
    OBVIOUS
  <1>1. TypeOK
    <2>1. /\ word \in InvokerWords /\ serving \in {"no", "stop", "?events"}
          /\ left \in Nat /\ sync \in Nat /\ allocated \in BOOLEAN
      BY DEF Init, InvokerWords
    <2>2. /\ workers \in Seq(Workers) /\ pipe \in Seq(Workers)
          /\ inbox \in [Workers -> Seq(Jobs \cup {Bye})]
      BY DEF Init
    <2>3. /\ state \in [Workers -> {"new", "announce", "stop", "running", "?events", "gone"}]
          /\ job \in [Workers -> 0 .. MaxJobs]
          /\ spawned \in 0 .. MaxJobs /\ runs \in [Jobs -> Nat]
      BY CilkAssumption DEF Init
    <2> QED
      BY <2>1, <2>2, <2>3 DEF TypeOK
  <1>2. Elems(workers) = {} /\ Elems(pipe) = {} /\ Distinct(workers) /\ Distinct(pipe)
    BY DEF Init, Elems, Distinct
  <1>3. Queued
    BY <1>2 DEF Init, Queued
  <1>4. Working = {} /\ Away = {}
    BY DEF Init, Working, Away
  <1>5. AwayCounted
    BY <1>4, FS_EmptySet DEF Init, AwayCounted, Uncounted
  <1>6. Lifecycle
    BY <1>4 DEF Init, Lifecycle
  <1>7. JobsOnce
    BY DEF Init, JobsOnce, Holds, Unsent, Jobs
  <1> QED
    BY <1>1, <1>3, <1>5, <1>6, <1>7 DEF CilkInv

LEMMA InvNext == CilkInv /\ [Next]_vars => CilkInv'
  <1> SUFFICES ASSUME CilkInv, [Next]_vars PROVE CilkInv'
    OBVIOUS
  <1>1. CASE Program
    BY <1>1, CilkInitStep, CilkSyncStep, SpawnStart, CilkByeStep, PauseStep DEF Program
  <1>2. CASE Invoker
    BY <1>2, WorkerThreadStep, CountStartedStep, AllStartedStep, SyncStepStep, SpawnStepStep,
       CountSpawnedStep, ByeStepStep, ByeEndStep, ListedStep, ServedStep
       DEF Invoker
  <1>3. CASE \E w \in Workers : Worker(w)
    BY <1>3, AnnounceStep, ReceiveStep, ExecuteStep, AgainStep DEF Worker
  <1>4. CASE UNCHANGED vars
    <2>1. UNCHANGED <<word, serving, left, workers, allocated, sync, pipe, state, job, inbox,
                      spawned, runs>>
      BY <1>4 DEF vars, invokerVars, workerVars
    <2>2. Queued' /\ Away' = Away /\ Working' = Working /\ JobsOnce'
      BY <2>1, Quiet
    <2> QED
      BY <2>1, <2>2 DEF CilkInv, TypeOK, AwayCounted, Lifecycle, Uncounted
  <1> QED
    BY <1>1, <1>2, <1>3, <1>4 DEF Next

(* The inductive invariant holds whatever the program calls and however    *)
(* the threads interleave.                                                 *)
THEOREM CilkInvariant == Spec => []CilkInv
  BY InvInit, InvNext, PTL DEF Spec

(* All variables keep their types; sync# never gets negative. *)
THEOREM TypeCorrect == Spec => []TypeOK
  <1>1. CilkInv => TypeOK
    BY DEF CilkInv
  <1> QED
    BY <1>1, CilkInvariant, PTL

(* sync# counts the live workers that are not in the list. *)
THEOREM SyncCounts == Spec => []Counted
  <1>1. CilkInv => Counted
    <2> SUFFICES ASSUME CilkInv PROVE Counted
      OBVIOUS
    <2>1. IsFiniteSet(Elems(workers)) /\ Cardinality(Elems(workers)) = Len(workers)
      BY LenElems DEF CilkInv, TypeOK, Queued
    <2>2. /\ Live = Away \cup Elems(workers)
          /\ Away \cap Elems(workers) = {}
      BY LiveForm, BusyAway DEF CilkInv, Away
    <2>3. IsFiniteSet(Away) /\ Cardinality(Away) = sync + Uncounted /\ sync \in Nat
      BY DEF CilkInv, AwayCounted, TypeOK
    <2>4. Cardinality(Live) = sync + Uncounted + Len(workers)
      <3>1. Cardinality(Live) = Cardinality(Away) + Cardinality(Elems(workers)) - Cardinality({})
        BY <2>1, <2>2, <2>3, FS_Union
      <3>2. Cardinality({}) = 0 /\ Uncounted \in Nat /\ Len(workers) \in Nat
        BY FS_EmptySet DEF Uncounted, CilkInv, TypeOK
      <3> QED
        BY <2>1, <2>3, <3>1, <3>2
    <2>5. Len(workers) \in Nat
      BY DEF CilkInv, TypeOK
    <2>6. Cardinality(Live) = Len(workers) + sync + Uncounted
      <3>1. Uncounted \in Nat
        BY DEF Uncounted
      <3> QED
        BY <2>3, <2>4, <2>5, <3>1
    <2> QED
      BY <2>6 DEF Counted, Uncounted
  <1> QED
    BY <1>1, CilkInvariant, PTL

(* The list holds idle workers only, and each of them once: no two         *)
(* subproblems go to one worker.                                           *)
THEOREM ListIsIdle == Spec => []ListedIdle
  <1>1. CilkInv => ListedIdle
    <2> SUFFICES ASSUME CilkInv PROVE ListedIdle
      OBVIOUS
    <2>1. \A k \in DOMAIN workers : workers[k] \in Elems(workers)
      BY DEF Elems
    <2>2. ASSUME NEW w \in Workers PROVE Len(inbox[w]) <= 1
      <3>1. CASE inbox[w] = <<>>
        BY <3>1
      <3>2. CASE \E e \in Jobs \cup {Bye} : inbox[w] = <<e>>
        <4>1. PICK e \in Jobs \cup {Bye} : inbox[w] = <<e>>
          BY <3>2
        <4> QED
          BY <4>1
      <3> QED
        BY <3>1, <3>2 DEF CilkInv, Queued
    <2> QED
      BY <2>1, <2>2 DEF CilkInv, Queued, Distinct, ListedIdle
  <1> QED
    BY <1>1, CilkInvariant, PTL

(* After cilk-bye nobody is left: no live worker, and no announcement that *)
(* the next cilk-init would take for one of its own workers.               *)
THEOREM ByeLeavesNobody == Spec => []NoStrays
  <1>1. CilkInv => NoStrays
    <2> SUFFICES ASSUME CilkInv, word = "idle", ~allocated PROVE Live = {} /\ pipe = <<>>
      BY DEF NoStrays
    <2>1. Working = {}
      BY DEF CilkInv, Lifecycle
    <2>2. Elems(pipe) = {}
      BY <2>1, BusyAway DEF CilkInv, Away
    <2> QED
      BY <2>1, <2>2, LiveForm, ElemsType DEF CilkInv, TypeOK
  <1> QED
    BY <1>1, CilkInvariant, PTL

-----------------------------------------------------------------------------
(* Fork and join. *)

(* A step outside spawn, sync and the execution of subproblems. *)
LEMMA JoinStutters ==
  ASSUME UNCHANGED <<spawned, runs>>,
         word \in {"cilk-sync", "bye-sync"} <=> word' \in {"cilk-sync", "bye-sync"}
  PROVE  UNCHANGED Join!joinVars
  <1>1. (word \in {"cilk-sync", "bye-sync"})' = (word \in {"cilk-sync", "bye-sync"})
    OBVIOUS
  <1> QED
    BY <1>1 DEF Join!joinVars

(* cilk-sync returns: sync# is zero, nobody is away, nobody has a          *)
(* subproblem, so all have been executed.                                  *)
LEMMA SyncJoins ==
  ASSUME CilkInv, SyncStep
  PROVE  [Join!ForkJoinNext]_(Join!joinVars)
  <1>1. word \in {"cilk-sync", "init-sync", "bye-sync"} /\ UNCHANGED <<spawned, runs>>
    BY DEF SyncStep, At, workerVars
  <1>2. CASE word = "init-sync" \/ sync > 0
    <2>1. word \in {"cilk-sync", "bye-sync"} <=> word' \in {"cilk-sync", "bye-sync"}
      BY <1>1, <1>2 DEF SyncStep, Stop, Goto
    <2> QED
      BY <1>1, <2>1, JoinStutters
  <1>3. CASE word # "init-sync" /\ ~(sync > 0)
    <2>1. word' \notin {"cilk-sync", "bye-sync"}
      BY <1>1, <1>3 DEF SyncStep, Stop, Goto
    <2>2. Away = {}
      BY <1>1, <1>3, AwayFacts DEF Uncounted
    <2>3. \A w \in Workers, j \in Jobs : ~Holds(w, j)
      BY <2>2, BusyAway DEF CilkInv
    <2>4. \A j \in 1 .. spawned : runs[j] = 1
      <3>1. 1 .. spawned \subseteq Jobs /\ spawned \in Nat
        BY CilkAssumption DEF CilkInv, TypeOK, Jobs
      <3>2. \A j \in Jobs : ~Unsent(j)
        BY <1>1 DEF Unsent
      <3> QED
        BY <2>3, <3>1, <3>2 DEF CilkInv, JobsOnce
    <2>5. Join!Join
      BY <1>1, <1>3, <2>1, <2>4 DEF Join!Join
    <2> QED
      BY <2>5 DEF Join!ForkJoinNext
  <1> QED
    BY <1>2, <1>3 DEF CilkInv, TypeOK

LEMMA ExecuteJoins ==
  ASSUME CilkInv, NEW w \in Workers, Execute(w)
  PROVE  Join!ForkJoinNext
  <1>1. runs[job[w]] = 0 /\ job[w] \in 1 .. MaxJobs /\ job[w] <= spawned
    BY ExecuteStep DEF Jobs
  <1>2. runs' = [runs EXCEPT ![job[w]] = 1] /\ UNCHANGED <<spawned, word>>
    BY <1>1 DEF Execute, invokerVars, CilkInv, TypeOK
  <1>3. Join!Execute(job[w])
    BY <1>1, <1>2 DEF Join!Execute
  <1> QED
    BY <1>1, <1>3 DEF Join!ForkJoinNext

(* cilk.fs implements fork and join: every subproblem is executed at most  *)
(* once, only after it was spawned, and cilk-sync returns only when all    *)
(* have been executed.                                                     *)
THEOREM CilkImplementsForkJoin == Spec => ForkJoinSpec
  <1>1. Init => Join!ForkJoinInit
    BY DEF Init, Join!ForkJoinInit, Jobs
  <1>2. CilkInv /\ [Next]_vars => [Join!ForkJoinNext]_(Join!joinVars)
    <2> SUFFICES ASSUME CilkInv, [Next]_vars PROVE [Join!ForkJoinNext]_(Join!joinVars)
      OBVIOUS
    <2>1. CASE Spawn
      <3>1. Join!Spawn
        BY <2>1 DEF Spawn, At, Goto, workerVars, Join!Spawn
      <3> QED
        BY <3>1 DEF Join!ForkJoinNext
    <2>2. CASE CilkSync \/ CilkBye
      <3>1. Join!Sync
        BY <2>2 DEF CilkSync, CilkBye, At, Goto, workerVars, Join!Sync
      <3> QED
        BY <3>1 DEF Join!ForkJoinNext
    <2>3. CASE CilkInit \/ Pause
      BY <2>3, JoinStutters DEF CilkInit, Pause, At, Goto, workerVars
    <2>4. CASE SyncStep
      BY <2>4, SyncJoins
    <2>5. CASE WorkerThread \/ CountStarted \/ AllStarted
      BY <2>5, JoinStutters DEF WorkerThread, CountStarted, AllStarted, At, Goto, workerVars
    <2>6. CASE SpawnStep
      BY <2>6, JoinStutters DEF SpawnStep, TakeWorker, Stop, At, Goto, workerVars
    <2>7. CASE ByeStep
      BY <2>7, JoinStutters DEF ByeStep, TakeWorker, Stop, At, Goto, workerVars
    <2>8. CASE CountSpawned \/ ByeEnd \/ Listed \/ Served
      BY <2>8, JoinStutters DEF CountSpawned, ByeEnd, Listed, Served, At, Goto, workerVars
    <2>9. CASE \E w \in Workers : Execute(w)
      BY <2>9, ExecuteJoins
    <2>10. CASE \E w \in Workers : Announce(w) \/ Receive(w) \/ Again(w)
      BY <2>10, JoinStutters DEF Announce, Receive, Again, invokerVars
    <2>11. CASE UNCHANGED vars
      BY <2>11, JoinStutters DEF vars, invokerVars, workerVars
    <2> QED
      BY <2>1, <2>2, <2>3, <2>4, <2>5, <2>6, <2>7, <2>8, <2>9, <2>10, <2>11
         DEF Next, Program, Invoker, Worker
  <1>3. Spec => Join!ForkJoinSpec
    BY <1>1, <1>2, CilkInvariant, PTL DEF Spec, Join!ForkJoinSpec
  <1> QED
    BY <1>3 DEF ForkJoinSpec

=============================================================================
