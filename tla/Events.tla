------------------------------ MODULE Events ------------------------------
(***************************************************************************)
(* The message queues of the pthread multitasker (unix/pthread.fs).  Every *)
(* task owns a pipe; send-event writes the xt to be executed into the pipe *)
(* of the receiver, and the receiver reads and executes xts in stop and in *)
(* ?events.  Executing an xt may send events, stop, or wait for an answer  *)
(* itself, so a task is a stack of the words it is in.                     *)
(***************************************************************************)
EXTENDS Naturals, Sequences

CONSTANTS
  Tasks,      \* the threads
  Capacity,   \* events that fit into a pipe
  MaxOps      \* bound on what the program of one task does

ASSUME EventsAssumption ==
  Capacity \in Nat \ {0} /\ MaxOps \in Nat

VARIABLES
  pipe,       \* pipe[t]: the events between epipew and epiper of t
  stack,      \* stack[t]: the words t is in, the innermost last
  wake,       \* wake[t]: the user variable wake#
  ops,        \* ops[t]: operations the program of t has started
  sent,       \* auxiliary: sent[u][t]: plain events u has sent to t
  executed,   \* auxiliary: executed[t][u]: plain events from u that t executed
  answered,   \* auxiliary: the requests of event-block whose answer was executed
  returned    \* auxiliary: the requests whose event-block has returned

vars == <<pipe, stack, wake, ops, sent, executed, answered, returned>>

-----------------------------------------------------------------------------
(* Events: what the receiver executes. *)
User(u, n)          == [xt |-> "user", from |-> u, n |-> n]
Restart(n, id)      == [xt |-> "restart", n |-> n, id |-> id]
Answer(u, n, id)    == [xt |-> "answer", to |-> u, n |-> n, id |-> id]
Halt                == [xt |-> "stop"]
Ask(u)              == [xt |-> "ask", of |-> u]

(* A plain restart of t answers no request. *)
NoRequest(t) == <<t>>

(* Words that a task can be in. *)
StopFrame           == [op |-> "stop"]
TimedFrame          == [op |-> "timed"]
EventsFrame         == [op |-> "?events"]
SendFrame(ev, t)    == [op |-> "send", ev |-> ev, to |-> t]
BlockFrame(n, id)   == [op |-> "block", n |-> n, id |-> id]

Init ==
  /\ pipe = [t \in Tasks |-> <<>>] /\ stack = [t \in Tasks |-> <<>>]
  /\ wake = [t \in Tasks |-> 0] /\ ops = [t \in Tasks |-> 0]
  /\ sent = [u \in Tasks |-> [t \in Tasks |-> 0]]
  /\ executed = [t \in Tasks |-> [u \in Tasks |-> 0]]
  /\ answered = {} /\ returned = {}

Top(t)  == stack[t][Len(stack[t])]
Rest(t) == SubSeq(stack[t], 1, Len(stack[t]) - 1)
In(t, op) == stack[t] # <<>> /\ Top(t).op = op

(* Mutant of EventBlock: it waits for the current value of wake#. *)
EventBlockSame(t, u) ==
  IF u = t THEN <<EventsFrame>>
  ELSE LET id == <<t, u, ops[t]>>
           n  == wake[t]
       IN <<BlockFrame(n, id), StopFrame, SendFrame(Answer(t, n, id), u)>>

(* Mutant of EventBlock: it stops before it has sent the request. *)
EventBlockLate(t, u) ==
  IF u = t THEN <<EventsFrame>>
  ELSE LET id == <<t, u, ops[t]>>
           n  == wake[t] + 1
       IN <<BlockFrame(n, id), SendFrame(Answer(t, n, id), u), StopFrame>>

(* event-block: the frames of a request to u.  For the task itself it only *)
(* executes what is queued.  The number to wait for is the next value of   *)
(* wake#, which nested requests do not reserve.                            *)
EventBlock(t, u) ==
  IF u = t THEN <<EventsFrame>>
  ELSE LET id == <<t, u, ops[t]>>
           n  == wake[t] + 1
       IN <<BlockFrame(n, id), StopFrame, SendFrame(Answer(t, n, id), u)>>

-----------------------------------------------------------------------------
(* The program of t, between two words.                                    *)
Operate(t, frames) ==
  /\ stack[t] = <<>> /\ ops[t] < MaxOps
  /\ ops' = [ops EXCEPT ![t] = @ + 1]
  /\ stack' = [stack EXCEPT ![t] = frames]
  /\ UNCHANGED <<pipe, wake, executed, answered, returned>>

(* send-event of a plain xt. *)
SendUser(t, u) ==
  /\ Operate(t, <<SendFrame(User(t, sent[t][u] + 1), u)>>)
  /\ sent' = [sent EXCEPT ![t][u] = @ + 1]

(* restart, and its synonym wake. *)
RestartTask(t, u) ==
  Operate(t, <<SendFrame(Restart(0, NoRequest(u)), u)>>) /\ UNCHANGED sent

(* halt, and its synonym sleep. *)
HaltTask(t, u) == Operate(t, <<SendFrame(Halt, u)>>) /\ UNCHANGED sent

(* event-block. *)
Request(t, u) == Operate(t, EventBlock(t, u)) /\ UNCHANGED sent

(* send-event of an xt that calls event-block itself. *)
SendAsking(t, u) ==
  t # u /\ Operate(t, <<SendFrame(Ask(t), u)>>) /\ UNCHANGED sent

(* stop (also in event-loop), stop-ns, and pause: a task that has nothing  *)
(* else to do serves its pipe.                                             *)
Serve(t) ==
  /\ stack[t] = <<>>
  /\ \E frame \in {StopFrame, TimedFrame, EventsFrame} :
       stack' = [stack EXCEPT ![t] = <<frame>>]
  /\ UNCHANGED <<pipe, wake, ops, sent, executed, answered, returned>>

-----------------------------------------------------------------------------
(* One step of the word t is in. *)

(* send-event: the write waits until there is room in the pipe. *)
Send(t) ==
  /\ In(t, "send") /\ Len(pipe[Top(t).to]) < Capacity
  /\ pipe' = [pipe EXCEPT ![Top(t).to] = Append(@, Top(t).ev)]
  /\ stack' = [stack EXCEPT ![t] = Rest(t)]
  /\ UNCHANGED <<wake, ops, sent, executed, answered, returned>>

(* What the xt of ev makes of the task that reads it: the words it is in,  *)
(* above the ?events it comes back to.                                     *)
Called(t, ev) ==
  IF ev.xt = "answer" THEN <<EventsFrame, SendFrame(Restart(ev.n, ev.id), ev.to)>>
  ELSE IF ev.xt = "stop" THEN <<EventsFrame, StopFrame>>
  ELSE IF ev.xt = "ask" THEN <<EventsFrame>> \o EventBlock(t, ev.of)
  ELSE <<EventsFrame>>

(* perform, in the word t is in. *)
Perform(t, ev) ==
  /\ stack' = [stack EXCEPT ![t] = Rest(t) \o Called(t, ev)]
  /\ wake' = IF ev.xt = "restart" THEN [wake EXCEPT ![t] = ev.n] ELSE wake
  /\ executed' = IF ev.xt = "user" THEN [executed EXCEPT ![t][ev.from] = ev.n]
                                   ELSE executed
  /\ answered' = answered \cup (IF ev.xt = "restart" THEN {ev.id} ELSE {})

(* Mutant of Read: the queue is read from the wrong end. *)
ReadLast(t) ==
  /\ In(t, "stop") \/ In(t, "?events")
  /\ pipe[t] # <<>>
  /\ pipe' = [pipe EXCEPT ![t] = SubSeq(@, 1, Len(@) - 1)]
  /\ Perform(t, pipe[t][Len(pipe[t])])
  /\ UNCHANGED <<ops, sent, returned>>

(* (stop): read one xt, waiting for it, perform it, then ?events; and      *)
(* ?events as long as there is an xt to read.                              *)
Read(t) ==
  /\ In(t, "stop") \/ In(t, "?events")
  /\ pipe[t] # <<>>
  /\ pipe' = [pipe EXCEPT ![t] = Tail(@)]
  /\ Perform(t, Head(pipe[t]))
  /\ UNCHANGED <<ops, sent, returned>>

(* ?events returns when the pipe is empty. *)
NoMoreEvents(t) ==
  /\ In(t, "?events") /\ pipe[t] = <<>>
  /\ stack' = [stack EXCEPT ![t] = Rest(t)]
  /\ UNCHANGED <<pipe, wake, ops, sent, executed, answered, returned>>

(* Mutant of Timed: the wait ends, and the event is not read. *)
TimedOnly(t) ==
  /\ In(t, "timed")
  /\ stack' = [stack EXCEPT ![t] = Rest(t)]
  /\ UNCHANGED <<pipe, wake, ops, sent, executed, answered, returned>>

(* stop-ns: the wait ends with an event, which stop then reads, or by the  *)
(* timeout while the pipe is still empty.                                  *)
Timed(t) ==
  /\ In(t, "timed")
  /\ stack' = [stack EXCEPT ![t] =
                 Rest(t) \o IF pipe[t] = <<>> THEN <<>> ELSE <<StopFrame>>]
  /\ UNCHANGED <<pipe, wake, ops, sent, executed, answered, returned>>

(* event-block: stop again until wake# has the awaited value. *)
Awaiting(t) ==
  /\ In(t, "block")
  /\ IF wake[t] = Top(t).n
     THEN /\ stack' = [stack EXCEPT ![t] = Rest(t)]
          /\ returned' = returned \cup {Top(t).id}
     ELSE /\ stack' = [stack EXCEPT ![t] = Append(@, StopFrame)]
          /\ UNCHANGED returned
  /\ UNCHANGED <<pipe, wake, ops, sent, executed, answered>>

Step(t) == Send(t) \/ Read(t) \/ NoMoreEvents(t) \/ Timed(t) \/ Awaiting(t)

Next ==
  \E t \in Tasks :
    \/ \E u \in Tasks :
         SendUser(t, u) \/ RestartTask(t, u) \/ HaltTask(t, u) \/ Request(t, u)
    \/ Serve(t)
    \/ Step(t)

Spec == Init /\ [][Next]_vars

(* Programs that also let another task call event-block. *)
NestedNext == Next \/ \E t, u \in Tasks : SendAsking(t, u)
NestedSpec == Init /\ [][NestedNext]_vars

(* Threads are scheduled preemptively: a word that can go on does, and a   *)
(* task with nothing to do comes back to its pipe.                         *)
FairSpec == Spec /\ \A t \in Tasks : WF_vars(Step(t)) /\ WF_vars(Serve(t))

-----------------------------------------------------------------------------
(* Properties *)

Ids == {NoRequest(t) : t \in Tasks} \cup (Tasks \X Tasks \X (0 .. MaxOps))

(* Every variable keeps its type, and no pipe holds more than it can. *)
TypeOK ==
  /\ \A t \in Tasks : Len(pipe[t]) <= Capacity
  /\ DOMAIN stack = Tasks
  /\ wake \in [Tasks -> Nat]
  /\ ops \in [Tasks -> 0 .. MaxOps]
  /\ sent \in [Tasks -> [Tasks -> Nat]] /\ executed \in [Tasks -> [Tasks -> Nat]]
  /\ answered \subseteq Ids /\ returned \subseteq Ids

(* Where the plain events from u wait in the pipe of t, and where u is     *)
(* about to write one.                                                     *)
Waiting(t, u) == {k \in DOMAIN pipe[t] : pipe[t][k].xt = "user" /\ pipe[t][k].from = u}
Writing(u, t) ==
  {k \in DOMAIN stack[u] :
     stack[u][k].op = "send" /\ stack[u][k].to = t /\ stack[u][k].ev.xt = "user"}

(* The plain events of one sender are executed in the order they were sent *)
(* in, each exactly once: what waits in the pipe of the receiver, in this  *)
(* order, and then what the sender is about to write is all that was sent  *)
(* and not yet executed.                                                   *)
SendingOrder ==
  \A t, u \in Tasks :
    /\ {pipe[t][k].n : k \in Waiting(t, u)} \cup {stack[u][k].ev.n : k \in Writing(u, t)}
         = executed[t][u] + 1 .. sent[u][t]
    /\ \A j, k \in Waiting(t, u) : j < k => pipe[t][j].n < pipe[t][k].n
    /\ \A j \in Waiting(t, u), k \in Writing(u, t) : pipe[t][j].n < stack[u][k].ev.n

(* event-block returns only after the receiver has executed the request    *)
(* and its answer has come back.                                           *)
AnswerFirst == returned \subseteq answered

(* t has been restarted, or has executed the stop of a halt and waits.     *)
Blocked(t) == \E k \in DOMAIN stack[t] : stack[t][k].op = "block"
Restarted(t) == NoRequest(t) \in answered
Halted(t) ==
  \E k \in 2 .. Len(stack[t]) :
    stack[t][k].op = "stop" /\ stack[t][k - 1].op = "?events"

(* event-block comes to an end, also when two tasks ask each other, unless *)
(* somebody restarts or halts the task that waits.                         *)
BlockReturns ==
  \A t \in Tasks : Blocked(t) ~> (~Blocked(t) \/ Restarted(t) \/ Halted(t))

(* The same without the exception for restart: an answer is noticed        *)
(* whatever else arrives.                                                  *)
AnswerNoticed == \A t \in Tasks : Blocked(t) ~> (~Blocked(t) \/ Halted(t))

(* A plain event that is in a pipe is executed at some later time.         *)
Delivered ==
  \A t, u \in Tasks : executed[t][u] < sent[u][t] ~> executed[t][u] = sent[u][t]

=============================================================================
