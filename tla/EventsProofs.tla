---------------------------- MODULE EventsProofs ----------------------------
(***************************************************************************)
(* Proofs about Events, for any number of tasks, any size of the pipes and *)
(* programs of any length.                                                 *)
(***************************************************************************)
EXTENDS Events, SequenceTheorems, TLAPS

-----------------------------------------------------------------------------
(* The invariant that orders the plain events.  It also holds when events  *)
(* call event-block themselves.                                            *)

Requests == Tasks \X Tasks \X Nat

Event ==
  [xt : {"user"}, from : Tasks, n : Nat]
    \cup [xt : {"restart"}, n : Nat, id : {NoRequest(t) : t \in Tasks} \cup Requests]
    \cup [xt : {"answer"}, to : Tasks, n : Nat, id : Requests]
    \cup [xt : {"stop"}] \cup [xt : {"ask"}, of : Tasks]

Frame ==
  [op : {"stop", "timed", "?events"}]
    \cup [op : {"send"}, ev : Event, to : Tasks]
    \cup [op : {"block"}, n : Nat, id : Requests]

Types ==
  /\ pipe \in [Tasks -> Seq(Event)] /\ stack \in [Tasks -> Seq(Frame)]
  /\ wake \in [Tasks -> Nat] /\ ops \in [Tasks -> Nat]
  /\ sent \in [Tasks -> [Tasks -> Nat]] /\ executed \in [Tasks -> [Tasks -> Nat]]

(* A task that is in send-event is in no word called by it, and the plain  *)
(* event it sends is its own.                                              *)
SendOnTop ==
  \A t \in Tasks : \A k \in DOMAIN stack[t] : stack[t][k].op = "send" =>
    /\ k = Len(stack[t])
    /\ stack[t][k].ev.xt = "user" => stack[t][k].ev.from = t

(* What is executed was sent. *)
Behind == \A t, u \in Tasks : executed[t][u] <= sent[u][t]

OrderInv == Types /\ SendOnTop /\ Behind /\ SendingOrder

-----------------------------------------------------------------------------
(* The invariant of event-block, when no event calls it.                   *)

(* An event that will set wake# for a request: its answer, as long as it   *)
(* is on its way.  Owner is the task that waits for it.                    *)
Token(ev) == ev.xt \in {"answer", "restart"} /\ ev.n # 0
Owner(ev) == ev.id[1]

Carries(t) == In(t, "send") /\ Token(Top(t).ev)

(* The owner of an answer that is on its way waits for it, below whatever  *)
(* else it does, and has not got it yet.                                   *)
Awaited(ev) ==
  /\ ev.id \in Requests /\ ev.id \notin answered
  /\ ev.xt = "answer" => ev.to = Owner(ev)
  /\ stack[Owner(ev)] # <<>> /\ stack[Owner(ev)][1] = BlockFrame(ev.n, ev.id)

Carried ==
  \A t \in Tasks : Carries(t) =>
    Awaited(Top(t).ev) /\ (Top(t).ev.xt = "restart" => Top(t).to = Owner(Top(t).ev))

Queued ==
  \A t \in Tasks : \A k \in DOMAIN pipe[t] : Token(pipe[t][k]) =>
    Awaited(pipe[t][k]) /\ (pipe[t][k].xt = "restart" => t = Owner(pipe[t][k]))

(* There is one answer on its way to a task, at one place.                 *)
OneToken ==
  /\ \A t, u \in Tasks :
       Carries(t) /\ Carries(u) /\ Owner(Top(t).ev) = Owner(Top(u).ev) => t = u
  /\ \A t, u \in Tasks : \A j \in DOMAIN pipe[t], k \in DOMAIN pipe[u] :
       Token(pipe[t][j]) /\ Token(pipe[u][k]) /\ Owner(pipe[t][j]) = Owner(pipe[u][k])
         => t = u /\ j = k
  /\ \A t, u \in Tasks : \A k \in DOMAIN pipe[u] :
       Carries(t) /\ Token(pipe[u][k]) => Owner(Top(t).ev) # Owner(pipe[u][k])

(* event-block is called by programs only; when wake# has the number it    *)
(* waits for, its answer has come.                                         *)
Blocks ==
  \A t \in Tasks : \A k \in DOMAIN stack[t] : stack[t][k].op = "block" =>
    /\ k = 1 /\ stack[t][k].n # 0 /\ stack[t][k].id[1] = t /\ stack[t][k].id[3] < ops[t]
    /\ wake[t] = stack[t][k].n => stack[t][k].id \in answered

(* Requests are numbered. *)
Numbered == \A t, u \in Tasks, n \in Nat : <<t, u, n>> \in answered => n < ops[t]

(* No event calls event-block; a plain restart has no number and a request *)
(* has one.                                                                *)
Plain(ev) ==
  /\ ev.xt # "ask"
  /\ ev.xt = "answer" => ev.n # 0
  /\ ev.xt = "restart" /\ ev.n = 0 => ev.id \in {NoRequest(t) : t \in Tasks}
AllPlain ==
  \A t \in Tasks :
    /\ \A k \in DOMAIN pipe[t] : Plain(pipe[t][k])
    /\ \A k \in DOMAIN stack[t] : stack[t][k].op = "send" => Plain(stack[t][k].ev)

Tokens == AllPlain /\ Carried /\ Queued /\ OneToken /\ Blocks /\ Numbered /\ AnswerFirst

AnswerInv == Types /\ SendOnTop /\ Tokens

-----------------------------------------------------------------------------
(* Stacks of words. *)

(* r is s with the words f in place of the innermost one. *)
IsReplaced(s, f, r) ==
  /\ r \in Seq(Frame) /\ Len(r) \in Nat /\ Len(s) \in Nat \ {0} /\ Len(f) \in Nat
  /\ Len(r) = Len(s) - 1 + Len(f)
  /\ \A k \in 1 .. Len(s) - 1 : r[k] = s[k]
  /\ \A k \in Len(s) .. Len(r) : k - Len(s) + 1 \in 1 .. Len(f) /\ r[k] = f[k - Len(s) + 1]

LEMMA Replaced ==
  ASSUME NEW s \in Seq(Frame), s # <<>>, NEW f \in Seq(Frame),
         NEW r, r = SubSeq(s, 1, Len(s) - 1) \o f
  PROVE  IsReplaced(s, f, r)
  <1> DEFINE q == SubSeq(s, 1, Len(s) - 1)
  <1>1. Len(s) \in Nat \ {0} /\ Len(f) \in Nat
    OBVIOUS
  <1>2. q \in Seq(Frame) /\ Len(q) = Len(s) - 1 /\ \A k \in 1 .. Len(s) - 1 : q[k] = s[k]
    <2>0. Len(s) - 1 \in 0 .. Len(s)
      BY <1>1
    <2>1. PICK n \in 0 .. Len(s) : n = Len(s) - 1
      BY <2>0
    <2>2. /\ SubSeq(s, 1, n) \in Seq(Frame) /\ Len(SubSeq(s, 1, n)) = IF 1 <= n THEN n - 1 + 1 ELSE 0
          /\ \A i \in 1 .. n - 1 + 1 : SubSeq(s, 1, n)[i] = s[1 + i - 1]
      BY <1>1, <2>1, SubSeqProperties
    <2>3. \A i \in 1 .. n : i \in 1 .. n - 1 + 1 /\ 1 + i - 1 = i
      BY <2>1
    <2> QED
      BY <1>1, <2>1, <2>2, <2>3
  <1> HIDE DEF q
  <1>3. r = q \o f
    BY DEF q
  <1>4. /\ r \in Seq(Frame) /\ Len(r) = Len(q) + Len(f)
        /\ \A k \in 1 .. Len(q) + Len(f) : r[k] = IF k <= Len(q) THEN q[k] ELSE f[k - Len(q)]
    <2>1. /\ q \o f \in Seq(Frame) /\ Len(q \o f) = Len(q) + Len(f)
          /\ \A k \in 1 .. Len(q) + Len(f) :
               (q \o f)[k] = IF k <= Len(q) THEN q[k] ELSE f[k - Len(q)]
      BY <1>2, ConcatProperties, Zenon
    <2> QED
      BY <1>3, <2>1, Zenon
  <1>5. Len(r) \in Nat /\ Len(r) = Len(s) - 1 + Len(f)
    BY <1>1, <1>2, <1>4
  <1>6. ASSUME NEW k \in 1 .. Len(s) - 1 PROVE r[k] = s[k]
    <2>1. k \in 1 .. Len(q) + Len(f) /\ k <= Len(q)
      BY <1>1, <1>2
    <2> QED
      BY <1>2, <1>4, <2>1
  <1>7. ASSUME NEW k \in Len(s) .. Len(r)
        PROVE  k - Len(s) + 1 \in 1 .. Len(f) /\ r[k] = f[k - Len(s) + 1]
    <2>1. k \in 1 .. Len(q) + Len(f) /\ ~(k <= Len(q)) /\ k - Len(q) = k - Len(s) + 1
          /\ k - Len(s) + 1 \in 1 .. Len(f)
      BY <1>1, <1>2, <1>5
    <2> QED
      BY <1>4, <2>1
  <1> QED
    BY <1>1, <1>4, <1>5, <1>6, <1>7 DEF IsReplaced

LEMMA PutFirst ==
  ASSUME NEW S, NEW a \in S, NEW f \in Seq(S), NEW g, g = <<a>> \o f
  PROVE  /\ g \in Seq(S) /\ Len(g) = Len(f) + 1 /\ g[1] = a
         /\ \A k \in 2 .. Len(f) + 1 : g[k] = f[k - 1]
  <1>0. <<a>> \in Seq(S)
    OBVIOUS
  <1>1. PICK h \in Seq(S) : h = <<a>>
    BY <1>0, Zenon
  <1>2. Len(h) = 1 /\ h[1] = a
    BY <1>1
  <1>3. /\ h \o f \in Seq(S) /\ Len(h \o f) = Len(h) + Len(f)
        /\ \A k \in 1 .. Len(h) + Len(f) : (h \o f)[k] = IF k <= Len(h) THEN h[k] ELSE f[k - Len(h)]
    OBVIOUS
  <1>4. Len(f) \in Nat
    OBVIOUS
  <1>5. /\ h \o f \in Seq(S) /\ Len(h \o f) = Len(f) + 1 /\ (h \o f)[1] = a
        /\ \A k \in 2 .. Len(f) + 1 : (h \o f)[k] = f[k - 1]
    BY <1>2, <1>3, <1>4
  <1> QED
    BY <1>1, <1>5, Zenon

(* Words that send at most an answer, and do that at once. *)
Proper(f) ==
  /\ f \in Seq(Frame)
  /\ \A k \in 1 .. Len(f) : f[k].op = "send" => k = Len(f) /\ f[k].ev.xt # "user"

LEMMA ProperAfter ==
  ASSUME NEW f, Proper(f)
  PROVE  Proper(<<EventsFrame>> \o f)
  <1>1. EventsFrame \in Frame /\ EventsFrame.op = "?events" /\ f \in Seq(Frame)
    BY DEF EventsFrame, Frame, Proper
  <1>2. PICK g : g = <<EventsFrame>> \o f
    OBVIOUS
  <1>3. /\ g \in Seq(Frame) /\ Len(g) = Len(f) + 1 /\ g[1] = EventsFrame
        /\ \A k \in 2 .. Len(f) + 1 : g[k] = f[k - 1]
    BY <1>1, <1>2, PutFirst
  <1>4. Len(f) \in Nat
    BY <1>1
  <1>5. ASSUME NEW k \in 1 .. Len(g), g[k].op = "send" PROVE k = Len(g) /\ g[k].ev.xt # "user"
    <2>1. k \in 2 .. Len(f) + 1 /\ k - 1 \in 1 .. Len(f)
      BY <1>1, <1>3, <1>4, <1>5
    <2> QED
      BY <1>3, <1>4, <1>5, <2>1 DEF Proper
  <1> QED
    BY <1>2, <1>3, <1>5 DEF Proper

LEMMA EventTypes ==
  /\ \A u \in Tasks, n \in Nat : User(u, n) \in Event
  /\ \A n \in Nat, id \in Requests : Restart(n, id) \in Event
  /\ \A n \in Nat, u \in Tasks : Restart(n, NoRequest(u)) \in Event
  /\ \A u \in Tasks, n \in Nat, id \in Requests : Answer(u, n, id) \in Event
  /\ Halt \in Event /\ \A u \in Tasks : Ask(u) \in Event
  <1>1. \A u \in Tasks, n \in Nat : User(u, n) \in Event
    BY DEF User, Event
  <1>2. \A n \in Nat, id \in Requests : Restart(n, id) \in Event
    BY DEF Restart, Event
  <1>3. \A n \in Nat, u \in Tasks : Restart(n, NoRequest(u)) \in Event
    BY DEF Restart, Event
  <1>4. \A u \in Tasks, n \in Nat, id \in Requests : Answer(u, n, id) \in Event
    BY DEF Answer, Event
  <1>5. Halt \in Event /\ \A u \in Tasks : Ask(u) \in Event
    BY DEF Halt, Ask, Event
  <1> QED
    BY <1>1, <1>2, <1>3, <1>4, <1>5

LEMMA FrameTypes ==
  /\ StopFrame \in Frame /\ TimedFrame \in Frame /\ EventsFrame \in Frame
  /\ \A ev \in Event, t \in Tasks : SendFrame(ev, t) \in Frame
  /\ \A n \in Nat, id \in Requests : BlockFrame(n, id) \in Frame
  BY DEF StopFrame, TimedFrame, EventsFrame, SendFrame, BlockFrame, Frame

LEMMA BlockProper ==
  ASSUME Types, NEW t \in Tasks, NEW u \in Tasks
  PROVE  Proper(EventBlock(t, u)) /\ Proper(<<EventsFrame>> \o EventBlock(t, u))
  <1> DEFINE id == <<t, u, ops[t]>>
             n == wake[t] + 1
             ev == Answer(t, n, id)
  <1>1. id \in Requests /\ n \in Nat
    BY SMTT(20) DEF Types, Requests
  <1>2. ev \in Event /\ ev.xt = "answer"
    BY <1>1, EventTypes DEF Answer
  <1>3. CASE u = t
    <2>1. EventBlock(t, u) = <<EventsFrame>>
      BY <1>3 DEF EventBlock
    <2>2. Proper(<<EventsFrame>>) /\ Proper(<<EventsFrame>> \o <<EventsFrame>>)
      BY FrameTypes DEF Proper, EventsFrame
    <2> QED
      BY <2>1, <2>2
  <1>4. CASE u # t
    <2> DEFINE b == BlockFrame(n, id)
               s == SendFrame(ev, u)
    <2>1. EventBlock(t, u) = <<b, StopFrame, s>>
      BY <1>4 DEF EventBlock
    <2>2. b \in Frame /\ b.op = "block" /\ s \in Frame /\ s.op = "send" /\ s.ev = ev
      BY <1>1, <1>2, FrameTypes DEF BlockFrame, SendFrame
    <2>3. StopFrame \in Frame /\ EventsFrame \in Frame
          /\ StopFrame.op = "stop" /\ EventsFrame.op = "?events"
      BY FrameTypes DEF StopFrame, EventsFrame
    <2> HIDE DEF b, s, ev
    <2>4. Proper(<<b, StopFrame, s>>)
      BY <1>2, <2>2, <2>3 DEF Proper
    <2>5. Proper(<<EventsFrame>> \o <<b, StopFrame, s>>)
      BY <2>4, ProperAfter
    <2> QED
      BY <2>1, <2>4, <2>5
  <1> QED
    BY <1>3, <1>4


LEMMA CalledProper ==
  ASSUME Types, NEW t \in Tasks, NEW ev \in Event
  PROVE  Proper(Called(t, ev))
  <1>1. CASE ev.xt = "answer"
    <2> DEFINE s == SendFrame(Restart(ev.n, ev.id), ev.to)
    <2>1. ev.n \in Nat /\ ev.id \in Requests /\ ev.to \in Tasks
      BY <1>1 DEF Event
    <2>2. s \in Frame /\ s.op = "send" /\ s.ev.xt = "restart"
      BY <2>1, EventTypes, FrameTypes DEF SendFrame, Restart
    <2>3. Called(t, ev) = <<EventsFrame, s>>
      BY <1>1 DEF Called
    <2> HIDE DEF s
    <2>4. Proper(<<EventsFrame, s>>)
      BY <2>2, FrameTypes DEF Proper, EventsFrame
    <2> QED
      BY <2>3, <2>4
  <1>2. CASE ev.xt = "stop"
    <2>1. Called(t, ev) = <<EventsFrame, StopFrame>>
      BY <1>2 DEF Called
    <2>2. Proper(<<EventsFrame, StopFrame>>)
      BY FrameTypes DEF Proper, EventsFrame, StopFrame
    <2> QED
      BY <2>1, <2>2
  <1>3. CASE ev.xt = "ask"
    <2>1. ev.of \in Tasks
      BY <1>3 DEF Event
    <2>2. Called(t, ev) = <<EventsFrame>> \o EventBlock(t, ev.of)
      BY <1>3 DEF Called
    <2> QED
      BY <2>1, <2>2, BlockProper
  <1>4. CASE ev.xt \notin {"answer", "stop", "ask"}
    <2>1. Called(t, ev) = <<EventsFrame>>
      BY <1>4 DEF Called
    <2>2. Proper(<<EventsFrame>>)
      BY FrameTypes DEF Proper, EventsFrame
    <2> QED
      BY <2>1, <2>2
  <1> QED
    BY <1>1, <1>2, <1>3, <1>4

(* t goes on with the words f in place of the innermost one, or of none.   *)
Onto(t, f) == IF stack[t] = <<>> THEN f ELSE Rest(t) \o f

LEMMA OntoProper ==
  ASSUME Types, SendOnTop, NEW t \in Tasks, NEW f, Proper(f), stack' = [stack EXCEPT ![t] = Onto(t, f)]
  PROVE  Proper(stack'[t])
  <1>0. stack'[t] = Onto(t, f)
    BY DEF Types
  <1>1. /\ stack'[t] \in Seq(Frame)
        /\ \A k \in 1 .. Len(stack'[t]) :
             stack'[t][k].op = "send" => k = Len(stack'[t]) /\ stack'[t][k].ev.xt # "user"
    <2>1. CASE stack[t] = <<>>
      BY <1>0, <2>1 DEF Onto, Proper
    <2>2. CASE stack[t] # <<>>
      <3>1. PICK s \in Seq(Frame) : s = stack[t]
        BY DEF Types
      <3>2. PICK r : r = SubSeq(s, 1, Len(s) - 1) \o f
        OBVIOUS
      <3>3. stack'[t] = r
        BY <1>0, <2>2, <3>1, <3>2 DEF Onto, Rest
      <3>4. f \in Seq(Frame)
        BY DEF Proper
      <3>5. IsReplaced(s, f, r)
        <4>1. s # <<>>
          BY <2>2, <3>1
        <4> QED
          BY <3>2, <3>4, <4>1, Replaced
      <3>6. \A k \in 1 .. Len(s) - 1 : s[k].op # "send"
        BY <3>1, <3>5 DEF SendOnTop, IsReplaced
      <3>7. ASSUME NEW k \in 1 .. Len(r), r[k].op = "send" PROVE k = Len(r) /\ r[k].ev.xt # "user"
        <4>1. k \in Len(s) .. Len(r)
          BY <3>5, <3>6, <3>7, SMTT(20) DEF IsReplaced
        <4>2. PICK i \in 1 .. Len(f) : i = k - Len(s) + 1 /\ r[k] = f[i]
          BY <3>5, <4>1 DEF IsReplaced
        <4>3. i = Len(f) /\ r[k].ev.xt # "user"
          BY <3>7, <4>2 DEF Proper
        <4> QED
          BY <3>5, <4>2, <4>3 DEF IsReplaced
      <3> QED
        BY <3>3, <3>5, <3>7 DEF IsReplaced
    <2> QED
      BY <2>1, <2>2
  <1> QED
    BY <1>1 DEF Proper

LEMMA ProperKept ==
  ASSUME Types, SendOnTop, NEW t \in Tasks, Proper(stack'[t]),
         \A u \in Tasks \ {t} : stack'[u] = stack[u],
         stack' = [u \in Tasks |-> stack'[u]]
  PROVE  stack' \in [Tasks -> Seq(Frame)] /\ SendOnTop'
  <1>1. \A u \in Tasks : stack'[u] \in Seq(Frame)
    BY DEF Types, Proper
  <1>2. ASSUME NEW u \in Tasks, NEW k \in DOMAIN stack'[u], stack'[u][k].op = "send"
        PROVE  k = Len(stack'[u]) /\ (stack'[u][k].ev.xt = "user" => stack'[u][k].ev.from = u)
    BY <1>1, <1>2 DEF SendOnTop, Proper
  <1> QED
    BY <1>1, <1>2 DEF SendOnTop

LEMMA NotSending ==
  ASSUME Types, SendOnTop, NEW t \in Tasks, ~In(t, "send")
  PROVE  /\ \A k \in DOMAIN stack[t] : stack[t][k].op # "send"
         /\ \A u \in Tasks : Writing(t, u) = {}
  <1>1. stack[t] \in Seq(Frame)
    BY DEF Types
  <1>2. \A k \in DOMAIN stack[t] : stack[t][k].op # "send"
    BY <1>1 DEF SendOnTop, In, Top
  <1> QED
    BY <1>2 DEF Writing

-----------------------------------------------------------------------------
(* The order of the plain events from u to t. *)

InOrder(t, u) ==
  /\ {pipe[t][k].n : k \in Waiting(t, u)} \cup {stack[u][k].ev.n : k \in Writing(u, t)}
       = executed[t][u] + 1 .. sent[u][t]
  /\ \A j, k \in Waiting(t, u) : j < k => pipe[t][j].n < pipe[t][k].n
  /\ \A j \in Waiting(t, u), k \in Writing(u, t) : pipe[t][j].n < stack[u][k].ev.n

LEMMA OrderSame ==
  ASSUME NEW t \in Tasks, NEW u \in Tasks, InOrder(t, u), Waiting(t, u)' = Waiting(t, u),
         \A k \in Waiting(t, u) : pipe'[t][k] = pipe[t][k],
         executed'[t][u] = executed[t][u], sent'[u][t] = sent[u][t],
         \/ stack'[u] = stack[u]
         \/ Writing(u, t) = {} /\ Writing(u, t)' = {}
  PROVE  InOrder(t, u)'
  <1>1. {pipe'[t][k].n : k \in Waiting(t, u)'} = {pipe[t][k].n : k \in Waiting(t, u)}
    OBVIOUS
  <1>2. CASE stack'[u] = stack[u]
    <2>1. Writing(u, t)' = Writing(u, t)
      BY <1>2 DEF Writing
    <2> QED
      BY <1>1, <1>2, <2>1 DEF InOrder
  <1>3. CASE Writing(u, t) = {} /\ Writing(u, t)' = {}
    <2>1. {stack[u][k].ev.n : k \in Writing(u, t)} = {} /\ {stack'[u][k].ev.n : k \in Writing(u, t)'} = {}
      BY <1>3
    <2> QED
      BY <1>1, <1>3, <2>1 DEF InOrder
  <1> QED
    BY <1>2, <1>3

(* A step that touches neither pipes nor numbers. *)
LEMMA QuietOrder ==
  ASSUME Types, SendOnTop, SendingOrder, NEW t \in Tasks, ~In(t, "send"), Proper(stack'[t]),
         \A u \in Tasks \ {t} : stack'[u] = stack[u],
         UNCHANGED <<pipe, sent, executed>>
  PROVE  SendingOrder'
  <1> SUFFICES ASSUME NEW v \in Tasks, NEW u \in Tasks PROVE InOrder(v, u)'
    BY DEF SendingOrder, InOrder
  <1>1. InOrder(v, u)
    BY DEF SendingOrder, InOrder
  <1>0. Waiting(v, u)' = Waiting(v, u) /\ \A k \in Waiting(v, u) : pipe'[v][k] = pipe[v][k]
    BY DEF Waiting
  <1>2. CASE u # t
    BY <1>0, <1>1, <1>2, OrderSame
  <1>3. CASE u = t
    <2>1. Writing(t, v) = {}
      BY NotSending
    <2>2. Writing(t, v)' = {}
      BY DEF Writing, Proper
    <2> QED
      BY <1>0, <1>1, <1>3, <2>1, <2>2, OrderSame
  <1> QED
    BY <1>2, <1>3


LEMMA SendUserOrder ==
  ASSUME Types, SendOnTop, Behind, SendingOrder, NEW t \in Tasks, NEW u \in Tasks, SendUser(t, u)
  PROVE  stack' \in [Tasks -> Seq(Frame)] /\ SendOnTop' /\ SendingOrder'
  <1> DEFINE n == sent[t][u] + 1
             s == SendFrame(User(t, n), u)
  <1>1. /\ stack[t] = <<>> /\ UNCHANGED <<pipe, executed>> /\ n \in Nat
        /\ stack' = [stack EXCEPT ![t] = <<s>>] /\ sent' = [sent EXCEPT ![t][u] = n]
    BY SMTT(20) DEF SendUser, Operate, Types
  <1>2. s \in Frame /\ s.op = "send" /\ s.to = u /\ s.ev.xt = "user" /\ s.ev.from = t /\ s.ev.n = n
    BY <1>1, EventTypes, FrameTypes DEF SendFrame, User
  <1> HIDE DEF s
  <1>3. /\ stack'[t] = <<s>> /\ stack'[t][1] = s /\ DOMAIN stack'[t] = {1} /\ Len(stack'[t]) = 1
        /\ \A v \in Tasks \ {t} : stack'[v] = stack[v]
        /\ stack' \in [Tasks -> Seq(Frame)]
    BY <1>1, <1>2 DEF Types
  <1>4. SendOnTop'
    <2>1. ASSUME NEW v \in Tasks, NEW k \in DOMAIN stack'[v], stack'[v][k].op = "send"
          PROVE  k = Len(stack'[v]) /\ (stack'[v][k].ev.xt = "user" => stack'[v][k].ev.from = v)
      <3>1. CASE v = t
        BY <1>2, <1>3, <3>1
      <3>2. CASE v # t
        BY <1>3, <2>1, <3>2 DEF SendOnTop
      <3> QED
        BY <3>1, <3>2
    <2> QED
      BY <2>1 DEF SendOnTop
  <1>5. ASSUME NEW v \in Tasks, NEW w \in Tasks PROVE InOrder(v, w)'
    <2>1. InOrder(v, w)
      BY DEF SendingOrder, InOrder
    <2>2. Waiting(v, w)' = Waiting(v, w) /\ \A k \in Waiting(v, w) : pipe'[v][k] = pipe[v][k]
      BY <1>1 DEF Waiting
    <2>3. CASE w # t
      <3>1. sent'[w][v] = sent[w][v] /\ executed'[v][w] = executed[v][w] /\ stack'[w] = stack[w]
        BY <1>1, <1>3, <2>3 DEF Types
      <3> QED
        BY <2>1, <2>2, <3>1, OrderSame
    <2>4. Writing(t, v) = {}
      BY <1>1 DEF Writing
    <2>5. CASE w = t /\ v # u
      <3>1. sent'[w][v] = sent[w][v] /\ executed'[v][w] = executed[v][w]
        BY <1>1, <2>5 DEF Types
      <3>2. Writing(t, v)' = {}
        BY <1>2, <1>3, <2>5 DEF Writing
      <3> QED
        BY <2>1, <2>2, <2>4, <2>5, <3>1, <3>2, OrderSame
    <2>6. CASE w = t /\ v = u
      <3>1. Writing(t, u)' = {1} /\ {stack'[t][k].ev.n : k \in Writing(t, u)'} = {n}
        BY <1>2, <1>3 DEF Writing
      <3>2. {stack[t][k].ev.n : k \in Writing(t, u)} = {}
        BY <2>4, <2>6
      <3>3. {pipe'[u][k].n : k \in Waiting(u, t)'} = {pipe[u][k].n : k \in Waiting(u, t)}
        BY <2>2, <2>6
      <3>4. sent'[t][u] = n /\ sent[t][u] \in Nat /\ executed'[u][t] = executed[u][t]
            /\ executed[u][t] \in Nat /\ executed[u][t] <= sent[t][u]
        BY <1>1 DEF Types, Behind
      <3>5. {pipe[u][k].n : k \in Waiting(u, t)} = executed[u][t] + 1 .. sent[t][u]
        BY <2>1, <2>6, <3>2 DEF InOrder
      <3>6. {pipe'[u][k].n : k \in Waiting(u, t)'} \cup {stack'[t][k].ev.n : k \in Writing(t, u)'}
              = executed'[u][t] + 1 .. sent'[t][u]
        <4>1. (executed[u][t] + 1 .. sent[t][u]) \cup {n} = executed[u][t] + 1 .. n
          BY <3>4
        <4> HIDE DEF n
        <4> QED
          BY <3>1, <3>3, <3>4, <3>5, <4>1
      <3>7. \A j \in Waiting(u, t) : pipe[u][j].n < n
        <4> SUFFICES ASSUME NEW j \in Waiting(u, t) PROVE pipe[u][j].n < n
          OBVIOUS
        <4>1. pipe[u][j].n \in executed[u][t] + 1 .. sent[t][u]
          BY <3>5
        <4> QED
          BY <3>4, <4>1
      <3>8. \A j, k \in Waiting(u, t) : j < k => pipe[u][j].n < pipe[u][k].n
        BY <2>1, <2>6 DEF InOrder
      <3>9. \A j \in Waiting(u, t)', k \in Writing(t, u)' : pipe'[u][j].n < stack'[t][k].ev.n
        BY <1>2, <1>3, <2>2, <2>6, <3>1, <3>7
      <3>10. \A j, k \in Waiting(u, t)' : j < k => pipe'[u][j].n < pipe'[u][k].n
        BY <2>2, <2>6, <3>8
      <3> QED
        BY <2>6, <3>6, <3>9, <3>10 DEF InOrder
    <2> QED
      BY <2>3, <2>5, <2>6
  <1> QED
    BY <1>3, <1>4, <1>5 DEF SendingOrder, InOrder


LEMMA RestKeeps ==
  ASSUME Types, SendOnTop, NEW t \in Tasks, stack[t] # <<>>
  PROVE  /\ Rest(t) \in Seq(Frame) /\ Len(Rest(t)) = Len(stack[t]) - 1
         /\ \A k \in 1 .. Len(stack[t]) - 1 : Rest(t)[k] = stack[t][k]
         /\ Proper(Rest(t)) /\ \A k \in 1 .. Len(stack[t]) - 1 : stack[t][k].op # "send"
         /\ Len(stack[t]) \in Nat \ {0}
  <1>1. PICK s \in Seq(Frame) : s = stack[t]
    BY DEF Types
  <1>2. Len(s) \in Nat \ {0} /\ s # <<>>
    BY <1>1
  <1>3. Rest(t) = SubSeq(s, 1, Len(s) - 1)
    BY <1>1 DEF Rest
  <1>4. /\ SubSeq(s, 1, Len(s) - 1) \in Seq(Frame) /\ Len(SubSeq(s, 1, Len(s) - 1)) = Len(s) - 1
        /\ \A k \in 1 .. Len(s) - 1 : SubSeq(s, 1, Len(s) - 1)[k] = s[k]
    <2>1. PICK n \in 0 .. Len(s) : n = Len(s) - 1
      <3>1. Len(s) - 1 \in 0 .. Len(s)
        BY <1>2
      <3> QED
        BY <3>1
    <2>2. /\ SubSeq(s, 1, n) \in Seq(Frame) /\ Len(SubSeq(s, 1, n)) = IF 1 <= n THEN n - 1 + 1 ELSE 0
          /\ \A i \in 1 .. n - 1 + 1 : SubSeq(s, 1, n)[i] = s[1 + i - 1]
      BY <1>2, <2>1, SubSeqProperties
    <2>3. \A i \in 1 .. n : i \in 1 .. n - 1 + 1 /\ 1 + i - 1 = i
      BY <2>1
    <2> QED
      BY <1>2, <2>1, <2>2, <2>3
  <1>5. \A k \in 1 .. Len(s) - 1 : s[k].op # "send"
    BY <1>1, <1>2 DEF SendOnTop
  <1>6. Proper(Rest(t))
    BY <1>2, <1>3, <1>4, <1>5 DEF Proper
  <1> QED
    BY <1>1, <1>2, <1>3, <1>4, <1>5, <1>6

LEMMA SendOrder ==
  ASSUME Types, SendOnTop, SendingOrder, NEW t \in Tasks, Send(t)
  PROVE  /\ pipe' \in [Tasks -> Seq(Event)] /\ stack' \in [Tasks -> Seq(Frame)]
         /\ SendOnTop' /\ SendingOrder'
  <1> DEFINE f == stack[t][Len(stack[t])]
  <1>1. /\ stack[t] # <<>> /\ f.op = "send" /\ UNCHANGED <<sent, executed>>
        /\ pipe' = [pipe EXCEPT ![f.to] = Append(@, f.ev)] /\ stack' = [stack EXCEPT ![t] = Rest(t)]
    BY DEF Send, In, Top
  <1>2. stack[t] \in Seq(Frame) /\ Len(stack[t]) \in Nat \ {0} /\ Len(stack[t]) \in DOMAIN stack[t]
    BY <1>1 DEF Types
  <1>3. f \in Frame
    BY <1>2
  <1>4. f.to \in Tasks /\ f.ev \in Event /\ (f.ev.xt = "user" => f.ev.from = t)
    BY <1>1, <1>2, <1>3 DEF Frame, SendOnTop
  <1>5. PICK to \in Tasks, ev \in Event : to = f.to /\ ev = f.ev
    BY <1>4
  <1>6. /\ stack'[t] = Rest(t) /\ \A u \in Tasks \ {t} : stack'[u] = stack[u]
        /\ pipe'[to] = Append(pipe[to], ev) /\ \A v \in Tasks \ {to} : pipe'[v] = pipe[v]
        /\ stack' = [u \in Tasks |-> stack'[u]] /\ pipe' \in [Tasks -> Seq(Event)]
    <2>1. /\ stack'[t] = Rest(t) /\ \A u \in Tasks \ {t} : stack'[u] = stack[u]
          /\ stack' = [u \in Tasks |-> stack'[u]]
      BY <1>1 DEF Types
    <2>2. pipe' = [pipe EXCEPT ![to] = Append(pipe[to], ev)]
      BY <1>1, <1>5
    <2>3. pipe \in [Tasks -> Seq(Event)] /\ Append(pipe[to], ev) \in Seq(Event)
      BY DEF Types
    <2> QED
      BY <2>1, <2>2, <2>3
  <1>7. stack' \in [Tasks -> Seq(Frame)] /\ SendOnTop' /\ Proper(stack'[t])
    <2>1. Proper(stack'[t])
      BY <1>1, <1>6, RestKeeps
    <2> QED
      BY <1>6, <2>1, ProperKept
  <1>8. \A v \in Tasks : Writing(t, v)' = {}
    BY <1>7 DEF Writing, Proper
  <1>9. \A v \in Tasks : Writing(t, v) = IF v = to /\ ev.xt = "user" THEN {Len(stack[t])} ELSE {}
    <2>1. \A k \in DOMAIN stack[t] : stack[t][k].op = "send" => k = Len(stack[t])
      BY DEF SendOnTop
    <2> QED
      BY <1>1, <1>2, <1>5, <2>1 DEF Writing
  <1>10. Len(pipe[to]) \in Nat /\ DOMAIN pipe[to] = 1 .. Len(pipe[to])
         /\ DOMAIN pipe'[to] = 1 .. Len(pipe[to]) + 1 /\ pipe'[to][Len(pipe[to]) + 1] = ev
         /\ \A k \in DOMAIN pipe[to] : pipe'[to][k] = pipe[to][k]
    BY <1>6, SMTT(20) DEF Types
  <1> HIDE DEF f
  <1>11. ASSUME NEW v \in Tasks, NEW u \in Tasks PROVE InOrder(v, u)'
    <2>1. InOrder(v, u)
      BY DEF SendingOrder, InOrder
    <2>2. executed'[v][u] = executed[v][u] /\ sent'[u][v] = sent[u][v]
      BY <1>1
    <2>3. CASE ~(v = to /\ u = t /\ ev.xt = "user")
      <3>1. Waiting(v, u)' = Waiting(v, u) /\ \A k \in Waiting(v, u) : pipe'[v][k] = pipe[v][k]
        <4>1. CASE v # to
          BY <1>6, <4>1 DEF Waiting
        <4>2. CASE v = to
          <5>1. ~(ev.xt = "user" /\ ev.from = u)
            BY <1>4, <1>5, <2>3, <4>2
          <5> QED
            BY <1>10, <4>2, <5>1 DEF Waiting
        <4> QED
          BY <4>1, <4>2
      <3>2. stack'[u] = stack[u] \/ (Writing(u, v) = {} /\ Writing(u, v)' = {})
        BY <1>6, <1>8, <1>9, <2>3
      <3> QED
        BY <2>1, <2>2, <3>1, <3>2, OrderSame
    <2>4. CASE v = to /\ u = t /\ ev.xt = "user"
      <3> DEFINE l == Len(pipe[to])
      <3>1. ev.from = t
        BY <1>4, <1>5, <2>4
      <3>2. Waiting(to, t)' = Waiting(to, t) \cup {l + 1} /\ l + 1 \notin Waiting(to, t)
        BY <1>10, <2>4, <3>1 DEF Waiting
      <3>3. Writing(t, to) = {Len(stack[t])} /\ {stack[t][k].ev.n : k \in Writing(t, to)} = {ev.n}
        BY <1>5, <1>9, <2>4 DEF f
      <3>4. \A k \in Waiting(to, t) : pipe'[to][k] = pipe[to][k] /\ k \in 1 .. l
        BY <1>10 DEF Waiting
      <3>5. {pipe'[to][k].n : k \in Waiting(to, t)'} = {pipe[to][k].n : k \in Waiting(to, t)} \cup {ev.n}
        BY <1>10, <3>2, <3>4
      <3>6. {stack'[t][k].ev.n : k \in Writing(t, to)'} = {}
        BY <1>8
      <3>7. \A k \in Waiting(to, t) : pipe[to][k].n < ev.n
        BY <1>5, <2>1, <2>4, <3>3 DEF InOrder, f
      <3>8. \A j, k \in Waiting(to, t) : j < k => pipe[to][j].n < pipe[to][k].n
        BY <2>1, <2>4 DEF InOrder
      <3>9. \A j, k \in Waiting(to, t)' : j < k => pipe'[to][j].n < pipe'[to][k].n
        <4> SUFFICES ASSUME NEW j \in Waiting(to, t)', NEW k \in Waiting(to, t)', j < k
                     PROVE  pipe'[to][j].n < pipe'[to][k].n
          OBVIOUS
        <4>1. j \in Waiting(to, t)
          BY <1>10, <3>2, <3>4
        <4>2. CASE k = l + 1
          BY <1>10, <3>4, <3>7, <4>1, <4>2
        <4>3. CASE k \in Waiting(to, t)
          BY <3>4, <3>8, <4>1, <4>3
        <4> QED
          BY <3>2, <4>2, <4>3
      <3>10. {pipe[to][k].n : k \in Waiting(to, t)} \cup {ev.n} = executed[to][t] + 1 .. sent[t][to]
        BY <2>1, <2>4, <3>3 DEF InOrder
      <3> HIDE DEF l
      <3> QED
        BY <1>8, <2>2, <2>4, <3>5, <3>6, <3>9, <3>10 DEF InOrder
    <2> QED
      BY <2>3, <2>4
  <1> QED
    BY <1>6, <1>7, <1>11 DEF SendingOrder, InOrder


LEMMA ReadPair ==
  ASSUME Types, Behind, NEW t \in Tasks, NEW u \in Tasks, InOrder(t, u),
         pipe[t] # <<>>, pipe'[t] = Tail(pipe[t]), sent'[u][t] = sent[u][t],
         executed'[t][u] = IF 1 \in Waiting(t, u) THEN pipe[t][1].n ELSE executed[t][u],
         \/ stack'[u] = stack[u]
         \/ Writing(u, t) = {} /\ Writing(u, t)' = {}
  PROVE  InOrder(t, u)' /\ executed'[t][u] <= sent'[u][t]
  <1> DEFINE A == {pipe[t][k].n : k \in Waiting(t, u)}
             B == {stack[u][k].ev.n : k \in Writing(u, t)}
             e == executed[t][u]
             s == sent[u][t]
  <1>1. /\ Len(pipe[t]) \in Nat \ {0} /\ DOMAIN pipe[t] = 1 .. Len(pipe[t])
        /\ DOMAIN pipe'[t] = 1 .. Len(pipe[t]) - 1
        /\ \A k \in 1 .. Len(pipe[t]) - 1 : pipe'[t][k] = pipe[t][k + 1]
    BY DEF Types
  <1>2. \A k : k \in Waiting(t, u)' <=> k \in 1 .. Len(pipe[t]) - 1 /\ k + 1 \in Waiting(t, u)
    BY <1>1 DEF Waiting
  <1>3. e \in Nat /\ s \in Nat /\ e <= s
    BY DEF Types, Behind
  <1>4. /\ A \cup B = e + 1 .. s
        /\ \A j, k \in Waiting(t, u) : j < k => pipe[t][j].n < pipe[t][k].n
        /\ \A x \in A, y \in B : x < y
    <2>1. ASSUME NEW x \in A, NEW y \in B PROVE x < y
      <3>1. PICK j \in Waiting(t, u) : x = pipe[t][j].n
        OBVIOUS
      <3>2. PICK k \in Writing(u, t) : y = stack[u][k].ev.n
        OBVIOUS
      <3> QED
        BY <3>1, <3>2 DEF InOrder
    <2> QED
      BY <2>1 DEF InOrder
  <1>5. /\ \A j \in Waiting(t, u)' : pipe'[t][j].n = pipe[t][j + 1].n /\ j + 1 \in Waiting(t, u)
        /\ \A j \in Waiting(t, u)' : j \in Nat /\ j + 1 \in Nat
    BY <1>1, <1>2
  <1>6. \A j, k \in Waiting(t, u)' : j < k => pipe'[t][j].n < pipe'[t][k].n
    <2> SUFFICES ASSUME NEW j \in Waiting(t, u)', NEW k \in Waiting(t, u)', j < k
                 PROVE  pipe'[t][j].n < pipe'[t][k].n
      OBVIOUS
    <2>1. j + 1 < k + 1 /\ j + 1 \in Waiting(t, u) /\ k + 1 \in Waiting(t, u)
      BY <1>5
    <2> QED
      BY <1>4, <1>5, <2>1
  <1>7. {stack'[u][k].ev.n : k \in Writing(u, t)'} = B
    <2>1. CASE stack'[u] = stack[u]
      <3>1. Writing(u, t)' = Writing(u, t)
        BY <2>1 DEF Writing
      <3> QED
        BY <2>1, <3>1
    <2>2. CASE Writing(u, t) = {} /\ Writing(u, t)' = {}
      BY <2>2
    <2> QED
      BY <2>1, <2>2
  <1>8. \A x : x \in {pipe'[t][k].n : k \in Waiting(t, u)'}
                 <=> \E k \in Waiting(t, u) : k # 1 /\ x = pipe[t][k].n
    <2>1. ASSUME NEW x, NEW k \in Waiting(t, u)', x = pipe'[t][k].n
          PROVE  \E j \in Waiting(t, u) : j # 1 /\ x = pipe[t][j].n
      <3>1. k + 1 \in Waiting(t, u) /\ k + 1 # 1 /\ x = pipe[t][k + 1].n
        BY <1>1, <1>2, <1>5, <2>1
      <3> QED
        BY <3>1
    <2>2. ASSUME NEW x, NEW k \in Waiting(t, u), k # 1, x = pipe[t][k].n
          PROVE  \E j \in Waiting(t, u)' : x = pipe'[t][j].n
      <3>1. k \in 1 .. Len(pipe[t])
        BY <1>1 DEF Waiting
      <3>2. k - 1 \in 1 .. Len(pipe[t]) - 1 /\ k - 1 + 1 = k
        BY <1>1, <2>2, <3>1
      <3>3. k - 1 \in Waiting(t, u)'
        BY <1>2, <3>2
      <3>4. x = pipe'[t][k - 1].n
        BY <1>1, <2>2, <3>2
      <3> QED
        BY <3>3, <3>4
    <2> QED
      BY <2>1, <2>2
  <1>9. CASE 1 \notin Waiting(t, u)
    <2>1. {pipe'[t][k].n : k \in Waiting(t, u)'} = A
      <3>1. \A k \in Waiting(t, u) : k # 1
        BY <1>9
      <3>2. ASSUME NEW x, NEW k \in Waiting(t, u), k # 1, x = pipe[t][k].n
            PROVE  x \in A
        BY <3>2
      <3>3. ASSUME NEW x \in A PROVE \E k \in Waiting(t, u) : k # 1 /\ x = pipe[t][k].n
        <4>1. PICK k \in Waiting(t, u) : x = pipe[t][k].n
          OBVIOUS
        <4> QED
          BY <3>1, <4>1
      <3> HIDE DEF A
      <3> DEFINE A2 == {pipe'[t][k].n : k \in Waiting(t, u)'}
      <3>4. \A x : x \in A2 <=> x \in A
        BY <1>8, <3>2, <3>3, Zenon
      <3> HIDE DEF A2
      <3>5. A2 = A
        BY <3>4
      <3> QED
        BY <3>5 DEF A2
    <2> HIDE DEF A, B
    <2>2. \A j \in Waiting(t, u)', k \in Writing(u, t)' : pipe'[t][j].n < stack'[u][k].ev.n
      BY <1>4, <1>7, <2>1
    <2>3. {pipe'[t][k].n : k \in Waiting(t, u)'} \cup {stack'[u][k].ev.n : k \in Writing(u, t)'}
            = executed'[t][u] + 1 .. sent'[u][t]
      BY <1>4, <1>7, <1>9, <2>1
    <2> QED
      BY <1>3, <1>6, <1>9, <2>2, <2>3 DEF InOrder
  <1>10. CASE 1 \in Waiting(t, u)
    <2> DEFINE n == pipe[t][1].n
    <2>1. n \in A
      BY <1>10
    <2>2. \A x \in A : x = n \/ n < x
      <3> SUFFICES ASSUME NEW k \in Waiting(t, u) PROVE pipe[t][k].n = n \/ n < pipe[t][k].n
        OBVIOUS
      <3>1. k \in 1 .. Len(pipe[t])
        BY <1>1 DEF Waiting
      <3>2. k = 1 \/ 1 < k
        BY <1>1, <3>1
      <3> QED
        BY <1>4, <1>10, <3>2
    <2>3. \A x : x \in {pipe'[t][k].n : k \in Waiting(t, u)'} <=> x \in A /\ x # n
      <3>1. ASSUME NEW k \in Waiting(t, u), k # 1 PROVE pipe[t][k].n # n
        <4>1. k \in 1 .. Len(pipe[t])
          BY <1>1 DEF Waiting
        <4>2. 1 < k
          BY <1>1, <3>1, <4>1
        <4>3. n < pipe[t][k].n /\ n \in e + 1 .. s /\ pipe[t][k].n \in e + 1 .. s
          BY <1>4, <1>10, <4>2
        <4> HIDE DEF n
        <4> QED
          BY <1>3, <4>3
      <3>2. ASSUME NEW x, NEW k \in Waiting(t, u), k # 1, x = pipe[t][k].n
            PROVE  x \in A /\ x # n
        BY <3>1, <3>2
      <3>3. ASSUME NEW x \in A, x # n
            PROVE  \E k \in Waiting(t, u) : k # 1 /\ x = pipe[t][k].n
        <4>1. PICK k \in Waiting(t, u) : x = pipe[t][k].n
          OBVIOUS
        <4> QED
          BY <3>3, <4>1
      <3> HIDE DEF A, n
      <3> QED
        BY <1>8, <3>2, <3>3, Zenon
    <2>4. executed'[t][u] = n
      BY <1>10
    <2> HIDE DEF A, B, n, e, s
    <2>5. n \in e + 1 .. s /\ n \in Nat
      BY <1>3, <1>4, <2>1
    <2>6. n = e + 1
      <3>1. e + 1 \in A \cup B
        BY <1>3, <1>4, <2>5
      <3>2. \A x \in A \cup B : x = n \/ n < x
        BY <1>4, <2>1, <2>2
      <3> QED
        BY <1>3, <2>5, <3>1, <3>2
    <2>7. n \notin B
      BY <1>4, <2>1, <2>5
    <2> DEFINE A2 == {pipe'[t][k].n : k \in Waiting(t, u)'}
    <2>8. A2 \cup B = n + 1 .. s
      <3>1. \A x : x \in A2 <=> x \in A /\ x # n
        BY <2>3
      <3> HIDE DEF A2
      <3>2. \A x : x \in A2 \cup B <=> x \in e + 1 .. s /\ x # n
        BY <1>4, <2>7, <3>1
      <3>3. \A x : x \in e + 1 .. s /\ x # n <=> x \in n + 1 .. s
        BY <1>3, <2>6
      <3> QED
        BY <3>2, <3>3
    <2>9. \A j \in Waiting(t, u)', k \in Writing(u, t)' : pipe'[t][j].n < stack'[u][k].ev.n
      <3>1. \A x \in A2, y \in B : x < y
        BY <1>4, <2>3
      <3> QED
        BY <1>7, <3>1
    <2>10. A2 \cup {stack'[u][k].ev.n : k \in Writing(u, t)'} = executed'[t][u] + 1 .. sent'[u][t]
      BY <1>7, <2>4, <2>8 DEF s
    <2>11. executed'[t][u] <= sent'[u][t]
      BY <1>3, <2>4, <2>5 DEF s
    <2> QED
      BY <1>6, <2>9, <2>10, <2>11 DEF InOrder
  <1> QED
    BY <1>9, <1>10


(* t goes on in other words, sending at most an answer or the like.        *)
Moves(t) ==
  /\ Proper(stack'[t]) /\ \A u \in Tasks \ {t} : stack'[u] = stack[u]
  /\ stack' = [u \in Tasks |-> stack'[u]]

LEMMA MovesOnto ==
  ASSUME Types, SendOnTop, NEW t \in Tasks, NEW f, Proper(f), stack' = [stack EXCEPT ![t] = Onto(t, f)]
  PROVE  Moves(t)
  <1>1. Proper(stack'[t])
    BY OntoProper
  <1> QED
    BY <1>1 DEF Moves, Types

(* The steps of t that neither write nor read a pipe. *)
LEMMA QuietMoves ==
  ASSUME Types, SendOnTop, NEW t \in Tasks,
         \/ \E u \in Tasks : RestartTask(t, u) \/ HaltTask(t, u) \/ Request(t, u) \/ SendAsking(t, u)
         \/ Serve(t) \/ NoMoreEvents(t) \/ Timed(t) \/ Awaiting(t)
  PROVE  /\ Moves(t) /\ ~In(t, "send") /\ UNCHANGED <<pipe, sent, executed, wake>>
         /\ ops' \in [Tasks -> Nat]
  <1>1. stack[t] \in Seq(Frame) /\ stack \in [Tasks -> Seq(Frame)]
    BY DEF Types
  <1>2. ASSUME NEW f, Proper(f), Operate(t, f), UNCHANGED sent
        PROVE  /\ Moves(t) /\ ~In(t, "send") /\ UNCHANGED <<pipe, sent, executed, wake>>
               /\ ops' \in [Tasks -> Nat]
    <2>1. stack[t] = <<>> /\ stack' = [stack EXCEPT ![t] = Onto(t, f)]
      BY <1>2 DEF Operate, Onto
    <2>2. Moves(t)
      BY <1>2, <2>1, MovesOnto
    <2>3. ~In(t, "send") /\ UNCHANGED <<pipe, sent, executed, wake>>
      BY <1>2, <2>1 DEF Operate, In
    <2>4. ops' = [ops EXCEPT ![t] = ops[t] + 1] /\ ops \in [Tasks -> Nat]
      BY <1>2 DEF Operate, Types
    <2>5. ops' \in [Tasks -> Nat]
      BY <2>4
    <2> QED
      BY <2>2, <2>3, <2>5
  <1>3. ASSUME NEW ev \in Event, ev.xt # "user", NEW u \in Tasks
        PROVE  Proper(<<SendFrame(ev, u)>>)
    <2>1. PICK s : s = SendFrame(ev, u)
      OBVIOUS
    <2>2. s \in Frame /\ s.ev = ev
      BY <2>1, FrameTypes DEF SendFrame
    <2>3. Proper(<<s>>)
      BY <1>3, <2>2 DEF Proper
    <2> QED
      BY <2>1, <2>3
  <1>4. ASSUME NEW u \in Tasks,
               RestartTask(t, u) \/ HaltTask(t, u) \/ Request(t, u) \/ SendAsking(t, u)
        PROVE  /\ Moves(t) /\ ~In(t, "send") /\ UNCHANGED <<pipe, sent, executed, wake>>
               /\ ops' \in [Tasks -> Nat]
    <2>1. CASE RestartTask(t, u)
      <3>0. Restart(0, NoRequest(u)) \in Event
        BY EventTypes
      <3>1. PICK ev \in Event : ev = Restart(0, NoRequest(u)) /\ ev.xt # "user"
        BY <3>0 DEF Restart
      <3> QED
        BY <1>2, <1>3, <2>1, <3>1 DEF RestartTask
    <2>2. CASE HaltTask(t, u)
      <3>1. PICK ev \in Event : ev = Halt /\ ev.xt # "user"
        BY EventTypes DEF Halt
      <3> QED
        BY <1>2, <1>3, <2>2, <3>1 DEF HaltTask
    <2>3. CASE Request(t, u)
      BY <1>2, <2>3, BlockProper DEF Request
    <2>4. CASE SendAsking(t, u)
      <3>1. PICK ev \in Event : ev = Ask(t) /\ ev.xt # "user"
        BY EventTypes DEF Ask
      <3> QED
        BY <1>2, <1>3, <2>4, <3>1 DEF SendAsking
    <2> QED
      BY <1>4, <2>1, <2>2, <2>3, <2>4
  <1>5. CASE Serve(t)
    <2>1. PICK frame \in {StopFrame, TimedFrame, EventsFrame} : stack' = [stack EXCEPT ![t] = <<frame>>]
      BY <1>5 DEF Serve
    <2>2. frame \in Frame /\ frame.op # "send"
      BY FrameTypes DEF StopFrame, TimedFrame, EventsFrame
    <2>3. Proper(<<frame>>)
      BY <2>2 DEF Proper
    <2>4. stack[t] = <<>> /\ UNCHANGED <<pipe, sent, executed, wake, ops>>
      BY <1>5 DEF Serve
    <2>5. Moves(t)
      BY <2>1, <2>3, <2>4, MovesOnto DEF Onto
    <2> QED
      BY <2>4, <2>5 DEF In, Types
  <1>6. CASE NoMoreEvents(t)
    <2>1. /\ stack[t] # <<>> /\ Top(t).op = "?events" /\ stack' = [stack EXCEPT ![t] = Rest(t)]
          /\ UNCHANGED <<pipe, sent, executed, wake, ops>>
      BY <1>6 DEF NoMoreEvents, In
    <2>2. Proper(Rest(t))
      BY <2>1, RestKeeps
    <2> QED
      BY <1>1, <2>1, <2>2 DEF Moves, In, Types
  <1>7. CASE Timed(t)
    <2>1. PICK f \in {<<>>, <<StopFrame>>} : stack' = [stack EXCEPT ![t] = Rest(t) \o f]
      BY <1>7 DEF Timed
    <2>2. /\ stack[t] # <<>> /\ Top(t).op = "timed" /\ UNCHANGED <<pipe, sent, executed, wake, ops>>
      BY <1>7 DEF Timed, In
    <2>3. Proper(f)
      <3>1. Proper(<<>>)
        BY DEF Proper
      <3>2. Proper(<<StopFrame>>)
        BY FrameTypes DEF Proper, StopFrame
      <3> QED
        BY <3>1, <3>2
    <2>4. Moves(t)
      BY <2>1, <2>2, <2>3, MovesOnto DEF Onto
    <2> QED
      BY <2>2, <2>4 DEF In, Types
  <1>8. CASE Awaiting(t)
    <2>1. /\ stack[t] # <<>> /\ Top(t).op = "block" /\ UNCHANGED <<pipe, sent, executed, wake, ops>>
          /\ \/ stack' = [stack EXCEPT ![t] = Rest(t)]
             \/ stack' = [stack EXCEPT ![t] = Append(@, StopFrame)]
      BY <1>8 DEF Awaiting, In
    <2>2. Proper(Rest(t))
      BY <2>1, RestKeeps
    <2>3. Proper(Append(stack[t], StopFrame))
      <3>1. ~In(t, "send")
        BY <2>1 DEF In
      <3>2. \A k \in DOMAIN stack[t] : stack[t][k].op # "send"
        BY <3>1, NotSending
      <3>3. StopFrame \in Frame /\ StopFrame.op = "stop"
        BY FrameTypes DEF StopFrame
      <3> QED
        BY <1>1, <3>2, <3>3 DEF Proper
    <2>4. Moves(t)
      BY <1>1, <2>1, <2>2, <2>3 DEF Moves
    <2> QED
      BY <2>1, <2>4 DEF In, Types
  <1> QED
    BY <1>4, <1>5, <1>6, <1>7, <1>8


LEMMA ReadMoves ==
  ASSUME Types, SendOnTop, NEW t \in Tasks, Read(t)
  PROVE  LET ev == pipe[t][1]
         IN  /\ Moves(t) /\ ~In(t, "send") /\ pipe[t] # <<>> /\ ev \in Event
             /\ stack' = [stack EXCEPT ![t] = Rest(t) \o Called(t, ev)]
             /\ pipe' = [pipe EXCEPT ![t] = Tail(pipe[t])]
             /\ UNCHANGED <<ops, sent, returned>>
             /\ wake' = IF ev.xt = "restart" THEN [wake EXCEPT ![t] = ev.n] ELSE wake
             /\ executed' = IF ev.xt = "user" THEN [executed EXCEPT ![t][ev.from] = ev.n] ELSE executed
             /\ answered' = answered \cup (IF ev.xt = "restart" THEN {ev.id} ELSE {})
  <1> DEFINE ev == pipe[t][1]
  <1>1. pipe[t] # <<>> /\ stack[t] # <<>> /\ Top(t).op \in {"stop", "?events"}
    BY DEF Read, In
  <1>2. pipe[t] \in Seq(Event) /\ Head(pipe[t]) = ev /\ ev \in Event
    BY <1>1 DEF Types
  <1>3. /\ stack' = [stack EXCEPT ![t] = Rest(t) \o Called(t, ev)]
        /\ pipe' = [pipe EXCEPT ![t] = Tail(pipe[t])]
        /\ UNCHANGED <<ops, sent, returned>>
        /\ wake' = IF ev.xt = "restart" THEN [wake EXCEPT ![t] = ev.n] ELSE wake
        /\ executed' = IF ev.xt = "user" THEN [executed EXCEPT ![t][ev.from] = ev.n] ELSE executed
        /\ answered' = answered \cup (IF ev.xt = "restart" THEN {ev.id} ELSE {})
    BY <1>2 DEF Read, Perform
  <1>4. Moves(t)
    <2>1. PICK e \in Event : e = ev
      BY <1>2
    <2>2. Proper(Called(t, e))
      BY CalledProper
    <2>3. stack' = [stack EXCEPT ![t] = Onto(t, Called(t, e))]
      BY <1>1, <1>3, <2>1 DEF Onto
    <2> QED
      BY <2>2, <2>3, MovesOnto
  <1> QED
    BY <1>1, <1>2, <1>3, <1>4 DEF In

LEMMA ReadOrder ==
  ASSUME Types, SendOnTop, Behind, SendingOrder, NEW t \in Tasks, Read(t)
  PROVE  Types' /\ SendOnTop' /\ Behind' /\ SendingOrder'
  <1> DEFINE ev == pipe[t][1]
  <1>1. /\ Moves(t) /\ ~In(t, "send") /\ pipe[t] # <<>> /\ ev \in Event
        /\ pipe' = [pipe EXCEPT ![t] = Tail(pipe[t])]
        /\ UNCHANGED <<ops, sent>>
        /\ wake' = IF ev.xt = "restart" THEN [wake EXCEPT ![t] = ev.n] ELSE wake
        /\ executed' = IF ev.xt = "user" THEN [executed EXCEPT ![t][ev.from] = ev.n] ELSE executed
    BY ReadMoves
  <1>2. stack' \in [Tasks -> Seq(Frame)] /\ SendOnTop'
    BY <1>1, ProperKept DEF Moves
  <1>3. /\ ev.xt = "user" => ev.from \in Tasks /\ ev.n \in Nat
        /\ ev.xt = "restart" => ev.n \in Nat
    BY <1>1 DEF Event
  <1>4. pipe[t] \in Seq(Event) /\ Len(pipe[t]) \in Nat \ {0} /\ Tail(pipe[t]) \in Seq(Event)
        /\ DOMAIN pipe[t] = 1 .. Len(pipe[t])
    BY <1>1 DEF Types
  <1> HIDE DEF ev
  <1>5. Types'
    <2>1. pipe' \in [Tasks -> Seq(Event)]
      BY <1>1, <1>4 DEF Types
    <2>2. wake' \in [Tasks -> Nat]
      BY <1>1, <1>3 DEF Types
    <2>3. executed' \in [Tasks -> [Tasks -> Nat]]
      BY <1>1, <1>3 DEF Types
    <2>4. ops' \in [Tasks -> Nat] /\ sent' \in [Tasks -> [Tasks -> Nat]]
      BY <1>1 DEF Types
    <2> QED
      BY <1>2, <2>1, <2>2, <2>3, <2>4 DEF Types
  <1>6. ASSUME NEW v \in Tasks, NEW u \in Tasks
        PROVE  InOrder(v, u)' /\ executed'[v][u] <= sent'[u][v]
    <2>1. InOrder(v, u) /\ executed[v][u] <= sent[u][v]
      BY DEF SendingOrder, InOrder, Behind
    <2>2. stack'[u] = stack[u] \/ (Writing(u, v) = {} /\ Writing(u, v)' = {})
      <3>1. CASE u # t
        BY <1>1, <3>1 DEF Moves
      <3>2. CASE u = t
        <4>1. Writing(t, v) = {}
          BY <1>1, NotSending
        <4>2. Writing(t, v)' = {}
          BY <1>1 DEF Moves, Writing, Proper
        <4> QED
          BY <3>2, <4>1, <4>2
      <3> QED
        BY <3>1, <3>2
    <2>3. sent'[u][v] = sent[u][v]
      BY <1>1
    <2>4. CASE v # t
      <3>1. pipe'[v] = pipe[v] /\ executed'[v][u] = executed[v][u]
        BY <1>1, <2>4 DEF Types
      <3>2. Waiting(v, u)' = Waiting(v, u) /\ \A k \in Waiting(v, u) : pipe'[v][k] = pipe[v][k]
        BY <3>1 DEF Waiting
      <3> QED
        BY <2>1, <2>2, <2>3, <3>1, <3>2, OrderSame
    <2>5. CASE v = t
      <3>1. pipe'[t] = Tail(pipe[t])
        BY <1>1 DEF Types
      <3>2. 1 \in Waiting(t, u) <=> ev.xt = "user" /\ ev.from = u
        BY <1>4 DEF Waiting, ev
      <3>3. executed'[t][u] = IF 1 \in Waiting(t, u) THEN pipe[t][1].n ELSE executed[t][u]
        <4>1. CASE ev.xt = "user"
          <5>1. executed' = [executed EXCEPT ![t][ev.from] = ev.n] /\ ev.from \in Tasks
            BY <1>1, <1>3, <4>1
          <5>2. executed'[t][u] = IF u = ev.from THEN ev.n ELSE executed[t][u]
            BY <5>1 DEF Types
          <5> QED
            BY <3>2, <4>1, <5>2 DEF ev
        <4>2. CASE ev.xt # "user"
          BY <1>1, <3>2, <4>2
        <4> QED
          BY <4>1, <4>2
      <3> QED
        BY <1>1, <2>1, <2>2, <2>3, <2>5, <3>1, <3>3, ReadPair
    <2> QED
      BY <2>4, <2>5
  <1> QED
    BY <1>2, <1>5, <1>6 DEF SendingOrder, InOrder, Behind

LEMMA OrderStep ==
  ASSUME OrderInv, [NestedNext]_vars
  PROVE  OrderInv'
  <1>0. Types /\ SendOnTop /\ Behind /\ SendingOrder
    BY DEF OrderInv
  <1>1. CASE UNCHANGED vars
    <2>1. Types' /\ SendOnTop' /\ Behind'
      BY <1>0, <1>1 DEF vars, Types, SendOnTop, Behind
    <2>2. SendingOrder'
      BY <1>0, <1>1 DEF vars, SendingOrder, Waiting, Writing
    <2> QED
      BY <2>1, <2>2 DEF OrderInv
  <1>2. ASSUME NEW t \in Tasks, NEW u \in Tasks, SendUser(t, u)
        PROVE  OrderInv'
    <2>1. stack' \in [Tasks -> Seq(Frame)] /\ SendOnTop' /\ SendingOrder'
      BY <1>0, <1>2, SendUserOrder
    <2>2. /\ sent' = [sent EXCEPT ![t][u] = sent[t][u] + 1] /\ ops' = [ops EXCEPT ![t] = ops[t] + 1]
          /\ UNCHANGED <<pipe, wake, executed>>
      BY <1>2 DEF SendUser, Operate
    <2>3. /\ sent' \in [Tasks -> [Tasks -> Nat]] /\ ops' \in [Tasks -> Nat]
          /\ \A v, w \in Tasks : sent[w][v] \in Nat /\ sent'[w][v] \in Nat /\ sent[w][v] <= sent'[w][v]
      <3>0. sent[t][u] \in Nat /\ ops[t] \in Nat
        BY <1>0 DEF Types
      <3>1. sent[t][u] + 1 \in Nat /\ ops[t] + 1 \in Nat /\ sent[t][u] \in Nat
        BY <3>0
      <3>2. sent' \in [Tasks -> [Tasks -> Nat]] /\ ops' \in [Tasks -> Nat]
        BY <1>0, <2>2, <3>1 DEF Types
      <3>3. ASSUME NEW v \in Tasks, NEW w \in Tasks
            PROVE  sent[w][v] \in Nat /\ sent'[w][v] \in Nat /\ sent[w][v] <= sent'[w][v]
        <4>1. sent'[w][v] = sent[w][v] \/ (w = t /\ v = u /\ sent'[w][v] = sent[t][u] + 1)
          BY <1>0, <2>2 DEF Types
        <4>2. sent[w][v] \in Nat /\ sent'[w][v] \in Nat
          BY <1>0, <3>2 DEF Types
        <4> QED
          BY <4>1, <4>2
      <3> QED
        BY <3>2, <3>3
    <2>4. Types'
      BY <1>0, <2>1, <2>2, <2>3 DEF Types
    <2>5. Behind'
      <3> SUFFICES ASSUME NEW v \in Tasks, NEW w \in Tasks PROVE executed'[v][w] <= sent'[w][v]
        BY DEF Behind
      <3>1. executed[v][w] \in Nat /\ executed[v][w] <= sent[w][v] /\ executed'[v][w] = executed[v][w]
        BY <1>0, <2>2 DEF Types, Behind
      <3> QED
        BY <2>3, <3>1
    <2> QED
      BY <2>1, <2>4, <2>5 DEF OrderInv
  <1>3. ASSUME NEW t \in Tasks,
               \/ \E u \in Tasks : RestartTask(t, u) \/ HaltTask(t, u) \/ Request(t, u) \/ SendAsking(t, u)
               \/ Serve(t) \/ NoMoreEvents(t) \/ Timed(t) \/ Awaiting(t)
        PROVE  OrderInv'
    <2>1. /\ Moves(t) /\ ~In(t, "send") /\ UNCHANGED <<pipe, sent, executed, wake>>
          /\ ops' \in [Tasks -> Nat]
      BY <1>0, <1>3, QuietMoves
    <2>2. stack' \in [Tasks -> Seq(Frame)] /\ SendOnTop'
      BY <1>0, <2>1, ProperKept DEF Moves
    <2>3. SendingOrder'
      BY <1>0, <2>1, QuietOrder DEF Moves
    <2>4. Types' /\ Behind'
      BY <1>0, <2>1, <2>2 DEF Types, Behind
    <2> QED
      BY <2>2, <2>3, <2>4 DEF OrderInv
  <1>4. ASSUME NEW t \in Tasks, Send(t)
        PROVE  OrderInv'
    <2>1. /\ pipe' \in [Tasks -> Seq(Event)] /\ stack' \in [Tasks -> Seq(Frame)]
          /\ SendOnTop' /\ SendingOrder'
      BY <1>0, <1>4, SendOrder
    <2>2. Types' /\ Behind'
      BY <1>0, <1>4, <2>1 DEF Send, Types, Behind
    <2> QED
      BY <2>1, <2>2 DEF OrderInv
  <1>5. ASSUME NEW t \in Tasks, Read(t)
        PROVE  OrderInv'
    BY <1>0, <1>5, ReadOrder DEF OrderInv
  <1> QED
    BY <1>1, <1>2, <1>3, <1>4, <1>5 DEF NestedNext, Next, Step

LEMMA OrderStart ==
  ASSUME Init
  PROVE  OrderInv
  <1>1. Types /\ SendOnTop /\ Behind
    BY DEF Init, Types, SendOnTop, Behind
  <1>2. SendingOrder
    <2> SUFFICES ASSUME NEW t \in Tasks, NEW u \in Tasks PROVE InOrder(t, u)
      BY DEF SendingOrder, InOrder
    <2>1. Waiting(t, u) = {} /\ Writing(u, t) = {}
      BY DEF Init, Waiting, Writing
    <2>2. {pipe[t][k].n : k \in Waiting(t, u)} = {} /\ {stack[u][k].ev.n : k \in Writing(u, t)} = {}
      BY <2>1
    <2>3. executed[t][u] = 0 /\ sent[u][t] = 0
      BY DEF Init
    <2>4. 0 + 1 .. 0 = {}
      OBVIOUS
    <2> QED
      BY <2>1, <2>2, <2>3, <2>4 DEF InOrder
  <1> QED
    BY <1>1, <1>2 DEF OrderInv

(* The inductive invariant of the order of plain events, also for programs *)
(* that let another task call event-block.                                 *)
THEOREM OrderInvariant == NestedSpec => []OrderInv
  <1>1. Init => OrderInv
    BY OrderStart
  <1>2. OrderInv /\ [NestedNext]_vars => OrderInv'
    BY OrderStep
  <1> QED
    BY <1>1, <1>2, PTL DEF NestedSpec

(* Programs whose events do not call event-block are a special case. *)
LEMMA SpecNested == Spec => NestedSpec
  <1>1. [Next]_vars => [NestedNext]_vars
    BY DEF NestedNext
  <1> QED
    BY <1>1, PTL DEF Spec, NestedSpec

(* The plain events of one sender are executed in the order they were sent *)
(* in, each exactly once.                                                  *)
THEOREM EventsInOrder == NestedSpec => []SendingOrder
  <1>1. OrderInv => SendingOrder
    BY DEF OrderInv
  <1> QED
    BY <1>1, OrderInvariant, PTL


-----------------------------------------------------------------------------
(* The words of a task after a step. *)

LEMMA OntoFrames ==
  ASSUME Types, SendOnTop, NEW t \in Tasks, NEW f \in Seq(Frame),
         stack' = [stack EXCEPT ![t] = Onto(t, f)]
  PROVE  /\ \A k \in DOMAIN stack'[t] :
              \/ k \in DOMAIN stack[t] /\ stack'[t][k] = stack[t][k] /\ stack[t][k].op # "send"
              \/ \E i \in 1 .. Len(f) : stack'[t][k] = f[i]
         /\ stack[t] # <<>> /\ Len(stack[t]) # 1 => stack'[t] # <<>> /\ stack'[t][1] = stack[t][1]
         /\ \A v \in Tasks \ {t} : stack'[v] = stack[v]
  <1>0. stack'[t] = Onto(t, f) /\ \A v \in Tasks \ {t} : stack'[v] = stack[v]
    BY DEF Types
  <1>1. CASE stack[t] = <<>>
    <2>1. stack'[t] = f /\ DOMAIN f = 1 .. Len(f)
      BY <1>0, <1>1 DEF Onto
    <2> QED
      BY <1>0, <1>1, <2>1
  <1>2. CASE stack[t] # <<>>
    <2>1. PICK s \in Seq(Frame) : s = stack[t]
      BY DEF Types
    <2>2. PICK r : r = SubSeq(s, 1, Len(s) - 1) \o f
      OBVIOUS
    <2>3. stack'[t] = r
      BY <1>0, <1>2, <2>1, <2>2 DEF Onto, Rest
    <2>4. IsReplaced(s, f, r)
      <3>1. s # <<>>
        BY <1>2, <2>1
      <3> QED
        BY <2>2, <3>1, Replaced
    <2>5. \A k \in 1 .. Len(s) - 1 : s[k].op # "send" /\ k \in DOMAIN s
      BY <2>1, <2>4 DEF SendOnTop, IsReplaced
    <2>6. ASSUME NEW k \in DOMAIN r
          PROVE  \/ k \in DOMAIN s /\ r[k] = s[k] /\ s[k].op # "send"
                 \/ \E i \in 1 .. Len(f) : r[k] = f[i]
      <3>1. k \in 1 .. Len(s) - 1 \/ k \in Len(s) .. Len(r)
        BY <2>4 DEF IsReplaced
      <3> QED
        BY <2>4, <2>5, <3>1 DEF IsReplaced
    <2>7. Len(s) # 1 => r # <<>> /\ r[1] = s[1]
      <3> SUFFICES ASSUME Len(s) # 1 PROVE r # <<>> /\ r[1] = s[1]
        OBVIOUS
      <3>0. PICK i \in Nat \ {0}, j \in Nat : i = Len(s) /\ j = Len(f) /\ i # 1 /\ Len(r) = i - 1 + j
        BY <2>4 DEF IsReplaced
      <3>1. 1 \in 1 .. i - 1 /\ i - 1 + j # 0
        BY <3>0
      <3> QED
        BY <2>4, <3>0, <3>1 DEF IsReplaced
    <2> QED
      BY <1>0, <2>1, <2>3, <2>6, <2>7
  <1> QED
    BY <1>1, <1>2

(* event-block goes on where it was called. *)
BlocksKept ==
  \A v \in Tasks :
    /\ \A k \in DOMAIN stack'[v] : stack'[v][k].op = "block" =>
         k \in DOMAIN stack[v] /\ stack'[v][k] = stack[v][k]
    /\ stack[v] # <<>> /\ stack[v][1].op = "block" => stack'[v] # <<>> /\ stack'[v][1] = stack[v][1]

LEMMA KeptOnto ==
  ASSUME Types, SendOnTop, NEW t \in Tasks, NEW f \in Seq(Frame), ~In(t, "block"),
         \A i \in 1 .. Len(f) : f[i].op # "block",
         stack' = [stack EXCEPT ![t] = Onto(t, f)]
  PROVE  BlocksKept
  <1>1. /\ \A k \in DOMAIN stack'[t] :
             \/ k \in DOMAIN stack[t] /\ stack'[t][k] = stack[t][k] /\ stack[t][k].op # "send"
             \/ \E i \in 1 .. Len(f) : stack'[t][k] = f[i]
        /\ stack[t] # <<>> /\ Len(stack[t]) # 1 => stack'[t] # <<>> /\ stack'[t][1] = stack[t][1]
        /\ \A v \in Tasks \ {t} : stack'[v] = stack[v]
    BY OntoFrames
  <1>2. stack[t] # <<>> /\ stack[t][1].op = "block" => Len(stack[t]) # 1
    BY DEF In, Top
  <1> SUFFICES ASSUME NEW v \in Tasks
               PROVE  /\ \A k \in DOMAIN stack'[v] : stack'[v][k].op = "block" =>
                           k \in DOMAIN stack[v] /\ stack'[v][k] = stack[v][k]
                      /\ stack[v] # <<>> /\ stack[v][1].op = "block" =>
                           stack'[v] # <<>> /\ stack'[v][1] = stack[v][1]
    BY DEF BlocksKept
  <1>3. CASE v = t
    BY <1>1, <1>2, <1>3
  <1>4. CASE v # t
    BY <1>1, <1>4
  <1> QED
    BY <1>3, <1>4

LEMMA RestOnto ==
  ASSUME Types, SendOnTop, NEW t \in Tasks, stack[t] # <<>>
  PROVE  Rest(t) = Onto(t, <<>>)
  <1>1. Rest(t) \in Seq(Frame)
    BY RestKeeps
  <1>2. Rest(t) \o <<>> = Rest(t)
    BY <1>1, ConcatEmptySeq
  <1> QED
    BY <1>2 DEF Onto


-----------------------------------------------------------------------------
(* Answers on their way. *)

(* An answer that is on its way still is after a step. *)
LEMMA AwaitedKept ==
  ASSUME NEW ev, Awaited(ev), ev.id \notin answered', stack'[Owner(ev)] # <<>>,
         stack'[Owner(ev)][1] = stack[Owner(ev)][1]
  PROVE  Awaited(ev)'
  BY DEF Awaited, Owner

LEMMA OwnerIs ==
  ASSUME NEW ev, Awaited(ev)
  PROVE  /\ Owner(ev) \in Tasks /\ ev.id[2] \in Tasks /\ ev.id[3] \in Nat
         /\ ev.id = <<Owner(ev), ev.id[2], ev.id[3]>>
         /\ stack[Owner(ev)] # <<>> /\ stack[Owner(ev)][1].op = "block"
         /\ stack[Owner(ev)][1].n = ev.n /\ stack[Owner(ev)][1].id = ev.id
  BY DEF Awaited, Owner, Requests, BlockFrame

(* What t carries, by the place of the frame. *)
LEMMA CarriesIs ==
  ASSUME Types, SendOnTop, NEW t \in Tasks
  PROVE  /\ Carries(t) <=> \E k \in DOMAIN stack[t] : stack[t][k].op = "send" /\ Token(stack[t][k].ev)
         /\ \A k \in DOMAIN stack[t] : stack[t][k].op = "send" => stack[t][k] = Top(t)
  <1>1. stack[t] \in Seq(Frame)
    BY DEF Types
  <1>2. \A k \in DOMAIN stack[t] : stack[t][k].op = "send" => stack[t][k] = Top(t) /\ stack[t] # <<>>
    BY <1>1 DEF SendOnTop, Top
  <1>3. stack[t] # <<>> => Len(stack[t]) \in DOMAIN stack[t]
    BY <1>1
  <1> QED
    BY <1>2, <1>3 DEF Carries, In, Top

(* Blocks and Numbered when wake# and answered are left alone. *)
LEMMA BlocksStill ==
  ASSUME Types, Types', Blocks, Numbered, BlocksKept, UNCHANGED <<wake, answered>>,
         \A v \in Tasks : ops[v] <= ops'[v]
  PROVE  Blocks' /\ Numbered'
  <1>0. \A v \in Tasks : ops[v] \in Nat /\ ops'[v] \in Nat
    BY DEF Types
  <1>1. Numbered'
    BY <1>0 DEF Numbered
  <1>2. ASSUME NEW v \in Tasks, NEW k \in DOMAIN stack'[v], stack'[v][k].op = "block"
        PROVE  /\ k = 1 /\ stack'[v][k].n # 0 /\ stack'[v][k].id[1] = v /\ stack'[v][k].id[3] < ops'[v]
               /\ wake'[v] = stack'[v][k].n => stack'[v][k].id \in answered'
    <2>1. k \in DOMAIN stack[v] /\ stack'[v][k] = stack[v][k]
      BY <1>2 DEF BlocksKept
    <2>2. stack[v][k].op = "block" /\ stack[v] \in Seq(Frame)
      BY <1>2, <2>1 DEF Types
    <2>3. /\ k = 1 /\ stack[v][k].n # 0 /\ stack[v][k].id[1] = v /\ stack[v][k].id[3] < ops[v]
          /\ wake[v] = stack[v][k].n => stack[v][k].id \in answered
      BY <2>1, <2>2 DEF Blocks
    <2>4. stack[v][k].id[3] \in Nat
      <3>1. PICK f \in Frame : f = stack[v][k]
        BY <2>1, <2>2
      <3>2. f.id \in Requests
        BY <2>2, <3>1 DEF Frame
      <3>3. f.id[3] \in Nat
        BY <3>2 DEF Requests
      <3> QED
        BY <3>1, <3>3
    <2> QED
      BY <1>0, <2>1, <2>3, <2>4
  <1> QED
    BY <1>1, <1>2 DEF Blocks

(* Steps of t that start, move or end no answer. *)
LEMMA TokensStill ==
  ASSUME Types, Types', SendOnTop, SendOnTop', Tokens, BlocksKept, NEW t \in Tasks, ~In(t, "send"),
         \A v \in Tasks \ {t} : stack'[v] = stack[v],
         \A k \in DOMAIN stack'[t] : stack'[t][k].op = "send" =>
            Plain(stack'[t][k].ev) /\ ~Token(stack'[t][k].ev),
         UNCHANGED <<pipe, wake, answered, returned>>, \A v \in Tasks : ops[v] <= ops'[v]
  PROVE  Tokens'
  <1>0. AllPlain /\ Carried /\ Queued /\ OneToken /\ Blocks /\ Numbered /\ AnswerFirst
    BY DEF Tokens
  <1>1. Blocks' /\ Numbered' /\ AnswerFirst'
    BY <1>0, BlocksStill DEF AnswerFirst
  <1>2. AllPlain'
    BY <1>0 DEF AllPlain, Plain
  <1>3. ~Carries(t) /\ ~Carries(t)'
    <2>1. ~Carries(t)
      BY DEF Carries
    <2>2. stack'[t] # <<>> => Len(stack'[t]) \in DOMAIN stack'[t]
      BY DEF Types
    <2>3. ~Carries(t)'
      BY <2>2 DEF Carries, In, Top, Token
    <2> QED
      BY <2>1, <2>3
  <1>4. ASSUME NEW v \in Tasks, Carries(v)'
        PROVE  v # t /\ stack'[v] = stack[v] /\ Carries(v) /\ Top(v)' = Top(v)
    <2>1. v # t /\ stack'[v] = stack[v]
      BY <1>3, <1>4
    <2> QED
      BY <1>4, <2>1 DEF Carries, In, Top, Token
  <1>5. ASSUME NEW ev, Awaited(ev) PROVE Awaited(ev)'
    BY <1>5, AwaitedKept, OwnerIs DEF BlocksKept, Awaited
  <1>6. Carried'
    <2> SUFFICES ASSUME NEW v \in Tasks, Carries(v)'
                 PROVE  Awaited(Top(v).ev)' /\ (Top(v).ev.xt = "restart" => Top(v).to = Owner(Top(v).ev))'
      BY DEF Carried
    <2>1. PICK ev : ev = Top(v).ev
      OBVIOUS
    <2>2. Awaited(ev) /\ (ev.xt = "restart" => Top(v).to = Owner(ev))
      BY <1>0, <1>4, <2>1 DEF Carried
    <2>3. Awaited(ev)'
      BY <1>5, <2>2
    <2>4. Top(v)' = Top(v)
      BY <1>4
    <2> QED
      BY <2>1, <2>2, <2>3, <2>4 DEF Awaited, Owner
  <1>7. Queued'
    <2> SUFFICES ASSUME NEW v \in Tasks, NEW k \in DOMAIN pipe[v], Token(pipe[v][k])
                 PROVE  Awaited(pipe[v][k])' /\ (pipe[v][k].xt = "restart" => v = Owner(pipe[v][k]))
      BY DEF Queued, Token, Owner
    <2>1. PICK ev : ev = pipe[v][k]
      OBVIOUS
    <2>2. Awaited(ev) /\ (ev.xt = "restart" => v = Owner(ev))
      BY <1>0, <2>1 DEF Queued
    <2>3. Awaited(ev)'
      BY <1>5, <2>2
    <2> QED
      BY <2>1, <2>2, <2>3 DEF Awaited, Owner
  <1>8. OneToken'
    BY <1>0, <1>4 DEF OneToken, Owner, Token
  <1> QED
    BY <1>1, <1>2, <1>6, <1>7, <1>8 DEF Tokens


(* The programs' operations but for requests, and the words that go on     *)
(* without an event.                                                       *)
LEMMA QuietTokens ==
  ASSUME Types, Types', SendOnTop, SendOnTop', Tokens, NEW t \in Tasks,
         \/ \E u \in Tasks : SendUser(t, u) \/ RestartTask(t, u) \/ HaltTask(t, u)
         \/ Request(t, t) \/ Serve(t) \/ NoMoreEvents(t) \/ Timed(t)
  PROVE  Tokens'
  <1>1. ASSUME NEW f \in Seq(Frame), stack' = [stack EXCEPT ![t] = Onto(t, f)],
               ~In(t, "send"), ~In(t, "block"),
               \A i \in 1 .. Len(f) : /\ f[i].op # "block"
                                      /\ f[i].op = "send" => Plain(f[i].ev) /\ ~Token(f[i].ev),
               UNCHANGED <<pipe, wake, answered, returned>>, \A v \in Tasks : ops[v] <= ops'[v]
        PROVE  Tokens'
    <2>1. BlocksKept
      BY <1>1, KeptOnto
    <2>2. /\ \A k \in DOMAIN stack'[t] :
             \/ k \in DOMAIN stack[t] /\ stack'[t][k] = stack[t][k] /\ stack[t][k].op # "send"
             \/ \E i \in 1 .. Len(f) : stack'[t][k] = f[i]
          /\ \A v \in Tasks \ {t} : stack'[v] = stack[v]
      BY <1>1, OntoFrames
    <2>3. \A k \in DOMAIN stack'[t] : stack'[t][k].op = "send" =>
            Plain(stack'[t][k].ev) /\ ~Token(stack'[t][k].ev)
      BY <1>1, <2>2
    <2> QED
      BY <1>1, <2>1, <2>2, <2>3, TokensStill
  <1>2. ASSUME NEW ev \in Event, Plain(ev), ~Token(ev), NEW u \in Tasks, Operate(t, <<SendFrame(ev, u)>>)
        PROVE  Tokens'
    <2>1. PICK s \in Frame : s = SendFrame(ev, u)
      BY FrameTypes
    <2>2. s.op = "send" /\ s.ev = ev
      BY <2>1 DEF SendFrame
    <2>3. PICK f \in Seq(Frame) : f = <<s>>
      <3>1. <<s>> \in Seq(Frame)
        OBVIOUS
      <3> QED
        BY <3>1, Zenon
    <2>4. Len(f) = 1 /\ f[1] = s
      BY <2>3
    <2>5. /\ stack[t] = <<>> /\ stack' = [stack EXCEPT ![t] = Onto(t, f)]
          /\ UNCHANGED <<pipe, wake, answered, returned>> /\ ops' = [ops EXCEPT ![t] = ops[t] + 1]
      BY <1>2, <2>1, <2>3 DEF Operate, Onto
    <2>6. ~In(t, "send") /\ ~In(t, "block")
      BY <2>5 DEF In
    <2>7. \A v \in Tasks : ops[v] <= ops'[v]
      <3>1. \A v \in Tasks : ops[v] \in Nat /\ (ops'[v] = ops[v] \/ ops'[v] = ops[v] + 1)
        BY <2>5 DEF Types
      <3> QED
        BY <3>1
    <2>8. \A i \in 1 .. Len(f) : /\ f[i].op # "block"
                                 /\ f[i].op = "send" => Plain(f[i].ev) /\ ~Token(f[i].ev)
      BY <1>2, <2>2, <2>4
    <2> QED
      BY <1>1, <2>5, <2>6, <2>7, <2>8
  <1>3. ASSUME NEW fr \in Frame, fr.op \notin {"send", "block"}, stack[t] = <<>>,
               stack' = [stack EXCEPT ![t] = <<fr>>],
               UNCHANGED <<pipe, wake, answered, returned>>, \A v \in Tasks : ops[v] <= ops'[v]
        PROVE  Tokens'
    <2>1. PICK f \in Seq(Frame) : f = <<fr>>
      <3>1. <<fr>> \in Seq(Frame)
        OBVIOUS
      <3> QED
        BY <3>1, Zenon
    <2>2. Len(f) = 1 /\ f[1] = fr
      BY <2>1
    <2>3. stack' = [stack EXCEPT ![t] = Onto(t, f)] /\ ~In(t, "send") /\ ~In(t, "block")
      BY <1>3, <2>1 DEF Onto, In
    <2>4. \A i \in 1 .. Len(f) : /\ f[i].op # "block"
                                 /\ f[i].op = "send" => Plain(f[i].ev) /\ ~Token(f[i].ev)
      BY <1>3, <2>2
    <2> QED
      BY <1>1, <1>3, <2>3, <2>4
  <1>4. \A v \in Tasks : ops[v] \in Nat
    BY DEF Types
  <1>5. ASSUME NEW u \in Tasks, SendUser(t, u) \/ RestartTask(t, u) \/ HaltTask(t, u)
        PROVE  Tokens'
    <2>1. CASE SendUser(t, u)
      <3>0. sent[t][u] + 1 \in Nat
        <4>1. sent[t][u] \in Nat
          BY DEF Types
        <4> QED
          BY <4>1
      <3>1. PICK ev : ev = User(t, sent[t][u] + 1)
        OBVIOUS
      <3>2. ev \in Event /\ Plain(ev) /\ ~Token(ev)
        BY <3>0, <3>1, EventTypes DEF User, Plain, Token
      <3> QED
        BY <1>2, <2>1, <3>1, <3>2 DEF SendUser
    <2>2. CASE RestartTask(t, u)
      <3>1. PICK ev : ev = Restart(0, NoRequest(u))
        OBVIOUS
      <3>2. ev \in Event
        BY <3>1, EventTypes
      <3>3. Plain(ev) /\ ~Token(ev)
        BY <3>1 DEF Restart, Plain, Token
      <3> QED
        BY <1>2, <2>2, <3>1, <3>2, <3>3 DEF RestartTask
    <2>3. CASE HaltTask(t, u)
      <3>1. PICK ev : ev = Halt
        OBVIOUS
      <3>2. ev \in Event /\ Plain(ev) /\ ~Token(ev)
        BY <3>1, EventTypes DEF Halt, Plain, Token
      <3> QED
        BY <1>2, <2>3, <3>1, <3>2 DEF HaltTask
    <2> QED
      BY <1>5, <2>1, <2>2, <2>3
  <1>6. CASE Request(t, t)
    <2>1. /\ stack[t] = <<>> /\ stack' = [stack EXCEPT ![t] = <<EventsFrame>>]
          /\ UNCHANGED <<pipe, wake, answered, returned>> /\ ops' = [ops EXCEPT ![t] = ops[t] + 1]
      BY <1>6 DEF Request, Operate, EventBlock
    <2>2. \A v \in Tasks : ops'[v] = ops[v] \/ ops'[v] = ops[v] + 1
      BY <2>1 DEF Types
    <2>3. \A v \in Tasks : ops[v] <= ops'[v]
      BY <1>4, <2>2
    <2>4. EventsFrame \in Frame /\ EventsFrame.op \notin {"send", "block"}
      BY FrameTypes DEF EventsFrame
    <2> QED
      BY <1>3, <2>1, <2>3, <2>4
  <1>7. CASE Serve(t)
    <2>1. PICK fr \in {StopFrame, TimedFrame, EventsFrame} : stack' = [stack EXCEPT ![t] = <<fr>>]
      BY <1>7 DEF Serve
    <2>2. stack[t] = <<>> /\ UNCHANGED <<pipe, wake, answered, returned, ops>>
      BY <1>7 DEF Serve
    <2>3. fr \in Frame /\ fr.op \notin {"send", "block"}
      BY FrameTypes DEF StopFrame, TimedFrame, EventsFrame
    <2> QED
      <3>1. \A v \in Tasks : ops[v] <= ops'[v]
        BY <1>4, <2>2
      <3> QED
        BY <1>3, <2>1, <2>2, <2>3, <3>1
  <1>8. CASE NoMoreEvents(t)
    <2>1. /\ stack[t] # <<>> /\ Top(t).op = "?events" /\ stack' = [stack EXCEPT ![t] = Rest(t)]
          /\ UNCHANGED <<pipe, wake, answered, returned, ops>>
      BY <1>8 DEF NoMoreEvents, In
    <2>2. PICK f \in Seq(Frame) : f = <<>> /\ Len(f) = 0
      <3>1. <<>> \in Seq(Frame) /\ Len(<<>>) = 0
        OBVIOUS
      <3> QED
        BY <3>1, Zenon
    <2>3. stack' = [stack EXCEPT ![t] = Onto(t, f)]
      BY <2>1, <2>2, RestOnto
    <2>4. ~In(t, "send") /\ ~In(t, "block") /\ \A v \in Tasks : ops[v] <= ops'[v]
      BY <1>4, <2>1 DEF In
    <2>5. \A i \in 1 .. Len(f) : /\ f[i].op # "block"
                                 /\ f[i].op = "send" => Plain(f[i].ev) /\ ~Token(f[i].ev)
      BY <2>2
    <2>6. UNCHANGED <<pipe, wake, answered, returned>>
      BY <2>1
    <2> QED
      BY <1>1, <2>3, <2>4, <2>5, <2>6
  <1>9. CASE Timed(t)
    <2>1. PICK f \in {<<>>, <<StopFrame>>} : stack' = [stack EXCEPT ![t] = Rest(t) \o f]
      BY <1>9 DEF Timed
    <2>2. stack[t] # <<>> /\ Top(t).op = "timed" /\ UNCHANGED <<pipe, wake, answered, returned, ops>>
      BY <1>9 DEF Timed, In
    <2>3. stack' = [stack EXCEPT ![t] = Onto(t, f)]
      BY <2>1, <2>2 DEF Onto
    <2>4. f \in Seq(Frame) /\ \A i \in 1 .. Len(f) : f[i].op = "stop"
      <3>1. CASE f = <<>>
        BY <3>1
      <3>2. CASE f = <<StopFrame>>
        BY <3>2, FrameTypes DEF StopFrame
      <3> QED
        BY <3>1, <3>2
    <2>5. ~In(t, "send") /\ ~In(t, "block") /\ \A v \in Tasks : ops[v] <= ops'[v]
      BY <1>4, <2>2 DEF In
    <2>6. \A i \in 1 .. Len(f) : /\ f[i].op # "block"
                                 /\ f[i].op = "send" => Plain(f[i].ev) /\ ~Token(f[i].ev)
      BY <2>4
    <2> QED
      BY <1>1, <2>2, <2>3, <2>4, <2>5, <2>6
  <1> QED
    BY <1>5, <1>6, <1>7, <1>8, <1>9


(* event-block starts: the request is on its way. *)
LEMMA RequestTokens ==
  ASSUME Types, Types', SendOnTop, SendOnTop', Tokens, NEW t \in Tasks, NEW u \in Tasks, u # t,
         Request(t, u)
  PROVE  Tokens'
  <1>0. AllPlain /\ Carried /\ Queued /\ OneToken /\ Blocks /\ Numbered /\ AnswerFirst
    BY DEF Tokens
  <1>1. PICK m \in Nat, o \in Nat : m = wake[t] /\ o = ops[t]
    BY DEF Types
  <1>2. PICK i, ev, b, s : /\ i = <<t, u, o>> /\ ev = Answer(t, m + 1, i)
                           /\ b = BlockFrame(m + 1, i) /\ s = SendFrame(ev, u)
    OBVIOUS
  <1>3. /\ stack[t] = <<>> /\ stack' = [stack EXCEPT ![t] = <<b, StopFrame, s>>]
        /\ UNCHANGED <<pipe, wake, answered, returned>> /\ ops' = [ops EXCEPT ![t] = ops[t] + 1]
    BY <1>1, <1>2 DEF Request, Operate, EventBlock
  <1>4. /\ i \in Requests /\ i[1] = t /\ i[3] = o
        /\ ev.xt = "answer" /\ ev.n = m + 1 /\ ev.id = i /\ ev.to = t
        /\ b.op = "block" /\ b.n = m + 1 /\ b.id = i
        /\ s.op = "send" /\ s.ev = ev /\ s.to = u /\ StopFrame.op = "stop" /\ m + 1 # 0 /\ m + 1 # m
    BY <1>1, <1>2 DEF Requests, Answer, BlockFrame, SendFrame, StopFrame
  <1>5. /\ stack'[t] = <<b, StopFrame, s>> /\ DOMAIN stack'[t] = 1 .. 3 /\ Len(stack'[t]) = 3
        /\ stack'[t][1] = b /\ stack'[t][2] = StopFrame /\ stack'[t][3] = s /\ stack'[t] # <<>>
        /\ \A v \in Tasks \ {t} : stack'[v] = stack[v]
    BY <1>3 DEF Types
  <1>6. Token(ev) /\ Owner(ev) = t /\ Plain(ev)
    BY <1>1, <1>4 DEF Token, Owner, Plain
  <1>7. Awaited(ev)'
    <2>1. i \notin answered
      BY <1>0, <1>1, <1>2 DEF Numbered
    <2> QED
      BY <1>2, <1>3, <1>4, <1>5, <2>1 DEF Awaited, Owner
  <1>8. Carries(t)' /\ Top(t)' = s
    BY <1>4, <1>5, <1>6 DEF Carries, In, Top, Token
  <1>9. ASSUME NEW v \in Tasks, v # t
        PROVE  /\ Carries(v)' <=> Carries(v)
               /\ Top(v)' = Top(v)
    <2>1. stack'[v] = stack[v]
      BY <1>5, <1>9
    <2> QED
      BY <2>1 DEF Carries, In, Top, Token
  <1>10. ASSUME NEW e, Awaited(e) PROVE Awaited(e)' /\ Owner(e) # t
    <2>1. Owner(e) # t /\ Owner(e) \in Tasks
      BY <1>3, <1>10, OwnerIs
    <2> QED
      BY <1>3, <1>5, <1>10, <2>1, AwaitedKept DEF Awaited
  <1>11. ASSUME NEW v \in Tasks, v # t, Carries(v)
         PROVE  /\ Awaited(Top(v).ev)' /\ Owner(Top(v).ev) # t
                /\ (Top(v).ev.xt = "restart" => Top(v).to = Owner(Top(v).ev))
    <2>1. PICK e : e = Top(v).ev
      OBVIOUS
    <2>2. Awaited(e) /\ (e.xt = "restart" => Top(v).to = Owner(e))
      BY <1>0, <1>11, <2>1 DEF Carried
    <2>3. Awaited(e)' /\ Owner(e) # t
      BY <1>10, <2>2
    <2>4. Top(v)' = Top(v)
      BY <1>9, <1>11
    <2> QED
      BY <2>1, <2>2, <2>3, <2>4 DEF Awaited, Owner
  <1>12. Carried'
    <2> SUFFICES ASSUME NEW v \in Tasks, Carries(v)'
                 PROVE  Awaited(Top(v).ev)' /\ (Top(v).ev.xt = "restart" => Top(v).to = Owner(Top(v).ev))'
      BY DEF Carried
    <2>1. CASE v = t
      BY <1>4, <1>7, <1>8, <2>1 DEF Awaited, Owner
    <2>2. CASE v # t
      BY <1>9, <1>11, <2>2 DEF Owner
    <2> QED
      BY <2>1, <2>2
  <1>13. ASSUME NEW v \in Tasks, NEW k \in DOMAIN pipe[v], Token(pipe[v][k])
         PROVE  /\ Awaited(pipe[v][k])' /\ Owner(pipe[v][k]) # t
                /\ (pipe[v][k].xt = "restart" => v = Owner(pipe[v][k]))
    <2>1. PICK e : e = pipe[v][k]
      OBVIOUS
    <2>2. Awaited(e) /\ (e.xt = "restart" => v = Owner(e))
      BY <1>0, <1>13, <2>1 DEF Queued
    <2>3. Awaited(e)' /\ Owner(e) # t
      BY <1>10, <2>2
    <2> QED
      BY <1>3, <2>1, <2>2, <2>3 DEF Awaited, Owner
  <1>14. Queued'
    BY <1>3, <1>13 DEF Queued, Token, Owner
  <1>15. OneToken'
    <2>1. \A v, w \in Tasks :
            Carries(v)' /\ Carries(w)' /\ Owner(Top(v).ev)' = Owner(Top(w).ev)' => v = w
      <3> SUFFICES ASSUME NEW v \in Tasks, NEW w \in Tasks, Carries(v)', Carries(w)',
                          Owner(Top(v).ev)' = Owner(Top(w).ev)'
                   PROVE  v = w
        OBVIOUS
      <3>1. CASE v # t /\ w # t
        BY <1>0, <1>9, <3>1 DEF OneToken, Owner
      <3>2. CASE v = t /\ w # t
        BY <1>4, <1>6, <1>8, <1>9, <1>11, <3>2 DEF Owner
      <3>3. CASE v # t /\ w = t
        BY <1>4, <1>6, <1>8, <1>9, <1>11, <3>3 DEF Owner
      <3> QED
        BY <3>1, <3>2, <3>3
    <2>2. \A v, w \in Tasks : \A k \in DOMAIN pipe[w] :
            Carries(v)' /\ Token(pipe[w][k]) => Owner(Top(v).ev)' # Owner(pipe[w][k])
      <3> SUFFICES ASSUME NEW v \in Tasks, NEW w \in Tasks, NEW k \in DOMAIN pipe[w],
                          Carries(v)', Token(pipe[w][k])
                   PROVE  Owner(Top(v).ev)' # Owner(pipe[w][k])
        OBVIOUS
      <3>1. CASE v = t
        BY <1>4, <1>6, <1>8, <1>13, <3>1 DEF Owner
      <3>2. CASE v # t
        BY <1>0, <1>9, <3>2 DEF OneToken, Owner
      <3> QED
        BY <3>1, <3>2
    <2> QED
      BY <1>0, <1>3, <2>1, <2>2 DEF OneToken, Token, Owner
  <1>16. AllPlain'
    <2>1. ASSUME NEW v \in Tasks, NEW k \in DOMAIN stack'[v], stack'[v][k].op = "send"
          PROVE  Plain(stack'[v][k].ev)
      <3>1. CASE v = t
        BY <1>4, <1>5, <1>6, <2>1, <3>1
      <3>2. CASE v # t
        BY <1>0, <1>5, <2>1, <3>2 DEF AllPlain
      <3> QED
        BY <3>1, <3>2
    <2> QED
      BY <1>0, <1>3, <2>1 DEF AllPlain, Plain
  <1>17. ops'[t] = o + 1 /\ \A v \in Tasks \ {t} : ops'[v] = ops[v]
    BY <1>1, <1>3 DEF Types
  <1>18. Blocks'
    <2> SUFFICES ASSUME NEW v \in Tasks, NEW k \in DOMAIN stack'[v], stack'[v][k].op = "block"
                 PROVE  /\ k = 1 /\ stack'[v][k].n # 0 /\ stack'[v][k].id[1] = v
                        /\ stack'[v][k].id[3] < ops'[v]
                        /\ wake'[v] = stack'[v][k].n => stack'[v][k].id \in answered'
      BY DEF Blocks
    <2>1. CASE v = t
      BY <1>1, <1>3, <1>4, <1>5, <1>17, <2>1
    <2>2. CASE v # t
      BY <1>0, <1>3, <1>5, <1>17, <2>2 DEF Blocks
    <2> QED
      BY <2>1, <2>2
  <1>19. Numbered'
    <2> SUFFICES ASSUME NEW v \in Tasks, NEW w \in Tasks, NEW x \in Nat, <<v, w, x>> \in answered
                 PROVE  x < ops'[v]
      BY <1>3 DEF Numbered
    <2>1. x < ops[v] /\ ops[v] \in Nat
      BY <1>0 DEF Numbered, Types
    <2> QED
      BY <1>1, <1>17, <2>1
  <1>20. AnswerFirst'
    BY <1>0, <1>3 DEF AnswerFirst
  <1> QED
    BY <1>12, <1>14, <1>15, <1>16, <1>18, <1>19, <1>20 DEF Tokens


(* event-block stops again, or returns: then nothing is on its way to t.   *)
LEMMA AwaitingTokens ==
  ASSUME Types, Types', SendOnTop, SendOnTop', Tokens, NEW t \in Tasks, Awaiting(t)
  PROVE  Tokens'
  <1>0. AllPlain /\ Carried /\ Queued /\ OneToken /\ Blocks /\ Numbered /\ AnswerFirst
    BY DEF Tokens
  <1>1. PICK s \in Seq(Frame) : s = stack[t]
    BY DEF Types
  <1>2. PICK l \in Nat \ {0} : l = Len(s)
    BY <1>1 DEF Awaiting, In
  <1>3. s # <<>> /\ s[l].op = "block" /\ l \in DOMAIN s /\ UNCHANGED <<pipe, wake, ops, answered>>
    BY <1>1, <1>2 DEF Awaiting, In, Top
  <1>4. l = 1 /\ (wake[t] = s[1].n => s[1].id \in answered)
    BY <1>0, <1>1, <1>3 DEF Blocks
  <1>5. ~In(t, "send")
    BY <1>1, <1>2, <1>3 DEF In, Top
  <1>6. \A v \in Tasks : ops[v] <= ops'[v]
    BY <1>3 DEF Types
  <1>7. CASE wake[t] # Top(t).n
    <2>1. stack' = [stack EXCEPT ![t] = Append(stack[t], StopFrame)] /\ UNCHANGED returned
      BY <1>7 DEF Awaiting
    <2>2. stack'[t] = Append(s, StopFrame) /\ \A v \in Tasks \ {t} : stack'[v] = stack[v]
      BY <1>1, <2>1 DEF Types
    <2>3. StopFrame \in Frame /\ StopFrame.op = "stop"
      BY FrameTypes DEF StopFrame
    <2>4. /\ DOMAIN stack'[t] = 1 .. 2 /\ DOMAIN s = 1 .. 1
          /\ stack'[t][1] = s[1] /\ stack'[t][2] = StopFrame /\ stack'[t] # <<>>
      <3>1. PICK x \in Frame : x = StopFrame
        BY <2>3
      <3>2. /\ DOMAIN Append(s, x) = 1 .. Len(s) + 1 /\ Append(s, x)[Len(s) + 1] = x
            /\ \A k \in 1 .. Len(s) : Append(s, x)[k] = s[k]
            /\ Append(s, x) # <<>> /\ DOMAIN s = 1 .. Len(s)
        OBVIOUS
      <3>3. Len(s) = 1
        BY <1>2, <1>4
      <3> QED
        BY <2>2, <3>1, <3>2, <3>3
    <2>5. BlocksKept
      BY <1>1, <2>2, <2>3, <2>4 DEF BlocksKept
    <2>6. \A k \in DOMAIN stack'[t] : stack'[t][k].op # "send"
      BY <1>3, <1>4, <2>3, <2>4
    <2>7. UNCHANGED <<pipe, wake, answered, returned>>
      BY <1>3, <2>1
    <2> QED
      BY <1>5, <1>6, <2>2, <2>5, <2>6, <2>7, TokensStill
  <1>8. CASE wake[t] = Top(t).n
    <2>1. stack' = [stack EXCEPT ![t] = Rest(t)] /\ returned' = returned \cup {Top(t).id}
      BY <1>8 DEF Awaiting
    <2>2. stack'[t] = Rest(t) /\ \A v \in Tasks \ {t} : stack'[v] = stack[v]
      BY <2>1 DEF Types
    <2>3. stack'[t] = <<>> /\ DOMAIN stack'[t] = {}
      <3>1. Rest(t) \in Seq(Frame) /\ Len(Rest(t)) = Len(stack[t]) - 1
        BY <1>1, <1>3, RestKeeps
      <3>2. Len(Rest(t)) = 0
        <4>1. Len(stack[t]) = 1
          BY <1>1, <1>2, <1>4
        <4> QED
          BY <3>1, <4>1
      <3> QED
        BY <2>2, <3>1, <3>2
    <2>4. Top(t) = s[1]
      BY <1>1, <1>2, <1>4 DEF Top
    <2>5. s[1].id \in answered
      BY <1>4, <1>8, <2>4
    <2>6. AnswerFirst'
      BY <1>0, <1>3, <2>1, <2>4, <2>5 DEF AnswerFirst
    <2>7. ASSUME NEW e, Awaited(e) PROVE Awaited(e)'
      <3>1. Owner(e) # t /\ Owner(e) \in Tasks
        BY <1>1, <2>5, <2>7, OwnerIs DEF Awaited
      <3> QED
        BY <1>3, <2>2, <2>7, <3>1, AwaitedKept DEF Awaited
    <2>8. ASSUME NEW v \in Tasks, Carries(v)'
          PROVE  v # t /\ Carries(v) /\ Top(v)' = Top(v)
      <3>1. v # t
        BY <2>3, <2>8 DEF Carries, In
      <3>2. stack'[v] = stack[v]
        BY <2>2, <3>1
      <3> QED
        BY <2>8, <3>1, <3>2 DEF Carries, In, Top, Token
    <2>9. Carried'
      <3> SUFFICES ASSUME NEW v \in Tasks, Carries(v)'
                   PROVE  Awaited(Top(v).ev)' /\ (Top(v).ev.xt = "restart" => Top(v).to = Owner(Top(v).ev))'
        BY DEF Carried
      <3>1. PICK e : e = Top(v).ev
        OBVIOUS
      <3>2. Awaited(e) /\ (e.xt = "restart" => Top(v).to = Owner(e))
        BY <1>0, <2>8, <3>1 DEF Carried
      <3>3. Awaited(e)' /\ Top(v)' = Top(v)
        BY <2>7, <2>8, <3>2
      <3> QED
        BY <3>1, <3>2, <3>3 DEF Awaited, Owner
    <2>10. Queued'
      <3> SUFFICES ASSUME NEW v \in Tasks, NEW k \in DOMAIN pipe[v], Token(pipe[v][k])
                   PROVE  Awaited(pipe[v][k])' /\ (pipe[v][k].xt = "restart" => v = Owner(pipe[v][k]))
        BY <1>3 DEF Queued, Token, Owner
      <3>1. PICK e : e = pipe[v][k]
        OBVIOUS
      <3>2. Awaited(e) /\ (e.xt = "restart" => v = Owner(e))
        BY <1>0, <3>1 DEF Queued
      <3>3. Awaited(e)'
        BY <2>7, <3>2
      <3> QED
        BY <1>3, <3>1, <3>2, <3>3 DEF Awaited, Owner
    <2>11. OneToken'
      BY <1>0, <1>3, <2>8 DEF OneToken, Owner, Token
    <2>12. AllPlain'
      <3>1. ASSUME NEW v \in Tasks, NEW k \in DOMAIN stack'[v], stack'[v][k].op = "send"
            PROVE  Plain(stack'[v][k].ev)
        BY <1>0, <2>2, <2>3, <3>1 DEF AllPlain
      <3> QED
        BY <1>0, <1>3, <3>1 DEF AllPlain, Plain
    <2>13. Blocks'
      <3> SUFFICES ASSUME NEW v \in Tasks, NEW k \in DOMAIN stack'[v], stack'[v][k].op = "block"
                   PROVE  /\ k = 1 /\ stack'[v][k].n # 0 /\ stack'[v][k].id[1] = v
                          /\ stack'[v][k].id[3] < ops'[v]
                          /\ wake'[v] = stack'[v][k].n => stack'[v][k].id \in answered'
        BY DEF Blocks
      <3>1. v # t /\ stack'[v] = stack[v]
        BY <2>2, <2>3
      <3> QED
        BY <1>0, <1>3, <3>1 DEF Blocks
    <2>14. Numbered'
      BY <1>0, <1>3 DEF Numbered
    <2> QED
      BY <2>6, <2>9, <2>10, <2>11, <2>12, <2>13, <2>14 DEF Tokens
  <1> QED
    BY <1>7, <1>8

(* send-event has written its event, which may be an answer. *)
LEMMA SendTokens ==
  ASSUME Types, Types', SendOnTop, SendOnTop', Tokens, NEW t \in Tasks, Send(t)
  PROVE  Tokens'
  <1>0. AllPlain /\ Carried /\ Queued /\ OneToken /\ Blocks /\ Numbered /\ AnswerFirst
    BY DEF Tokens
  <1>1. PICK s \in Seq(Frame) : s = stack[t]
    BY DEF Types
  <1>2. PICK l \in Nat \ {0} : l = Len(s)
    BY <1>1 DEF Send, In
  <1>3. PICK f \in Frame : f = s[l]
    BY <1>2
  <1>4. /\ Top(t) = f /\ f.op = "send" /\ stack[t] # <<>> /\ l \in DOMAIN s
        /\ UNCHANGED <<wake, ops, answered, returned>>
    BY <1>1, <1>2, <1>3 DEF Send, In, Top
  <1>5. f.to \in Tasks /\ f.ev \in Event
    BY <1>4 DEF Frame
  <1>6. PICK to \in Tasks, ev \in Event : to = f.to /\ ev = f.ev
    BY <1>5
  <1>7. /\ pipe' = [pipe EXCEPT ![to] = Append(pipe[to], ev)] /\ stack' = [stack EXCEPT ![t] = Rest(t)]
    BY <1>4, <1>6 DEF Send
  <1>8. PICK g \in Seq(Frame) : g = <<>> /\ Len(g) = 0
    <2>1. <<>> \in Seq(Frame) /\ Len(<<>>) = 0
      OBVIOUS
    <2> QED
      BY <2>1, Zenon
  <1>9. stack' = [stack EXCEPT ![t] = Onto(t, g)] /\ ~In(t, "block")
    <2>1. Rest(t) = Onto(t, g)
      BY <1>4, <1>8, RestOnto
    <2> QED
      BY <1>4, <1>7, <2>1 DEF In
  <1>10. BlocksKept
    <2>1. \A i \in 1 .. Len(g) : g[i].op # "block"
      BY <1>8
    <2> QED
      BY <1>9, <2>1, KeptOnto
  <1>11. /\ \A k \in DOMAIN stack'[t] : stack'[t][k].op # "send"
         /\ \A v \in Tasks \ {t} : stack'[v] = stack[v]
    <2>1. /\ \A k \in DOMAIN stack'[t] :
             \/ k \in DOMAIN stack[t] /\ stack'[t][k] = stack[t][k] /\ stack[t][k].op # "send"
             \/ \E i \in 1 .. Len(g) : stack'[t][k] = g[i]
          /\ \A v \in Tasks \ {t} : stack'[v] = stack[v]
      BY <1>9, OntoFrames
    <2> QED
      BY <1>8, <2>1
  <1>12. PICK n \in Nat : n = Len(pipe[to])
    BY DEF Types
  <1>13. /\ DOMAIN pipe[to] = 1 .. n /\ DOMAIN pipe'[to] = 1 .. n + 1 /\ pipe'[to][n + 1] = ev
         /\ \A k \in 1 .. n : pipe'[to][k] = pipe[to][k]
         /\ \A v \in Tasks \ {to} : pipe'[v] = pipe[v]
    <2>1. pipe'[to] = Append(pipe[to], ev) /\ \A v \in Tasks \ {to} : pipe'[v] = pipe[v]
      BY <1>7 DEF Types
    <2>2. PICK q \in Seq(Event) : q = pipe[to]
      BY DEF Types
    <2>3. /\ DOMAIN Append(q, ev) = 1 .. Len(q) + 1 /\ Append(q, ev)[Len(q) + 1] = ev
          /\ \A k \in 1 .. Len(q) : Append(q, ev)[k] = q[k]
      OBVIOUS
    <2> QED
      BY <1>12, <2>1, <2>2, <2>3
  <1>14. ASSUME NEW v \in Tasks, Carries(v)'
         PROVE  v # t /\ Carries(v) /\ Top(v)' = Top(v)
    <2>1. v # t
      <3>1. stack'[t] # <<>> => Len(stack'[t]) \in DOMAIN stack'[t]
        <4>1. stack'[t] \in Seq(Frame)
          BY DEF Types
        <4> QED
          BY <4>1
      <3> QED
        BY <1>11, <1>14, <3>1 DEF Carries, In, Top
    <2>2. stack'[v] = stack[v]
      BY <1>11, <2>1
    <2> QED
      BY <1>14, <2>1, <2>2 DEF Carries, In, Top, Token
  <1>15. Carries(t) <=> Token(ev)
    BY <1>4, <1>6 DEF Carries, In
  <1>16. ASSUME NEW e, Awaited(e) PROVE Awaited(e)'
    BY <1>4, <1>10, <1>16, AwaitedKept, OwnerIs DEF BlocksKept, Awaited
  <1>17. Blocks' /\ Numbered' /\ AnswerFirst'
    <2>1. \A v \in Tasks : ops[v] <= ops'[v]
      BY <1>4 DEF Types
    <2> QED
      BY <1>0, <1>4, <1>10, <2>1, BlocksStill DEF AnswerFirst
  <1>18. Carried'
    <2> SUFFICES ASSUME NEW v \in Tasks, Carries(v)'
                 PROVE  Awaited(Top(v).ev)' /\ (Top(v).ev.xt = "restart" => Top(v).to = Owner(Top(v).ev))'
      BY DEF Carried
    <2>1. PICK e : e = Top(v).ev
      OBVIOUS
    <2>2. Awaited(e) /\ (e.xt = "restart" => Top(v).to = Owner(e))
      BY <1>0, <1>14, <2>1 DEF Carried
    <2>3. Awaited(e)' /\ Top(v)' = Top(v)
      BY <1>14, <1>16, <2>2
    <2> QED
      BY <2>1, <2>2, <2>3 DEF Awaited, Owner
  (* An event of a pipe was there, or is the one that t has written. *)
  <1>19. ASSUME NEW v \in Tasks, NEW k \in DOMAIN pipe'[v]
         PROVE  \/ k \in DOMAIN pipe[v] /\ pipe'[v][k] = pipe[v][k]
                \/ v = to /\ k = n + 1 /\ pipe'[v][k] = ev
    BY <1>13
  <1>20. Queued'
    <2> SUFFICES ASSUME NEW v \in Tasks, NEW k \in DOMAIN pipe'[v], Token(pipe'[v][k])
                 PROVE  Awaited(pipe[v][k])' /\ (pipe'[v][k].xt = "restart" => v = Owner(pipe'[v][k]))
      BY DEF Queued, Token, Owner
    <2>1. PICK e : e = pipe'[v][k]
      OBVIOUS
    <2>2. Awaited(e) /\ (e.xt = "restart" => v = Owner(e))
      <3>1. CASE k \in DOMAIN pipe[v] /\ pipe'[v][k] = pipe[v][k]
        BY <1>0, <2>1, <3>1 DEF Queued
      <3>2. CASE v = to /\ k = n + 1 /\ pipe'[v][k] = ev
        BY <1>0, <1>4, <1>6, <1>15, <2>1, <3>2 DEF Carried
      <3> QED
        BY <1>19, <3>1, <3>2
    <2>3. Awaited(e)'
      BY <1>16, <2>2
    <2> QED
      BY <2>1, <2>2, <2>3 DEF Awaited, Owner
  <1>21. OneToken'
    <2>1. \A v, w \in Tasks :
            Carries(v)' /\ Carries(w)' /\ Owner(Top(v).ev)' = Owner(Top(w).ev)' => v = w
      BY <1>0, <1>14 DEF OneToken, Owner
    <2>2. ASSUME NEW v \in Tasks, NEW w \in Tasks, NEW j \in DOMAIN pipe'[v], NEW k \in DOMAIN pipe'[w],
                 Token(pipe'[v][j]), Token(pipe'[w][k]), Owner(pipe'[v][j]) = Owner(pipe'[w][k])
          PROVE  v = w /\ j = k
      <3>1. CASE j \in DOMAIN pipe[v] /\ pipe'[v][j] = pipe[v][j] /\ k \in DOMAIN pipe[w] /\ pipe'[w][k] = pipe[w][k]
        BY <1>0, <2>2, <3>1 DEF OneToken
      <3>2. CASE /\ v = to /\ j = n + 1 /\ pipe'[v][j] = ev /\ k \in DOMAIN pipe[w] /\ pipe'[w][k] = pipe[w][k]
        BY <1>0, <1>4, <1>6, <1>15, <2>2, <3>2 DEF OneToken
      <3>3. CASE /\ w = to /\ k = n + 1 /\ pipe'[w][k] = ev /\ j \in DOMAIN pipe[v] /\ pipe'[v][j] = pipe[v][j]
        BY <1>0, <1>4, <1>6, <1>15, <2>2, <3>3 DEF OneToken
      <3> QED
        BY <1>19, <3>1, <3>2, <3>3
    <2>3. ASSUME NEW v \in Tasks, NEW w \in Tasks, NEW k \in DOMAIN pipe'[w], Carries(v)', Token(pipe'[w][k])
          PROVE  Owner(Top(v).ev)' # Owner(pipe'[w][k])
      <3>1. v # t /\ Carries(v) /\ Top(v)' = Top(v)
        BY <1>14, <2>3
      <3>2. CASE k \in DOMAIN pipe[w] /\ pipe'[w][k] = pipe[w][k]
        BY <1>0, <2>3, <3>1, <3>2 DEF OneToken, Owner
      <3>3. CASE w = to /\ k = n + 1 /\ pipe'[w][k] = ev
        BY <1>0, <1>4, <1>6, <1>15, <2>3, <3>1, <3>3 DEF OneToken, Owner
      <3> QED
        BY <1>19, <3>2, <3>3
    <2> QED
      BY <2>1, <2>2, <2>3 DEF OneToken, Token, Owner
  <1>22. AllPlain'
    <2>1. ASSUME NEW v \in Tasks, NEW k \in DOMAIN stack'[v], stack'[v][k].op = "send"
          PROVE  Plain(stack'[v][k].ev)
      BY <1>0, <1>11, <2>1 DEF AllPlain
    <2>2. ASSUME NEW v \in Tasks, NEW k \in DOMAIN pipe'[v] PROVE Plain(pipe'[v][k])
      <3>1. Plain(ev)
        BY <1>0, <1>1, <1>3, <1>4, <1>6 DEF AllPlain
      <3> QED
        BY <1>0, <1>19, <3>1 DEF AllPlain
    <2> QED
      BY <2>1, <2>2 DEF AllPlain, Plain
  <1> QED
    BY <1>17, <1>18, <1>20, <1>21, <1>22 DEF Tokens


LEMMA CalledFrames ==
  ASSUME NEW t \in Tasks, NEW ev \in Event, Plain(ev)
  PROVE  /\ Called(t, ev) \in Seq(Frame)
         /\ \A i \in 1 .. Len(Called(t, ev)) :
              /\ Called(t, ev)[i].op # "block"
              /\ Called(t, ev)[i].op = "send" =>
                   ev.xt = "answer" /\ Called(t, ev)[i] = SendFrame(Restart(ev.n, ev.id), ev.to)
  <1>0. EventsFrame.op = "?events" /\ StopFrame.op = "stop"
    BY DEF EventsFrame, StopFrame
  <1>1. CASE ev.xt = "answer"
    <2>1. PICK s : s = SendFrame(Restart(ev.n, ev.id), ev.to)
      OBVIOUS
    <2>2. ev.n \in Nat /\ ev.id \in Requests /\ ev.to \in Tasks
      BY <1>1 DEF Event
    <2>3. s \in Frame /\ s.op = "send"
      BY <2>1, <2>2, EventTypes, FrameTypes DEF SendFrame
    <2>4. Called(t, ev) = <<EventsFrame, s>>
      BY <1>1, <2>1 DEF Called
    <2>5. /\ <<EventsFrame, s>> \in Seq(Frame) /\ Len(<<EventsFrame, s>>) = 2
          /\ \A i \in 1 .. 2 : /\ <<EventsFrame, s>>[i].op # "block"
                               /\ <<EventsFrame, s>>[i].op = "send" => <<EventsFrame, s>>[i] = s
      BY <1>0, <2>3, FrameTypes
    <2> QED
      BY <1>1, <2>1, <2>4, <2>5
  <1>2. CASE ev.xt = "stop"
    <2>1. Called(t, ev) = <<EventsFrame, StopFrame>>
      BY <1>2 DEF Called
    <2>2. /\ <<EventsFrame, StopFrame>> \in Seq(Frame) /\ Len(<<EventsFrame, StopFrame>>) = 2
          /\ \A i \in 1 .. 2 : <<EventsFrame, StopFrame>>[i].op \notin {"block", "send"}
      BY <1>0, FrameTypes
    <2> QED
      BY <2>1, <2>2
  <1>3. CASE ev.xt \notin {"answer", "stop"}
    <2>1. Called(t, ev) = <<EventsFrame>>
      BY <1>3 DEF Called, Plain
    <2>2. /\ <<EventsFrame>> \in Seq(Frame) /\ Len(<<EventsFrame>>) = 1
          /\ \A i \in 1 .. 1 : <<EventsFrame>>[i].op \notin {"block", "send"}
      BY <1>0, FrameTypes
    <2> QED
      BY <2>1, <2>2
  <1> QED
    BY <1>1, <1>2, <1>3

(* t reads an event and executes it: a request turns into its answer, and  *)
(* an answer sets wake#.                                                   *)
LEMMA ReadTokens ==
  ASSUME Types, Types', SendOnTop, SendOnTop', Tokens, NEW t \in Tasks, Read(t)
  PROVE  Tokens'
  <1>0. AllPlain /\ Carried /\ Queued /\ OneToken /\ Blocks /\ Numbered /\ AnswerFirst
    BY DEF Tokens
  <1>1. PICK ev \in Event : ev = pipe[t][1]
    BY ReadMoves
  <1>2. /\ ~In(t, "send") /\ pipe[t] # <<>> /\ stack' = [stack EXCEPT ![t] = Rest(t) \o Called(t, ev)]
        /\ pipe' = [pipe EXCEPT ![t] = Tail(pipe[t])] /\ UNCHANGED <<ops, sent, returned>>
        /\ wake' = IF ev.xt = "restart" THEN [wake EXCEPT ![t] = ev.n] ELSE wake
        /\ answered' = answered \cup (IF ev.xt = "restart" THEN {ev.id} ELSE {})
    BY <1>1, ReadMoves
  <1>3. stack[t] # <<>> /\ ~In(t, "block")
    BY DEF Read, In
  <1>4. PICK n \in Nat \ {0} : n = Len(pipe[t])
    BY <1>2 DEF Types
  <1>5. /\ DOMAIN pipe[t] = 1 .. n /\ DOMAIN pipe'[t] = 1 .. n - 1
        /\ \A k \in 1 .. n - 1 : pipe'[t][k] = pipe[t][k + 1]
        /\ \A v \in Tasks \ {t} : pipe'[v] = pipe[v]
    <2>1. PICK q \in Seq(Event) : q = pipe[t]
      BY DEF Types
    <2>2. pipe'[t] = Tail(q) /\ \A v \in Tasks \ {t} : pipe'[v] = pipe[v]
      BY <1>2, <2>1 DEF Types
    <2>3. q # <<>> /\ Len(q) = n
      BY <1>2, <1>4, <2>1
    <2>4. DOMAIN q = 1 .. n /\ DOMAIN Tail(q) = 1 .. n - 1 /\ \A k \in 1 .. n - 1 : Tail(q)[k] = q[k + 1]
      BY <2>3
    <2> QED
      BY <2>1, <2>2, <2>4
  <1>6. 1 \in DOMAIN pipe[t] /\ Plain(ev)
    BY <1>0, <1>1, <1>4, <1>5 DEF AllPlain
  <1>7. PICK f \in Seq(Frame) : f = Called(t, ev)
    BY <1>6, CalledFrames
  <1>8. \A i \in 1 .. Len(f) :
          /\ f[i].op # "block"
          /\ f[i].op = "send" => ev.xt = "answer" /\ f[i] = SendFrame(Restart(ev.n, ev.id), ev.to)
    BY <1>6, <1>7, CalledFrames
  <1>9. stack' = [stack EXCEPT ![t] = Onto(t, f)]
    BY <1>2, <1>3, <1>7 DEF Onto
  <1>10. BlocksKept
    BY <1>3, <1>8, <1>9, KeptOnto
  <1>11. /\ \A k \in DOMAIN stack'[t] : stack'[t][k].op = "send" =>
              ev.xt = "answer" /\ stack'[t][k] = SendFrame(Restart(ev.n, ev.id), ev.to)
         /\ \A v \in Tasks \ {t} : stack'[v] = stack[v]
    <2>1. /\ \A k \in DOMAIN stack'[t] :
             \/ k \in DOMAIN stack[t] /\ stack'[t][k] = stack[t][k] /\ stack[t][k].op # "send"
             \/ \E i \in 1 .. Len(f) : stack'[t][k] = f[i]
          /\ \A v \in Tasks \ {t} : stack'[v] = stack[v]
      BY <1>9, OntoFrames
    <2> QED
      BY <1>8, <2>1
  <1>12. PICK re : re = Restart(ev.n, ev.id)
    OBVIOUS
  <1>13. re.xt = "restart" /\ re.n = ev.n /\ re.id = ev.id /\ Owner(re) = Owner(ev)
    BY <1>12 DEF Restart, Owner
  (* What tasks carry after the step. *)
  <1>14. ASSUME NEW v \in Tasks, Carries(v)'
         PROVE  \/ v = t /\ ev.xt = "answer" /\ Token(ev) /\ Top(v)'.ev = re /\ Top(v)'.to = ev.to
                \/ v # t /\ Carries(v) /\ Top(v)' = Top(v)
    <2>1. CASE v = t
      <3>1. stack'[t] # <<>> => Len(stack'[t]) \in DOMAIN stack'[t]
        <4>1. stack'[t] \in Seq(Frame)
          BY DEF Types
        <4> QED
          BY <4>1
      <3>2. ev.xt = "answer" /\ Top(t)' = SendFrame(re, ev.to)
        BY <1>11, <1>12, <1>14, <2>1, <3>1 DEF Carries, In, Top
      <3>3. Token(ev)
        BY <1>6, <3>2 DEF Token, Plain
      <3> QED
        BY <2>1, <3>2, <3>3 DEF SendFrame
    <2>2. CASE v # t
      <3>1. stack'[v] = stack[v]
        BY <1>11, <2>2
      <3> QED
        BY <1>14, <2>2, <3>1 DEF Carries, In, Top, Token
    <2> QED
      BY <2>1, <2>2
  (* Where the events of the pipes have been. *)
  <1>15. ASSUME NEW v \in Tasks, NEW k \in DOMAIN pipe'[v]
         PROVE  \E j \in DOMAIN pipe[v] : /\ pipe'[v][k] = pipe[v][j] /\ j = IF v = t THEN k + 1 ELSE k
                                          /\ v = t => j # 1 /\ k \in Nat
    <2>1. CASE v = t
      <3>1. k \in 1 .. n - 1
        BY <1>5, <2>1
      <3>2. k + 1 \in 1 .. n /\ k + 1 # 1 /\ k \in Nat
        BY <1>4, <3>1
      <3> QED
        BY <1>5, <2>1, <3>1, <3>2
    <2>2. CASE v # t
      BY <1>5, <2>2
    <2> QED
      BY <2>1, <2>2
  <1>16. Token(ev) => Awaited(ev) /\ (ev.xt = "restart" => Owner(ev) = t)
    BY <1>0, <1>1, <1>6 DEF Queued
  (* The answers that are still on their way are not the one executed. *)
  <1>17. ASSUME NEW e, Awaited(e), ev.xt = "restart" /\ Token(ev) => Owner(e) # t
         PROVE  Awaited(e)'
    <2>1. e.id \notin answered'
      <3>1. CASE ev.xt # "restart"
        BY <1>2, <1>17, <3>1 DEF Awaited
      <3>2. CASE ev.xt = "restart" /\ Token(ev)
        <4>1. e.id # ev.id
          BY <1>16, <1>17, <3>2 DEF Owner
        <4> QED
          BY <1>2, <1>17, <3>2, <4>1 DEF Awaited
      <3>3. CASE ev.xt = "restart" /\ ~Token(ev)
        <4>1. PICK x \in Tasks : ev.id = <<x>>
          BY <1>6, <3>3 DEF Plain, Token, NoRequest
        <4>2. e.id # <<x>>
          <5>1. PICK a \in Tasks, b \in Tasks, c \in Nat : e.id = <<a, b, c>>
            BY <1>17, OwnerIs
          <5>2. <<x>> # <<a, b, c>>
            OBVIOUS
          <5> QED
            BY <5>1, <5>2
        <4> QED
          BY <1>2, <1>17, <3>3, <4>1, <4>2 DEF Awaited
      <3> QED
        BY <3>1, <3>2, <3>3
    <2> QED
      BY <1>10, <1>17, <2>1, AwaitedKept, OwnerIs DEF BlocksKept
  <1>18. Carried'
    <2> SUFFICES ASSUME NEW v \in Tasks, Carries(v)'
                 PROVE  Awaited(Top(v).ev)' /\ (Top(v).ev.xt = "restart" => Top(v).to = Owner(Top(v).ev))'
      BY DEF Carried
    <2>1. CASE v = t /\ ev.xt = "answer" /\ Token(ev) /\ Top(v)'.ev = re /\ Top(v)'.to = ev.to
      <3>1. Awaited(ev)' /\ ev.to = Owner(ev)
        BY <1>16, <1>17, <2>1 DEF Awaited
      <3>2. Awaited(re)'
        BY <1>13, <3>1 DEF Awaited
      <3> QED
        BY <1>13, <2>1, <3>1, <3>2 DEF Awaited, Owner
    <2>2. CASE v # t /\ Carries(v) /\ Top(v)' = Top(v)
      <3>1. PICK e : e = Top(v).ev
        OBVIOUS
      <3>2. Awaited(e) /\ (e.xt = "restart" => Top(v).to = Owner(e))
        BY <1>0, <2>2, <3>1 DEF Carried
      <3>3. Token(ev) => Owner(e) # Owner(ev)
        BY <1>0, <1>1, <1>6, <2>2, <3>1 DEF OneToken
      <3>4. Awaited(e)'
        BY <1>16, <1>17, <3>2, <3>3
      <3> QED
        BY <2>2, <3>1, <3>2, <3>4 DEF Awaited, Owner
    <2> QED
      BY <1>14, <2>1, <2>2
  <1>19. Queued'
    <2> SUFFICES ASSUME NEW v \in Tasks, NEW k \in DOMAIN pipe'[v], Token(pipe'[v][k])
                 PROVE  Awaited(pipe[v][k])' /\ (pipe'[v][k].xt = "restart" => v = Owner(pipe'[v][k]))
      BY DEF Queued, Token, Owner
    <2>1. PICK e : e = pipe'[v][k]
      OBVIOUS
    <2>2. PICK j \in DOMAIN pipe[v] : e = pipe[v][j] /\ (v = t => j # 1)
      BY <1>15, <2>1
    <2>3. Awaited(e) /\ (e.xt = "restart" => v = Owner(e))
      BY <1>0, <2>1, <2>2 DEF Queued
    <2>4. Token(ev) => Owner(e) # Owner(ev)
      BY <1>0, <1>1, <1>6, <2>1, <2>2 DEF OneToken
    <2>5. Awaited(e)'
      BY <1>16, <1>17, <2>3, <2>4
    <2> QED
      BY <2>1, <2>3, <2>5 DEF Awaited, Owner
  <1>20. OneToken'
    <2>1. ASSUME NEW v \in Tasks, NEW w \in Tasks, Carries(v)', Carries(w)',
                 Owner(Top(v).ev)' = Owner(Top(w).ev)'
          PROVE  v = w
      <3>1. CASE v # t /\ w # t
        BY <1>0, <1>14, <2>1, <3>1 DEF OneToken, Owner
      <3>2. CASE v = t /\ w # t
        BY <1>0, <1>1, <1>6, <1>13, <1>14, <2>1, <3>2 DEF OneToken, Owner
      <3>3. CASE v # t /\ w = t
        BY <1>0, <1>1, <1>6, <1>13, <1>14, <2>1, <3>3 DEF OneToken, Owner
      <3> QED
        BY <3>1, <3>2, <3>3
    <2>2. ASSUME NEW v \in Tasks, NEW w \in Tasks, NEW j \in DOMAIN pipe'[v], NEW k \in DOMAIN pipe'[w],
                 Token(pipe'[v][j]), Token(pipe'[w][k]), Owner(pipe'[v][j]) = Owner(pipe'[w][k])
          PROVE  v = w /\ j = k
      <3>1. PICK x \in DOMAIN pipe[v] : /\ pipe'[v][j] = pipe[v][x] /\ x = IF v = t THEN j + 1 ELSE j
                                        /\ v = t => x # 1 /\ j \in Nat
        BY <1>15
      <3>2. PICK y \in DOMAIN pipe[w] : /\ pipe'[w][k] = pipe[w][y] /\ y = IF w = t THEN k + 1 ELSE k
                                        /\ w = t => y # 1 /\ k \in Nat
        BY <1>15
      <3>3. v = w /\ x = y
        BY <1>0, <2>2, <3>1, <3>2 DEF OneToken
      <3> QED
        BY <3>1, <3>2, <3>3
    <2>3. ASSUME NEW v \in Tasks, NEW w \in Tasks, NEW k \in DOMAIN pipe'[w], Carries(v)', Token(pipe'[w][k])
          PROVE  Owner(Top(v).ev)' # Owner(pipe'[w][k])
      <3>1. PICK y \in DOMAIN pipe[w] : pipe'[w][k] = pipe[w][y] /\ (w = t => y # 1)
        BY <1>15
      <3>2. CASE v = t
        BY <1>0, <1>1, <1>6, <1>13, <1>14, <2>3, <3>1, <3>2 DEF OneToken, Owner
      <3>3. CASE v # t
        BY <1>0, <1>14, <2>3, <3>1, <3>3 DEF OneToken, Owner
      <3> QED
        BY <3>2, <3>3
    <2> QED
      BY <2>1, <2>2, <2>3 DEF OneToken, Token, Owner
  <1>21. AllPlain'
    <2>1. ASSUME NEW v \in Tasks, NEW k \in DOMAIN stack'[v], stack'[v][k].op = "send"
          PROVE  Plain(stack'[v][k].ev)
      <3>1. CASE v = t
        <4>1. ev.xt = "answer" /\ stack'[t][k].ev = re
          BY <1>11, <1>12, <2>1, <3>1 DEF SendFrame
        <4> QED
          BY <1>6, <1>13, <3>1, <4>1 DEF Plain
      <3>2. CASE v # t
        BY <1>0, <1>11, <2>1, <3>2 DEF AllPlain
      <3> QED
        BY <3>1, <3>2
    <2>2. ASSUME NEW v \in Tasks, NEW k \in DOMAIN pipe'[v] PROVE Plain(pipe'[v][k])
      <3>1. PICK y \in DOMAIN pipe[v] : pipe'[v][k] = pipe[v][y]
        BY <1>15
      <3> QED
        BY <1>0, <3>1 DEF AllPlain
    <2> QED
      BY <2>1, <2>2 DEF AllPlain, Plain
  <1>22. ASSUME NEW v \in Tasks, NEW k \in DOMAIN stack'[v], stack'[v][k].op = "block"
         PROVE  /\ k = 1 /\ stack'[v][k].n # 0 /\ stack'[v][k].id[1] = v
                /\ stack'[v][k].id[3] < ops'[v]
                /\ wake'[v] = stack'[v][k].n => stack'[v][k].id \in answered'
    <2>1. k \in DOMAIN stack[v] /\ stack'[v][k] = stack[v][k]
      BY <1>10, <1>22 DEF BlocksKept
    <2>2. /\ k = 1 /\ stack[v][k].n # 0 /\ stack[v][k].id[1] = v /\ stack[v][k].id[3] < ops[v]
          /\ wake[v] = stack[v][k].n => stack[v][k].id \in answered
      BY <1>0, <1>22, <2>1 DEF Blocks
    <2>3. wake'[v] = stack[v][k].n => stack[v][k].id \in answered'
      <3>1. CASE v # t \/ ev.xt # "restart"
        <4>1. wake'[v] = wake[v]
          BY <1>2, <3>1 DEF Types
        <4> QED
          BY <1>2, <2>2, <4>1
      <3>2. CASE v = t /\ ev.xt = "restart"
        <4>1. wake'[t] = ev.n /\ ev.id \in answered'
          BY <1>2, <3>2 DEF Types
        <4>2. CASE Token(ev)
          <5>1. stack[t][1].id = ev.id
            BY <1>16, <3>2, <4>2, OwnerIs
          <5> QED
            BY <2>2, <3>2, <4>1, <5>1
        <4>3. CASE ~Token(ev)
          BY <2>2, <3>2, <4>1, <4>3 DEF Token
        <4> QED
          BY <4>2, <4>3
      <3> QED
        BY <3>1, <3>2
    <2> QED
      BY <1>2, <2>1, <2>2, <2>3
  <1>23. Blocks'
    BY <1>22 DEF Blocks
  <1>24. Numbered'
    <2> SUFFICES ASSUME NEW v \in Tasks, NEW w \in Tasks, NEW x \in Nat, <<v, w, x>> \in answered'
                 PROVE  x < ops[v]
      BY <1>2 DEF Numbered
    <2>1. CASE <<v, w, x>> \in answered
      BY <1>0, <2>1 DEF Numbered
    <2>2. CASE ev.xt = "restart" /\ ev.id = <<v, w, x>>
      <3>1. CASE Token(ev)
        <4>1. /\ stack[t] # <<>> /\ stack[t][1].op = "block" /\ stack[t][1].id = <<v, w, x>> /\ v = t
          BY <1>16, <2>2, <3>1, OwnerIs DEF Owner
        <4>2. 1 \in DOMAIN stack[t]
          <5>1. stack[t] \in Seq(Frame)
            BY DEF Types
          <5> QED
            BY <4>1, <5>1
        <4>3. stack[t][1].id[3] < ops[t]
          BY <1>0, <4>1, <4>2 DEF Blocks
        <4> QED
          BY <4>1, <4>3
      <3>2. CASE ~Token(ev)
        <4>1. PICK y \in Tasks : ev.id = <<y>>
          BY <1>6, <2>2, <3>2 DEF Plain, Token, NoRequest
        <4>2. <<y>> # <<v, w, x>>
          OBVIOUS
        <4> QED
          BY <2>2, <4>1, <4>2
      <3> QED
        BY <3>1, <3>2
    <2> QED
      BY <1>2, <2>1, <2>2
  <1>25. AnswerFirst'
    BY <1>0, <1>2 DEF AnswerFirst
  <1> QED
    BY <1>18, <1>19, <1>20, <1>21, <1>23, <1>24, <1>25 DEF Tokens


-----------------------------------------------------------------------------
(* The theorems about event-block. *)

LEMMA AnswerStep ==
  ASSUME OrderInv, Tokens, [Next]_vars
  PROVE  Tokens'
  <1>0. Types /\ SendOnTop /\ OrderInv'
    <2>1. [NestedNext]_vars
      BY DEF NestedNext
    <2>2. OrderInv'
      BY <2>1, OrderStep
    <2> QED
      BY <2>2 DEF OrderInv
  <1>1. Types' /\ SendOnTop'
    BY <1>0 DEF OrderInv
  <1>2. CASE UNCHANGED vars
    <2>1. AllPlain' /\ Blocks' /\ Numbered' /\ AnswerFirst'
      BY <1>2 DEF vars, Tokens, AllPlain, Plain, Blocks, Numbered, AnswerFirst
    <2>2. Carried' /\ Queued' /\ OneToken'
      BY <1>2, SMTT(20) DEF vars, Tokens, Carried, Queued, OneToken, Carries, Awaited, Token, Owner, In, Top
    <2> QED
      BY <2>1, <2>2 DEF Tokens
  <1>3. ASSUME NEW t \in Tasks, NEW u \in Tasks,
               SendUser(t, u) \/ RestartTask(t, u) \/ HaltTask(t, u) \/ Request(t, u)
        PROVE  Tokens'
    <2>1. CASE SendUser(t, u) \/ RestartTask(t, u) \/ HaltTask(t, u)
      BY <1>0, <1>1, <2>1, QuietTokens
    <2>2. CASE Request(t, u) /\ u = t
      BY <1>0, <1>1, <2>2, QuietTokens
    <2>3. CASE Request(t, u) /\ u # t
      BY <1>0, <1>1, <2>3, RequestTokens
    <2> QED
      BY <1>3, <2>1, <2>2, <2>3
  <1>4. ASSUME NEW t \in Tasks, Serve(t) \/ NoMoreEvents(t) \/ Timed(t)
        PROVE  Tokens'
    BY <1>0, <1>1, <1>4, QuietTokens
  <1>5. ASSUME NEW t \in Tasks, Send(t)
        PROVE  Tokens'
    BY <1>0, <1>1, <1>5, SendTokens
  <1>6. ASSUME NEW t \in Tasks, Read(t)
        PROVE  Tokens'
    BY <1>0, <1>1, <1>6, ReadTokens
  <1>7. ASSUME NEW t \in Tasks, Awaiting(t)
        PROVE  Tokens'
    BY <1>0, <1>1, <1>7, AwaitingTokens
  <1> QED
    BY <1>2, <1>3, <1>4, <1>5, <1>6, <1>7 DEF Next, Step

(* The inductive invariant of event-block: a task that waits has one       *)
(* request or answer on its way, which knows its number, or has got it.    *)
THEOREM AnswerInvariant == Spec => []AnswerInv
  <1>1. Init => OrderInv /\ Tokens
    <2> SUFFICES ASSUME Init PROVE Tokens
      BY OrderStart
    <2>1. AllPlain /\ Blocks /\ Numbered /\ AnswerFirst
      BY DEF Init, AllPlain, Blocks, Numbered, AnswerFirst
    <2>2. Carried /\ Queued /\ OneToken
      BY DEF Init, Carried, Queued, OneToken, Carries, In
    <2> QED
      BY <2>1, <2>2 DEF Tokens
  <1>2. OrderInv /\ Tokens /\ [Next]_vars => Tokens'
    BY AnswerStep
  <1>3. [Next]_vars => [NestedNext]_vars
    BY DEF NestedNext
  <1>4. OrderInv /\ [NestedNext]_vars => OrderInv'
    BY OrderStep
  <1>5. OrderInv /\ Tokens => AnswerInv
    BY DEF OrderInv, AnswerInv
  <1> QED
    BY <1>1, <1>2, <1>3, <1>4, <1>5, PTL DEF Spec

(* event-block returns only after the receiver has executed the request    *)
(* and its answer has come back, whatever restarts and halts arrive, and   *)
(* whoever else asks whom.                                                 *)
THEOREM AnswersComeFirst == Spec => []AnswerFirst
  <1>1. AnswerInv => AnswerFirst
    BY DEF AnswerInv, Tokens
  <1> QED
    BY <1>1, AnswerInvariant, PTL


=============================================================================
