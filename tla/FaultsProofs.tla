---------------------------- MODULE FaultsProofs ----------------------------
(***************************************************************************)
(* Proofs about Faults, for every page size, every size of the stacks and  *)
(* any number of tasks.                                                    *)
(*                                                                         *)
(* What gforth_stacks has laid out for a task is described by the pages of *)
(* its guards: p + 1 behind the user area p, then a, b, c and e behind the *)
(* data, return, FP and locals stack.                                      *)
(***************************************************************************)
EXTENDS Faults, TLAPS

-----------------------------------------------------------------------------
(* Arithmetic of pages. *)

LEMMA DivBounds ==
  ASSUME NEW P \in Nat \ {0}, NEW x \in Int
  PROVE  x \div P \in Int /\ (x \div P) * P <= x /\ x < (x \div P) * P + P
  OBVIOUS

LEMMA LessTimes ==
  ASSUME NEW P \in Nat \ {0}, NEW i \in Int, NEW j \in Int, i * P < j * P + P
  PROVE  i <= j
  OBVIOUS

(* The page of an address. *)
LEMMA PageIs ==
  ASSUME NEW x \in Int, NEW i \in Int, i * PageSize <= x, x < i * PageSize + PageSize
  PROVE  Page(x) = i
  <1> DEFINE P == PageSize
             q == x \div P
  <1>1. P \in Nat \ {0}
    BY FaultsAssumption
  <1>2. q \in Int /\ q * P <= x /\ x < q * P + P
    BY <1>1, DivBounds
  <1> HIDE DEF q, P
  <1>3. q * P \in Int /\ i * P \in Int
    BY <1>1, <1>2
  <1>4. q * P < i * P + P /\ i * P < q * P + P
    BY <1>1, <1>2, <1>3 DEF P
  <1>5. q <= i /\ i <= q
    BY <1>1, <1>2, <1>4, LessTimes
  <1>6. q = i
    BY <1>2, <1>5
  <1> QED
    BY <1>6 DEF Page, q, P

(* The address of a page lies between the ends of a range of pages. *)
LEMMA PageBetween ==
  ASSUME NEW x \in Int, NEW i \in Int, NEW j \in Int, i * PageSize <= x, x < j * PageSize
  PROVE  Page(x) \in i .. j - 1
  <1> DEFINE P == PageSize
             q == x \div P
  <1>1. P \in Nat \ {0}
    BY FaultsAssumption
  <1>2. q \in Int /\ q * P <= x /\ x < q * P + P
    BY <1>1, DivBounds
  <1> HIDE DEF q, P
  <1>3. q * P \in Int /\ i * P \in Int /\ j * P \in Int /\ (j - 1) * P = j * P - P
    BY <1>1, <1>2
  <1>4. q * P < (j - 1) * P + P /\ i * P < q * P + P
    BY <1>1, <1>2, <1>3 DEF P
  <1>5. q <= j - 1 /\ i <= q
    BY <1>1, <1>2, <1>4, LessTimes
  <1> QED
    BY <1>2, <1>5 DEF Page, q, P

(* wholepage and NEXTPAGE both round up to a page. *)
LEMMA RoundUp ==
  ASSUME NEW x \in Int, NEW i \in Int, x <= i * PageSize, i * PageSize < x + PageSize
  PROVE  wholepage(x) = i * PageSize /\ NEXTPAGE(x) = i * PageSize
  <1>1. PageSize \in Nat \ {0} /\ i * PageSize \in Int /\ (i - 1) * PageSize = i * PageSize - PageSize
    BY FaultsAssumption
  <1>2. Page(x + PageSize - 1) = i
    BY <1>1, PageIs
  <1>3. Page(x - 1) = i - 1
    BY <1>1, PageIs
  <1> QED
    BY <1>1, <1>2, <1>3 DEF Page, wholepage, NEXTPAGE

LEMMA Rounding ==
  ASSUME NEW x \in Int
  PROVE  \E i \in Int : /\ x <= i * PageSize /\ i * PageSize < x + PageSize
                        /\ wholepage(x) = i * PageSize /\ NEXTPAGE(x) = i * PageSize
  <1> DEFINE i == (x + PageSize - 1) \div PageSize
  <1>1. PageSize \in Nat \ {0}
    BY FaultsAssumption
  <1>2. x + PageSize - 1 \in Int
    BY <1>1
  <1>3. i \in Int /\ i * PageSize <= x + PageSize - 1 /\ x + PageSize - 1 < i * PageSize + PageSize
    BY <1>1, <1>2, DivBounds
  <1> HIDE DEF i
  <1>4. i * PageSize \in Int
    BY <1>1, <1>3
  <1>5. x <= i * PageSize /\ i * PageSize < x + PageSize
    BY <1>1, <1>3, <1>4
  <1> QED
    BY <1>3, <1>5, RoundUp

(* The pages of m whole pages from page i. *)
LEMMA PagesOf ==
  ASSUME NEW i \in Int, NEW m \in Nat \ {0}
  PROVE  Pages(i * PageSize, m * PageSize) = i .. i + m - 1
  <1> DEFINE P == PageSize
  <1>1. P \in Nat \ {0}
    BY FaultsAssumption
  <1> HIDE DEF P
  <1>2. /\ i * P \in Int /\ m * P \in Int
        /\ (i + m - 1) * P = i * P + m * P - P
    BY <1>1
  <1>3. Page(i * P) = i
    BY <1>1, <1>2, PageIs DEF P
  <1>4. i * P + m * P - 1 \in Int /\ i + m - 1 \in Int
    BY <1>2
  <1>5. Page(i * P + m * P - 1) = i + m - 1
    BY <1>1, <1>2, <1>4, PageIs DEF P
  <1> QED
    BY <1>3, <1>5 DEF Page, Pages, P

-----------------------------------------------------------------------------
(* The inductive invariant. *)

SigPages == SIGSTKSZ \div PageSize

LEMMA SigPagesOf == SigPages \in Nat \ {0} /\ SIGSTKSZ = SigPages * PageSize
  <1>1. PICK n \in 1 .. MemPages : SIGSTKSZ = n * PageSize
    BY FaultsAssumption
  <1>2. n \in Int /\ n * PageSize \in Int /\ PageSize \in Nat \ {0} /\ n # 0 /\ n \in Nat
    BY <1>1, FaultsAssumption
  <1>3. Page(SIGSTKSZ) = n
    BY <1>1, <1>2, PageIs
  <1> QED
    BY <1>1, <1>2, <1>3 DEF Page, SigPages

Made ==
  [state : {"made", "lost"}, up : Int, total : Int, asked : [sp : Nat, rp : Nat, fp : Nat, lp : Nat],
   sp0 : Int, rp0 : Int, fp0 : Int, lp0 : Int, guards : SUBSET Int]
Running == [state : {"run"}, sp : Int, rp : Int, fp : Int, lp : Int]
Caught ==
  [state : {"caught"}, code : Int, stack : Stacks \cup {"dictionary"}, dir : Direction, pushed : Int]

Types ==
  /\ engine \in Engines
  /\ mem \in [0 .. MemPages - 1 -> {"free", "rw", "none"}]
  /\ task \in [Tasks -> {None} \cup Made]
  /\ ptr \in [Tasks -> {None} \cup Running]
  /\ sigstack \in [Tasks -> {None} \cup [state : {"set"}, base : Int, size : Int]]
  /\ caught \in [Tasks -> {None} \cup Caught]
  /\ dictguard = 2 * PageSize

(* A task that runs has its memory, and only such a task has a signal      *)
(* stack or has caught a fault.                                            *)
Living ==
  \A t \in Tasks :
    /\ ptr[t].state = "run" => task[t].state = "made"
    /\ sigstack[t].state = "set" <=> ptr[t].state = "run"
    /\ caught[t].state = "caught" => ptr[t].state = "run"

(* k is laid out with the user area in page p and guards in p + 1, a, b,   *)
(* c and e, or without guards.                                             *)
LaidOut(k, p, a, b, c, e) ==
  /\ p + 2 <= a /\ a + 1 <= b /\ b + 1 <= c /\ c + 1 <= e
  /\ k.up = p * PageSize
  /\ k.total = (e + 1 - p) * PageSize + 2 * SIGSTKSZ
  /\ k.guards \in {{}, {(p + 1) * PageSize, a * PageSize, b * PageSize, c * PageSize, e * PageSize}}
  /\ k.rp0 <= b * PageSize
  /\ k.lp0 <= e * PageSize /\ e * PageSize < k.lp0 + PageSize
  /\ engine = "debugging" => k.sp0 = a * PageSize

(* The pages of k, of which those of the guards are not accessible.        *)
Held(k, p, a, b, c, e) ==
  \A q \in p .. e + 2 * SigPages :
    /\ q \in 0 .. MemPages - 1 /\ q # 1 /\ q # 2
    /\ mem[q] = IF k.guards # {} /\ q \in {p + 1, a, b, c, e} THEN "none" ELSE "rw"

(* The last page of a stack holds all that the engine keeps away.          *)
Holds(n, kept) == kept < n /\ wholepage(n - kept) = wholepage(n)

(* The sizes asked for leave room on the last pages of the stacks for the  *)
(* items the fast engine keeps away, and for the return address.  The      *)
(* debugging engine rounds up.                                             *)
Roomy ==
  \A z \in Sizes :
    /\ z[1] > 0 /\ z[3] > 0
    /\ "fast" \in Engines =>
         Holds(z[1], StackCache) /\ Holds(z[2], 1) /\ Holds(z[3], 1)

(* The bottoms of the stacks are on their last pages.                      *)
LastPages(k, p, a, b, c, e) ==
  /\ (p + 2) * PageSize <= k.sp0 - 1 /\ k.sp0 <= a * PageSize /\ a * PageSize < k.sp0 + PageSize
  /\ (a + 1) * PageSize <= k.rp0 /\ b * PageSize < k.rp0 + PageSize
  /\ (b + 1) * PageSize <= k.fp0 /\ k.fp0 <= c * PageSize /\ c * PageSize < k.fp0 + PageSize
  /\ (c + 1) * PageSize <= k.lp0

(* The stack pointers stay on the pages of their stacks.                   *)
Inside(s, p, a, b, c, e) ==
  /\ (p + 2) * PageSize <= s.sp /\ s.sp <= a * PageSize
  /\ (a + 1) * PageSize <= s.rp /\ s.rp <= b * PageSize
  /\ (b + 1) * PageSize <= s.fp /\ s.fp <= c * PageSize
  /\ (c + 1) * PageSize <= s.lp /\ s.lp <= e * PageSize

Shape(t, p, a, b, c, e) ==
  /\ LaidOut(task[t], p, a, b, c, e) /\ Held(task[t], p, a, b, c, e)
  /\ Roomy /\ task[t].guards # {} =>
       /\ ptr[t].state = "none" /\ task[t].state = "made" =>
            LastPages([task[t] EXCEPT !.rp0 = @ - 1], p, a, b, c, e)
       /\ ptr[t].state = "run" =>
            LastPages(task[t], p, a, b, c, e) /\ Inside(ptr[t], p, a, b, c, e)

Shaped ==
  \A t \in Tasks : task[t].state # "none" =>
    \E p, a, b, c, e \in Nat : Shape(t, p, a, b, c, e)

Signals ==
  \A t \in Tasks : sigstack[t].state = "set" => sigstack[t] = gforth_set_sigaltstack(task[t])

Pushed ==
  \A t \in Tasks : caught[t].state = "caught" /\ caught[t].pushed # 0 =>
    /\ engine = "debugging"
    /\ caught[t].pushed >= NEXTPAGE2(task[t].sp0)
    /\ caught[t].pushed < NEXTPAGE(task[t].rp0)

Blamed == Roomy => FaultBlamed

FaultsInv == Types /\ Living /\ Shaped /\ FreedExactly /\ Signals /\ Pushed /\ Blamed


-----------------------------------------------------------------------------
(* What gforth_stacks lays out. *)

OwnedFrom(t, p, e) == Owned(t) = p .. e + 2 * SigPages

LEMMA OwnedIs ==
  ASSUME NEW t \in Tasks, task[t].state # "none",
         NEW p \in Nat, NEW a \in Nat, NEW b \in Nat, NEW c \in Nat, NEW e \in Nat,
         LaidOut(task[t], p, a, b, c, e)
  PROVE  OwnedFrom(t, p, e)
  <1> DEFINE m == e + 1 - p + 2 * SigPages
  <1>1. m \in Nat \ {0} /\ p + m - 1 = e + 2 * SigPages
    BY SigPagesOf DEF LaidOut
  <1>2. task[t].total = m * PageSize
    <2>1. task[t].total = (e + 1 - p) * PageSize + 2 * (SigPages * PageSize)
      BY SigPagesOf DEF LaidOut
    <2> QED
      BY <2>1, SigPagesOf, FaultsAssumption
  <1> HIDE DEF m
  <1>3. Pages(p * PageSize, m * PageSize) = p .. p + m - 1
    BY <1>1, PagesOf
  <1> QED
    BY <1>1, <1>2, <1>3 DEF Owned, LaidOut, OwnedFrom

(* The size of a stack, rounded or not. *)
LEMMA StackPages ==
  ASSUME NEW n \in Nat
  PROVE  \E w \in Nat : /\ n <= w * PageSize /\ w * PageSize < n + PageSize
                        /\ wholepage(n) = w * PageSize
                        /\ wholepage(wholepage(n)) = w * PageSize
  <1>1. PICK w \in Int : n <= w * PageSize /\ w * PageSize < n + PageSize /\ wholepage(n) = w * PageSize
    BY Rounding
  <1>2. PageSize \in Nat \ {0} /\ w * PageSize \in Int
    BY <1>1, FaultsAssumption
  <1>3. wholepage(w * PageSize) = w * PageSize
    BY <1>2, RoundUp
  <1>4. 0 * PageSize < w * PageSize + PageSize
    BY <1>1, <1>2
  <1>5. 0 <= w
    BY <1>2, <1>4, LessTimes
  <1> QED
    BY <1>1, <1>3, <1>5

SizeRec == [sp : Nat, fp : Nat, rp : Nat, lp : Nat]

LEMMA RoundedSize ==
  ASSUME NEW z \in SizeRec, NEW s \in Stacks
  PROVE  \E w \in Nat : /\ Rounded(z)[s] <= w * PageSize /\ w * PageSize < Rounded(z)[s] + PageSize
                        /\ Rounded(z)[s] \in Nat /\ z[s] \in Nat
                        /\ z[s] <= w * PageSize /\ w * PageSize < z[s] + PageSize
                        /\ wholepage(Rounded(z)[s]) = w * PageSize
                        /\ wholepage(z[s]) = w * PageSize
                        /\ engine = "debugging" => Rounded(z)[s] = w * PageSize
                        /\ engine # "debugging" => Rounded(z)[s] = z[s]
  <1>1. z[s] \in Nat
    BY DEF SizeRec, Stacks
  <1>2. PICK w \in Nat : /\ z[s] <= w * PageSize /\ w * PageSize < z[s] + PageSize
                         /\ wholepage(z[s]) = w * PageSize
                         /\ wholepage(wholepage(z[s])) = w * PageSize
    BY <1>1, StackPages
  <1>3. w * PageSize \in Nat /\ PageSize \in Nat \ {0}
    BY <1>2, FaultsAssumption
  <1>4. CASE engine = "debugging"
    <2>1. Rounded(z)[s] = w * PageSize
      BY <1>2, <1>4 DEF Rounded
    <2> QED
      BY <1>1, <1>2, <1>3, <1>4, <2>1
  <1>5. CASE engine # "debugging"
    <2>1. Rounded(z)[s] = z[s]
      BY <1>5 DEF Rounded
    <2> QED
      BY <1>1, <1>2, <1>3, <1>5, <2>1
  <1> QED
    BY <1>4, <1>5


(* The layout k for sizes z in terms of the pages of the guards. *)
Placed(k, z, p, a, b, c, e) ==
  /\ p + 2 <= a /\ a + 1 <= b /\ b + 1 <= c /\ c + 1 <= e
  /\ k.up = p * PageSize /\ k.total = (e + 1 - p) * PageSize + 2 * SIGSTKSZ
  /\ k.guards = {(p + 1) * PageSize, a * PageSize, b * PageSize, c * PageSize, e * PageSize}
  /\ k.sp0 = (p + 2) * PageSize + Rounded(z).sp
  /\ k.rp0 = (a + 1) * PageSize + Rounded(z).rp
  /\ k.fp0 = (b + 1) * PageSize + Rounded(z).fp
  /\ k.lp0 = (c + 1) * PageSize + Rounded(z).lp
  /\ Rounded(z).sp <= (a - p - 2) * PageSize /\ (a - p - 2) * PageSize < Rounded(z).sp + PageSize
  /\ Rounded(z).rp <= (b - a - 1) * PageSize /\ (b - a - 1) * PageSize < Rounded(z).rp + PageSize
  /\ Rounded(z).fp <= (c - b - 1) * PageSize /\ (c - b - 1) * PageSize < Rounded(z).fp + PageSize
  /\ Rounded(z).lp <= (e - c - 1) * PageSize /\ (e - c - 1) * PageSize < Rounded(z).lp + PageSize
  /\ wholepage(z.sp) = (a - p - 2) * PageSize
  /\ wholepage(z.rp) = (b - a - 1) * PageSize
  /\ wholepage(z.fp) = (c - b - 1) * PageSize
  /\ engine = "debugging" => /\ Rounded(z).sp = (a - p - 2) * PageSize
                             /\ Rounded(z).rp = (b - a - 1) * PageSize
                             /\ Rounded(z).fp = (c - b - 1) * PageSize

LEMMA LayoutIs ==
  ASSUME NEW p \in Nat, NEW z \in SizeRec, NEW asked
  PROVE  \E a, b, c, e \in Nat :
           Placed(Layout(p * PageSize, Rounded(z), asked), z, p, a, b, c, e)
  <1> DEFINE y == Rounded(z)
             P == PageSize
  <1>0. P \in Nat \ {0} /\ SIGSTKSZ \in Int
    BY FaultsAssumption, SigPagesOf
  <1>1. PICK d \in Nat : /\ y.sp <= d * P /\ d * P < y.sp + P /\ y.sp \in Nat
                         /\ wholepage(y.sp) = d * P /\ wholepage(z.sp) = d * P
                         /\ engine = "debugging" => y.sp = d * P
    BY RoundedSize DEF Stacks
  <1>2. PICK r \in Nat : /\ y.rp <= r * P /\ r * P < y.rp + P /\ y.rp \in Nat
                         /\ wholepage(y.rp) = r * P /\ wholepage(z.rp) = r * P
                         /\ engine = "debugging" => y.rp = r * P
    BY RoundedSize DEF Stacks
  <1>3. PICK f \in Nat : /\ y.fp <= f * P /\ f * P < y.fp + P /\ y.fp \in Nat
                         /\ wholepage(y.fp) = f * P /\ wholepage(z.fp) = f * P
                         /\ engine = "debugging" => y.fp = f * P
    BY RoundedSize DEF Stacks
  <1>4. PICK l \in Nat : /\ y.lp <= l * P /\ l * P < y.lp + P /\ y.lp \in Nat
                         /\ wholepage(y.lp) = l * P /\ wholepage(z.lp) = l * P
    BY RoundedSize DEF Stacks
  <1> HIDE DEF y, P
  <1> DEFINE a == p + 2 + d
             b == a + 1 + r
             c == b + 1 + f
             e == c + 1 + l
             k == Layout(p * P, y, asked)
  <1>5. /\ a \in Nat /\ b \in Nat /\ c \in Nat /\ e \in Nat
        /\ p + 2 <= a /\ a + 1 <= b /\ b + 1 <= c /\ c + 1 <= e
        /\ a - p - 2 = d /\ b - a - 1 = r /\ c - b - 1 = f /\ e - c - 1 = l
    OBVIOUS
  <1>6. /\ p * P \in Nat /\ d * P \in Nat /\ r * P \in Nat /\ f * P \in Nat /\ l * P \in Nat
        /\ (p + 1) * P = p * P + P /\ (p + 2) * P = p * P + 2 * P
        /\ a * P = p * P + 2 * P + d * P
        /\ b * P = p * P + 3 * P + d * P + r * P
        /\ c * P = p * P + 4 * P + d * P + r * P + f * P
        /\ e * P = p * P + 5 * P + d * P + r * P + f * P + l * P
        /\ (a + 1) * P = p * P + 3 * P + d * P
        /\ (b + 1) * P = p * P + 4 * P + d * P + r * P
        /\ (c + 1) * P = p * P + 5 * P + d * P + r * P + f * P
        /\ (e + 1 - p) * P = 6 * P + d * P + r * P + f * P + l * P
    BY <1>0
  <1> HIDE DEF a, b, c, e
  <1>7. k.total = (e + 1 - p) * P + 2 * SIGSTKSZ
    BY <1>0, <1>1, <1>2, <1>3, <1>4, <1>6 DEF Layout, totalsize, P
  <1>8. /\ k.up = p * P
        /\ k.sp0 = (p + 2) * P + y.sp /\ k.rp0 = (a + 1) * P + y.rp
        /\ k.fp0 = (b + 1) * P + y.fp /\ k.lp0 = (c + 1) * P + y.lp
    BY <1>0, <1>1, <1>2, <1>3, <1>4, <1>6 DEF Layout, P
  <1>9. k.guards = {(p + 1) * P, a * P, b * P, c * P, e * P}
    <2>1. k.guards = {p * P + 2 * P - P, p * P + 2 * P + d * P + P - P,
                      p * P + 2 * P + d * P + P + r * P + P - P,
                      p * P + 2 * P + d * P + P + r * P + P + f * P + P - P,
                      p * P + 2 * P + d * P + P + r * P + P + f * P + P + l * P}
      BY <1>0, <1>1, <1>2, <1>3, <1>4 DEF Layout, P
    <2> HIDE DEF k
    <2>2. /\ p * P + 2 * P - P = (p + 1) * P
          /\ p * P + 2 * P + d * P + P - P = a * P
          /\ p * P + 2 * P + d * P + P + r * P + P - P = b * P
          /\ p * P + 2 * P + d * P + P + r * P + P + f * P + P - P = c * P
          /\ p * P + 2 * P + d * P + P + r * P + P + f * P + P + l * P = e * P
      BY <1>0, <1>6
    <2> QED
      BY <2>1, <2>2
  <1> HIDE DEF k
  <1>10. Placed(k, z, p, a, b, c, e)
    BY <1>1, <1>2, <1>3, <1>4, <1>5, <1>7, <1>8, <1>9 DEF Placed, P, y
  <1> QED
    BY <1>5, <1>10 DEF k, P, y


-----------------------------------------------------------------------------
(* Types. *)

LEMMA SizesTyped ==
  ASSUME NEW z \in Sizes
  PROVE  /\ z[1] \in Nat /\ z[2] \in Nat /\ z[3] \in Nat /\ z[4] \in Nat
         /\ Params(z[1], z[2], z[3], z[4]) \in SizeRec
         /\ [sp |-> z[1], rp |-> z[2], fp |-> z[3], lp |-> z[4]]
              \in [sp : Nat, rp : Nat, fp : Nat, lp : Nat]
  BY FaultsAssumption DEF Params, SizeRec

LEMMA LayoutTyped ==
  ASSUME NEW p \in Nat, NEW z \in SizeRec,
         NEW asked \in [sp : Nat, rp : Nat, fp : Nat, lp : Nat]
  PROVE  /\ Layout(p * PageSize, Rounded(z), asked) \in Made
         /\ Layout(p * PageSize, Rounded(z), asked).state = "made"
         /\ Bottoms(Layout(p * PageSize, Rounded(z), asked)) \in Made
         /\ [Layout(p * PageSize, Rounded(z), asked) EXCEPT !.guards = {}] \in Made
  <1> DEFINE k == Layout(p * PageSize, Rounded(z), asked)
  <1>1. PICK a, b, c, e \in Nat : Placed(k, z, p, a, b, c, e)
    BY LayoutIs
  <1>2. /\ Rounded(z).sp \in Nat /\ Rounded(z).rp \in Nat
        /\ Rounded(z).fp \in Nat /\ Rounded(z).lp \in Nat
    BY RoundedSize DEF Stacks
  <1>3. PageSize \in Nat /\ SIGSTKSZ \in Int /\ StackCache \in Int
    BY FaultsAssumption, SigPagesOf
  <1>4. /\ k.up \in Int /\ k.total \in Int /\ k.guards \in SUBSET Int
        /\ k.sp0 \in Int /\ k.rp0 \in Int /\ k.fp0 \in Int /\ k.lp0 \in Int
    BY <1>1, <1>2, <1>3 DEF Placed
  <1>5. k = [state |-> "made", up |-> k.up, total |-> k.total, asked |-> asked,
             sp0 |-> k.sp0, rp0 |-> k.rp0, fp0 |-> k.fp0, lp0 |-> k.lp0, guards |-> k.guards]
    BY DEF Layout
  <1> HIDE DEF k
  <1>6. k \in Made /\ k.state = "made"
    BY <1>4, <1>5 DEF Made
  <1>7. [k EXCEPT !.guards = {}] \in Made
    BY <1>6 DEF Made
  <1>8. Bottoms(k) \in Made
    <2>1. k.sp0 - StackCache \in Int /\ k.fp0 - 1 \in Int
      BY <1>3, <1>4
    <2>2. [k EXCEPT !.sp0 = k.sp0 - StackCache] \in Made
      BY <1>6, <2>1 DEF Made
    <2>3. [k EXCEPT !.sp0 = k.sp0 - StackCache, !.fp0 = k.fp0 - 1] \in Made
      BY <1>6, <2>1 DEF Made
    <2> QED
      BY <1>6, <2>3 DEF Bottoms
  <1> QED
    BY <1>6, <1>7, <1>8 DEF k

(* The code that segv_handler throws is a number. *)
LEMMA CodeTyped ==
  ASSUME NEW k, NEW g, NEW x
  PROVE  segv_handler(k, g, x) \in Int
  BY DEF segv_handler

LEMMA CaughtTyped ==
  ASSUME NEW k, NEW rp \in Int, NEW code \in Int, NEW s \in Stacks \cup {"dictionary"},
         NEW d \in Direction
  PROVE  gforth_go(k, rp, code, s, d) \in Caught
  BY DEF gforth_go, Caught

LEMMA SetStacksTyped ==
  ASSUME NEW k \in Made
  PROVE  gforth_setstacks(k) \in Running
  BY DEF gforth_setstacks, Made, Running

LEMMA SigTyped ==
  ASSUME NEW k \in Made
  PROVE  gforth_set_sigaltstack(k) \in [state : {"set"}, base : Int, size : Int]
  <1>1. k.lp0 \in Int /\ PageSize \in Int /\ SIGSTKSZ \in Int
    BY FaultsAssumption, SigPagesOf DEF Made
  <1>2. PICK i \in Int : wholepage(k.lp0) = i * PageSize
    BY <1>1, Rounding
  <1>3. wholepage(k.lp0) + PageSize + SIGSTKSZ \in Int
    BY <1>1, <1>2
  <1> QED
    BY <1>1, <1>3 DEF gforth_set_sigaltstack


(* What gforth_stacks does: memory in free pages from page p, with guards  *)
(* or without.                                                             *)
Mapped(t, z, p, k) ==
  LET y == Params(z[1], z[2], z[3], z[4])
      n == Layout(p * PageSize, Rounded(y), [sp |-> z[1], rp |-> z[2], fp |-> z[3], lp |-> z[4]])
      mine == Pages(n.up, n.total)
  IN  /\ mine \subseteq DOMAIN mem /\ \A q \in mine : mem[q] = "free"
      /\ task' = [task EXCEPT ![t] = k]
      /\ \/ /\ k = Bottoms(n)
            /\ mem' = [q \in DOMAIN mem |->
                         IF q \in {Page(g) : g \in n.guards} THEN "none"
                         ELSE IF q \in mine THEN "rw" ELSE mem[q]]
         \/ /\ k = [n EXCEPT !.guards = {}]
            /\ mem' = [q \in DOMAIN mem |-> IF q \in mine THEN "rw" ELSE mem[q]]

LEMMA NewTask ==
  ASSUME NEW t \in Tasks, NEW z \in Sizes, newtask4(t, z[1], z[2], z[3], z[4])
  PROVE  \E p \in Places : \E k \in Made : Mapped(t, z, p, k) /\ k.state = "made"
  <1> DEFINE y == Params(z[1], z[2], z[3], z[4])
             asked == [sp |-> z[1], rp |-> z[2], fp |-> z[3], lp |-> z[4]]
  <1>1. y \in SizeRec /\ asked \in [sp : Nat, rp : Nat, fp : Nat, lp : Nat]
    BY SizesTyped
  <1> HIDE DEF y, asked
  <1>2. PICK p \in Places :
          LET n == Layout(p * PageSize, Rounded(y), asked)
              mine == Pages(p * PageSize, n.total)
          IN  /\ mine \subseteq DOMAIN mem /\ \A q \in mine : mem[q] = "free"
              /\ \/ /\ task' = [task EXCEPT ![t] = Bottoms(n)]
                    /\ mem' = [q \in DOMAIN mem |->
                                 IF q \in {Page(g) : g \in n.guards} THEN "none"
                                 ELSE IF q \in mine THEN "rw" ELSE mem[q]]
                 \/ /\ task' = [task EXCEPT ![t] = [n EXCEPT !.guards = {}]]
                    /\ mem' = [q \in DOMAIN mem |-> IF q \in mine THEN "rw" ELSE mem[q]]
    BY Zenon DEF newtask4, gforth_stacks, y, asked
  <1>3. p \in Nat
    BY FaultsAssumption
  <1> DEFINE n == Layout(p * PageSize, Rounded(y), asked)
  <1>4. /\ n \in Made /\ n.state = "made" /\ Bottoms(n) \in Made
        /\ [n EXCEPT !.guards = {}] \in Made
    BY <1>1, <1>3, LayoutTyped
  <1>5. n.up = p * PageSize
    BY DEF Layout
  <1>6. Bottoms(n).state = "made" /\ [n EXCEPT !.guards = {}].state = "made"
    BY <1>4 DEF Bottoms, Made
  <1> HIDE DEF n
  <1>7. CASE task' = [task EXCEPT ![t] = Bottoms(n)]
             /\ mem' = [q \in DOMAIN mem |->
                          IF q \in {Page(g) : g \in n.guards} THEN "none"
                          ELSE IF q \in Pages(p * PageSize, n.total) THEN "rw" ELSE mem[q]]
    <2>1. Mapped(t, z, p, Bottoms(n))
      BY <1>2, <1>5, <1>7, Zenon DEF Mapped, n, y, asked
    <2> QED
      BY <1>4, <1>6, <2>1
  <1>8. CASE task' = [task EXCEPT ![t] = [n EXCEPT !.guards = {}]]
             /\ mem' = [q \in DOMAIN mem |-> IF q \in Pages(p * PageSize, n.total) THEN "rw" ELSE mem[q]]
    <2>1. Mapped(t, z, p, [n EXCEPT !.guards = {}])
      BY <1>2, <1>5, <1>8, Zenon DEF Mapped, n, y, asked
    <2> QED
      BY <1>4, <1>6, <2>1
  <1> QED
    BY <1>2, <1>7, <1>8 DEF n

(* A step of thread t takes task and stack pointers from t only. *)
LEMMA TypesStep ==
  ASSUME Types, Living, Next
  PROVE  Types'
  <1>0. PageSize \in Nat \ {0} /\ MemPages \in Nat
    BY FaultsAssumption
  <1> SUFFICES ASSUME NEW t \in Tasks,
                      \/ \E z \in Sizes : newtask4(t, z[1], z[2], z[3], z[4])
                      \/ gforth_thread(t)
                      \/ \E s \in Stacks, d \in Direction, n \in 1 .. MaxAccess : Access(t, s, d, n)
                      \/ DictOverflow(t)
                      \/ Recover(t)
                      \/ gforth_free_stacks(t)
               PROVE  Types'
    BY DEF Next
  <1>1. ASSUME NEW z \in Sizes, newtask4(t, z[1], z[2], z[3], z[4])
        PROVE  Types'
    <2>1. PICK p \in Places : \E k \in Made : Mapped(t, z, p, k)
      BY <1>1, NewTask
    <2>2. PICK k \in Made : Mapped(t, z, p, k)
      BY <2>1
    <2>3. task' \in [Tasks -> {None} \cup Made]
      BY <2>2 DEF Mapped, Types
    <2>4. mem' \in [0 .. MemPages - 1 -> {"free", "rw", "none"}]
      BY <2>2 DEF Mapped, Types
    <2>5. UNCHANGED <<engine, ptr, sigstack, caught, dictguard>>
      BY <1>1 DEF newtask4
    <2> QED
      BY <2>3, <2>4, <2>5 DEF Types
  <1>2. CASE gforth_thread(t)
    <2> DEFINE k == [task[t] EXCEPT !.rp0 = @ - 1]
    <2>1. task[t] \in Made
      BY <1>2 DEF gforth_thread, Types, None
    <2>2. k \in Made
      BY <2>1 DEF Made
    <2>3. /\ task' = [task EXCEPT ![t] = k]
          /\ ptr' = [ptr EXCEPT ![t] = gforth_setstacks(k)]
          /\ sigstack' = [sigstack EXCEPT ![t] = gforth_set_sigaltstack(k)]
          /\ UNCHANGED <<engine, mem, caught, dictguard>>
      BY <1>2 DEF gforth_thread
    <2> HIDE DEF k
    <2>4. /\ gforth_setstacks(k) \in Running
          /\ gforth_set_sigaltstack(k) \in [state : {"set"}, base : Int, size : Int]
      BY <2>2, SetStacksTyped, SigTyped
    <2> QED
      BY <2>2, <2>3, <2>4 DEF Types
  <1>3. ASSUME NEW s \in Stacks, NEW d \in Direction, NEW n \in 1 .. MaxAccess, Access(t, s, d, n)
        PROVE  Types'
    <2> DEFINE q == IF d = "push" THEN ptr[t][s] - n ELSE ptr[t][s] + n
    <2>0. n \in Int
      BY FaultsAssumption
    <2>1. ptr[t] \in Running
      BY <1>3 DEF Access, Types, None
    <2>2. ptr[t][s] \in Int /\ ptr[t].rp \in Int
      BY <2>1 DEF Running, Stacks
    <2>3. q \in Int
      BY <2>0, <2>2
    <2>4. UNCHANGED <<engine, mem, task, sigstack, dictguard>>
      BY <1>3 DEF Access
    <2>5. CASE ptr' = [ptr EXCEPT ![t][s] = q] /\ UNCHANGED caught
      <3> HIDE DEF q
      <3>1. [ptr[t] EXCEPT ![s] = q] \in Running
        BY <2>1, <2>3 DEF Running, Stacks
      <3>2. ptr' = [ptr EXCEPT ![t] = [ptr[t] EXCEPT ![s] = q]]
        BY <2>5 DEF Types
      <3> QED
        BY <2>4, <2>5, <3>1, <3>2 DEF Types
    <2>6. CASE UNCHANGED ptr /\ \E rp \in {ptr[t].rp, IF s = "rp" THEN q ELSE ptr[t].rp}, x \in Int :
                   caught' = [caught EXCEPT ![t] =
                     gforth_go(task[t], rp, segv_handler(task[t], dictguard, x), s, d)]
      <3>1. PICK rp \in {ptr[t].rp, IF s = "rp" THEN q ELSE ptr[t].rp}, x \in Int :
                   caught' = [caught EXCEPT ![t] =
                     gforth_go(task[t], rp, segv_handler(task[t], dictguard, x), s, d)]
        BY <2>6
      <3>2. rp \in Int
        BY <2>2, <2>3
      <3>3. gforth_go(task[t], rp, segv_handler(task[t], dictguard, x), s, d) \in Caught
        BY <3>2, CodeTyped, CaughtTyped
      <3> QED
        BY <2>4, <2>6, <3>1, <3>3 DEF Types
    <2>7. (IF d = "push" THEN q ELSE q - 1) \in Int
      BY <2>3
    <2> QED
      BY <1>3, <2>5, <2>6, <2>7 DEF Access
  <1>4. CASE DictOverflow(t)
    <2>1. PICK x \in dictguard .. dictguard + PageSize - 1 : caught' = [caught EXCEPT ![t] =
             gforth_go(task[t], ptr[t].rp, segv_handler(task[t], dictguard, x), "dictionary", "push")]
      BY <1>4 DEF DictOverflow
    <2>2. ptr[t].rp \in Int
      BY <1>4 DEF DictOverflow, Types, None, Running
    <2>3. gforth_go(task[t], ptr[t].rp, segv_handler(task[t], dictguard, x), "dictionary", "push")
            \in Caught
      BY <2>2, CodeTyped, CaughtTyped DEF Direction
    <2> QED
      BY <1>4, <2>1, <2>3 DEF DictOverflow, Types
  <1>5. CASE Recover(t)
    <2>1. task[t] \in Made
      BY <1>5 DEF Recover, Living, Types, None
    <2>2. gforth_setstacks(task[t]) \in Running
      BY <2>1, SetStacksTyped
    <2> QED
      BY <1>5, <2>2 DEF Recover, Types
  <1>6. CASE gforth_free_stacks(t)
    <2>1. task[t] \in Made
      BY <1>6 DEF gforth_free_stacks, Living, Types, None
    <2>2. [task[t] EXCEPT !.state = "lost"] \in Made
      BY <2>1 DEF Made
    <2>3. task' \in [Tasks -> {None} \cup Made]
      BY <1>6, <2>2 DEF gforth_free_stacks, Types
    <2>4. mem' \in [0 .. MemPages - 1 -> {"free", "rw", "none"}]
      BY <1>6 DEF gforth_free_stacks, Types
    <2> QED
      BY <1>6, <2>3, <2>4 DEF gforth_free_stacks, Types
  <1> QED
    BY <1>1, <1>2, <1>3, <1>4, <1>5, <1>6


LEMMA LivingStep ==
  ASSUME Types, Types', Living, Next
  PROVE  Living'
  <1> SUFFICES ASSUME NEW t \in Tasks,
                      \/ \E z \in Sizes : newtask4(t, z[1], z[2], z[3], z[4])
                      \/ gforth_thread(t)
                      \/ \E s \in Stacks, d \in Direction, n \in 1 .. MaxAccess : Access(t, s, d, n)
                      \/ DictOverflow(t)
                      \/ Recover(t)
                      \/ gforth_free_stacks(t)
               PROVE  Living'
    BY DEF Next
  <1>1. ASSUME NEW z \in Sizes, newtask4(t, z[1], z[2], z[3], z[4])
        PROVE  Living'
    <2>1. PICK p \in Places : \E k \in Made : Mapped(t, z, p, k) /\ k.state = "made"
      BY <1>1, NewTask
    <2>2. PICK k \in Made : task' = [task EXCEPT ![t] = k] /\ k.state = "made"
      BY <2>1 DEF Mapped
    <2> QED
      BY <1>1, <2>2 DEF newtask4, Living, Types
  <1>2. CASE gforth_thread(t)
    <2> DEFINE k == [task[t] EXCEPT !.rp0 = @ - 1]
    <2>1. task[t] \in Made /\ task[t].state = "made"
      BY <1>2 DEF gforth_thread, Types, None
    <2>2. k.state = "made" /\ gforth_setstacks(k).state = "run"
          /\ gforth_set_sigaltstack(k).state = "set"
      BY <2>1 DEF Made, gforth_setstacks, gforth_set_sigaltstack
    <2>3. /\ task' = [task EXCEPT ![t] = k]
          /\ ptr' = [ptr EXCEPT ![t] = gforth_setstacks(k)]
          /\ sigstack' = [sigstack EXCEPT ![t] = gforth_set_sigaltstack(k)]
          /\ UNCHANGED <<engine, mem, caught, dictguard>>
      BY <1>2 DEF gforth_thread
    <2> HIDE DEF k
    <2> QED
      BY <2>2, <2>3 DEF Types, Living
  <1>3. ASSUME NEW s \in Stacks, NEW d \in Direction, NEW n \in 1 .. MaxAccess, Access(t, s, d, n)
        PROVE  Living'
    <2>1. ptr[t].state = "run" /\ UNCHANGED <<task, sigstack>>
      BY <1>3 DEF Access
    <2>2. \A u \in Tasks : ptr'[u].state = ptr[u].state
      <3>1. ASSUME NEW q, ptr' = [ptr EXCEPT ![t][s] = q]
            PROVE  \A u \in Tasks : ptr'[u].state = ptr[u].state
        BY <3>1, <2>1 DEF Types, Running, Stacks
      <3> QED
        BY <1>3, <3>1 DEF Access
    <2>3. \A u \in Tasks : u # t => caught'[u] = caught[u]
      BY <1>3 DEF Access, Types
    <2> QED
      BY <2>1, <2>2, <2>3 DEF Living
  <1>4. CASE DictOverflow(t)
    BY <1>4 DEF DictOverflow, Living, Types
  <1>5. CASE Recover(t)
    BY <1>5 DEF Recover, Living, Types, gforth_setstacks, None
  <1>6. CASE gforth_free_stacks(t)
    BY <1>6 DEF gforth_free_stacks, Living, Types, None
  <1> QED
    BY <1>1, <1>2, <1>3, <1>4, <1>5, <1>6

-----------------------------------------------------------------------------
(* The layout is kept. *)

LEMMA ShapeKept ==
  ASSUME Types, NEW t \in Tasks,
         NEW p \in Nat, NEW a \in Nat, NEW b \in Nat, NEW c \in Nat, NEW e \in Nat,
         Shape(t, p, a, b, c, e),
         engine' = engine, task'[t] = task[t], ptr'[t] = ptr[t],
         \A q \in p .. e + 2 * SigPages : mem'[q] = mem[q]
  PROVE  Shape(t, p, a, b, c, e)'
  <1>1. LaidOut(task[t], p, a, b, c, e)'
    BY DEF Shape, LaidOut
  <1>2. Held(task[t], p, a, b, c, e)'
    BY DEF Shape, Held
  <1>3. LastPages([task[t] EXCEPT !.rp0 = @ - 1], p, a, b, c, e)
          <=> LastPages([task[t] EXCEPT !.rp0 = @ - 1], p, a, b, c, e)'
    BY DEF LastPages
  <1>4. /\ LastPages(task[t], p, a, b, c, e) <=> LastPages(task[t], p, a, b, c, e)'
        /\ Inside(ptr[t], p, a, b, c, e) <=> Inside(ptr[t], p, a, b, c, e)'
    BY DEF LastPages, Inside
  <1> QED
    BY <1>1, <1>2, <1>3, <1>4, Zenon DEF Shape


(* The pages of the guards. *)
LEMMA GuardPages ==
  ASSUME NEW p \in Nat, NEW a \in Nat, NEW b \in Nat, NEW c \in Nat, NEW e \in Nat
  PROVE  {Page(g) : g \in {(p + 1) * PageSize, a * PageSize, b * PageSize, c * PageSize, e * PageSize}}
           = {p + 1, a, b, c, e}
  <1>1. \A i \in Nat : Page(i * PageSize) = i
    BY PageIs, FaultsAssumption
  <1>2. /\ Page((p + 1) * PageSize) = p + 1 /\ Page(a * PageSize) = a /\ Page(b * PageSize) = b
        /\ Page(c * PageSize) = c /\ Page(e * PageSize) = e
    BY <1>1
  <1> QED
    BY <1>2

(* What is on the last page of a stack. *)
LEMMA Fits ==
  ASSUME NEW n \in Nat, NEW kept \in Nat, Holds(n, kept), NEW w \in Int, wholepage(n) = w * PageSize
  PROVE  1 <= n - kept /\ n - kept <= w * PageSize /\ w * PageSize < n - kept + PageSize
  <1>1. PICK i \in Int : /\ n - kept <= i * PageSize /\ i * PageSize < n - kept + PageSize
                         /\ wholepage(n - kept) = i * PageSize
    BY Rounding
  <1> QED
    BY <1>1 DEF Holds

LEMMA NewShape ==
  ASSUME Types, FreedExactly, NEW t \in Tasks, NEW z \in Sizes, NEW p \in Nat, NEW k \in Made,
         Mapped(t, z, p, k), k.state = "made", UNCHANGED <<engine, ptr>>, ptr[t].state = "none"
  PROVE  \E a, b, c, e \in Nat :
           /\ Shape(t, p, a, b, c, e)'
           /\ \A q \in 0 .. MemPages - 1 :
                mem'[q] = IF q \in p .. e + 2 * SigPages THEN mem'[q] ELSE mem[q]
           /\ \A q \in p .. e + 2 * SigPages : q \in 0 .. MemPages - 1 /\ mem[q] = "free"
           /\ LaidOut(k, p, a, b, c, e)
  <1> DEFINE P == PageSize
             y == Params(z[1], z[2], z[3], z[4])
             n == Layout(p * PageSize, Rounded(y), [sp |-> z[1], rp |-> z[2], fp |-> z[3], lp |-> z[4]])
  <1>0. /\ P \in Nat \ {0} /\ 2 <= P /\ StackCache \in Nat /\ MemPages \in Nat \ {0, 1, 2}
        /\ SIGSTKSZ \in Int
    BY FaultsAssumption, SigPagesOf
  <1>1. /\ y \in SizeRec /\ y.sp = z[1] /\ y.fp = z[2] /\ y.rp = z[3] /\ y.lp = z[4]
        /\ z[1] \in Nat /\ z[2] \in Nat /\ z[3] \in Nat /\ z[4] \in Nat
    BY SizesTyped DEF Params
  <1>2. PICK a, b, c, e \in Nat : Placed(n, y, p, a, b, c, e)
    BY <1>1, LayoutIs
  <1>3. n \in Made
    BY <1>1, SizesTyped, LayoutTyped
  <1> DEFINE mine == Pages(n.up, n.total)
  <1>4. /\ mine \subseteq DOMAIN mem /\ \A q \in mine : mem[q] = "free"
        /\ task' = [task EXCEPT ![t] = k]
        /\ \/ /\ k = Bottoms(n)
              /\ mem' = [q \in DOMAIN mem |->
                           IF q \in {Page(g) : g \in n.guards} THEN "none"
                           ELSE IF q \in mine THEN "rw" ELSE mem[q]]
           \/ /\ k = [n EXCEPT !.guards = {}]
              /\ mem' = [q \in DOMAIN mem |-> IF q \in mine THEN "rw" ELSE mem[q]]
    BY Zenon DEF Mapped
  <1> DEFINE x == Rounded(y)
  <1>5. x.sp \in Nat /\ x.rp \in Nat /\ x.fp \in Nat /\ x.lp \in Nat
    BY <1>1, RoundedSize DEF Stacks
  <1>6. engine # "debugging" => x.sp = z[1] /\ x.rp = z[3] /\ x.fp = z[2]
    BY <1>1 DEF Rounded
  <1> HIDE DEF n, y, x, P
  <1>7. /\ p + 2 <= a /\ a + 1 <= b /\ b + 1 <= c /\ c + 1 <= e
        /\ n.up = p * P /\ n.total = (e + 1 - p) * P + 2 * SIGSTKSZ
        /\ n.guards = {(p + 1) * P, a * P, b * P, c * P, e * P}
        /\ n.sp0 = (p + 2) * P + x.sp /\ n.rp0 = (a + 1) * P + x.rp
        /\ n.fp0 = (b + 1) * P + x.fp /\ n.lp0 = (c + 1) * P + x.lp
        /\ x.sp <= (a - p - 2) * P /\ (a - p - 2) * P < x.sp + P
        /\ x.rp <= (b - a - 1) * P /\ (b - a - 1) * P < x.rp + P
        /\ x.fp <= (c - b - 1) * P /\ (c - b - 1) * P < x.fp + P
        /\ x.lp <= (e - c - 1) * P /\ (e - c - 1) * P < x.lp + P
        /\ wholepage(z[1]) = (a - p - 2) * P /\ wholepage(z[3]) = (b - a - 1) * P
        /\ wholepage(z[2]) = (c - b - 1) * P
        /\ engine = "debugging" => /\ x.sp = (a - p - 2) * P /\ x.rp = (b - a - 1) * P
                                   /\ x.fp = (c - b - 1) * P
    BY <1>1, <1>2 DEF Placed, P, x
  <1>8. /\ (a - p - 2) * P = a * P - (p + 2) * P /\ (b - a - 1) * P = b * P - (a + 1) * P
        /\ (c - b - 1) * P = c * P - (b + 1) * P /\ (e - c - 1) * P = e * P - (c + 1) * P
        /\ a * P \in Int /\ b * P \in Int /\ c * P \in Int /\ e * P \in Int
        /\ (p + 2) * P \in Int /\ (a + 1) * P \in Int /\ (b + 1) * P \in Int /\ (c + 1) * P \in Int
    BY <1>0
  (* The fields that Bottoms leaves alone. *)
  <1>9. /\ k.up = n.up /\ k.total = n.total /\ k.rp0 = n.rp0 /\ k.lp0 = n.lp0
        /\ k.guards \in {{}, n.guards}
        /\ engine = "debugging" => k.sp0 = n.sp0
    BY <1>3, <1>4 DEF Bottoms, Made
  <1>10. LaidOut(k, p, a, b, c, e)
    BY <1>0, <1>5, <1>7, <1>8, <1>9 DEF LaidOut, P
  <1>11. mine = p .. e + 2 * SigPages
    <2> DEFINE m == e + 1 - p + 2 * SigPages
    <2>1. m \in Nat \ {0} /\ p + m - 1 = e + 2 * SigPages
      BY <1>7, SigPagesOf
    <2>2. n.total = m * P
      <3>1. n.total = (e + 1 - p) * P + 2 * (SigPages * P)
        BY <1>7, SigPagesOf DEF P
      <3> QED
        BY <1>0, <3>1, SigPagesOf
    <2> HIDE DEF m
    <2>3. Pages(p * P, m * P) = p .. p + m - 1
      BY <2>1, PagesOf DEF P
    <2> QED
      BY <1>7, <2>1, <2>2, <2>3
  <1>12. {Page(g) : g \in n.guards} = {p + 1, a, b, c, e}
    <2>1. n.guards = {(p + 1) * PageSize, a * PageSize, b * PageSize, c * PageSize, e * PageSize}
      BY <1>7 DEF P
    <2>2. {Page(g) : g \in {(p + 1) * PageSize, a * PageSize, b * PageSize, c * PageSize,
                             e * PageSize}} = {p + 1, a, b, c, e}
      BY GuardPages, SMTT(20)
    <2> QED
      BY <2>1, <2>2
  <1>13. {p + 1, a, b, c, e} \subseteq mine
    <2>1. {p + 1, a, b, c, e} \subseteq p .. e + 2 * SigPages
      BY <1>7, SigPagesOf
    <2> QED
      BY <1>11, <2>1, Zenon
  <1>14. k.guards = {} \/ k = Bottoms(n)
    BY <1>3, <1>4 DEF Made
  <1>15. Bottoms(n).guards = n.guards /\ n.guards # {}
    BY <1>3, <1>7 DEF Bottoms, Made
  <1>16. DOMAIN mem = 0 .. MemPages - 1 /\ 1 \in DOMAIN mem /\ 2 \in DOMAIN mem
    BY <1>0 DEF Types
  <1>17. mem[1] # "free" /\ mem[2] # "free"
    BY <1>16 DEF FreedExactly
  <1> HIDE DEF mine
  <1>18. \A q \in mine :
           /\ q \in 0 .. MemPages - 1 /\ q # 1 /\ q # 2
           /\ mem'[q] = IF k.guards # {} /\ q \in {p + 1, a, b, c, e} THEN "none" ELSE "rw"
    <2> SUFFICES ASSUME NEW q \in mine
                 PROVE  /\ q \in 0 .. MemPages - 1 /\ q # 1 /\ q # 2
                        /\ mem'[q] = IF k.guards # {} /\ q \in {p + 1, a, b, c, e} THEN "none" ELSE "rw"
      OBVIOUS
    <2>1. q \in 0 .. MemPages - 1 /\ q # 1 /\ q # 2
      BY <1>4, <1>16, <1>17
    <2>2. CASE k = Bottoms(n) /\ mem' = [r \in DOMAIN mem |->
                           IF r \in {Page(g) : g \in n.guards} THEN "none"
                           ELSE IF r \in mine THEN "rw" ELSE mem[r]]
      BY <1>12, <1>15, <1>16, <2>1, <2>2
    <2>3. CASE k = [n EXCEPT !.guards = {}]
               /\ mem' = [r \in DOMAIN mem |-> IF r \in mine THEN "rw" ELSE mem[r]]
      BY <1>3, <1>16, <2>1, <2>3 DEF Made
    <2> QED
      BY <1>4, <2>1, <2>2, <2>3
  <1>19. \A q \in 0 .. MemPages - 1 : q \notin mine => mem'[q] = mem[q]
    BY <1>4, <1>12, <1>13, <1>16
  <1>20. task'[t] = k
    BY <1>4 DEF Types
  <1>21. Held(task[t], p, a, b, c, e)'
    BY <1>11, <1>18, <1>20 DEF Held
  <1>22. LaidOut(task[t], p, a, b, c, e)'
    BY <1>10, <1>20 DEF LaidOut
  <1>23. ASSUME Roomy, k = Bottoms(n)
         PROVE  LastPages([k EXCEPT !.rp0 = @ - 1], p, a, b, c, e)
    <2>1. z[1] > 0 /\ z[3] > 0
      BY <1>23 DEF Roomy
    <2>2. CASE engine = "debugging"
      <3>1. k.sp0 = n.sp0 /\ k.fp0 = n.fp0
        BY <1>23, <2>2 DEF Bottoms
      <3>2. z[1] <= (a - p - 2) * P /\ z[3] <= (b - a - 1) * P
        <4>1. \A v \in Nat : v <= wholepage(v)
          BY Rounding
        <4> QED
          BY <1>1, <1>7, <4>1
      <3>3. /\ (p + 2) * P <= k.sp0 - 1 /\ k.sp0 <= a * P /\ a * P < k.sp0 + P
            /\ (a + 1) * P <= k.rp0 - 1 /\ b * P < k.rp0 - 1 + P
        BY <1>0, <1>1, <1>5, <1>7, <1>8, <1>9, <2>1, <2>2, <3>1, <3>2
      <3>4. /\ (b + 1) * P <= k.fp0 /\ k.fp0 <= c * P /\ c * P < k.fp0 + P
            /\ (c + 1) * P <= k.lp0
        BY <1>0, <1>1, <1>5, <1>7, <1>8, <1>9, <2>2, <3>1
      <3> QED
        BY <3>3, <3>4 DEF LastPages, Made, P
    <2>3. CASE engine # "debugging"
      <3>1. k.sp0 = n.sp0 - StackCache /\ k.fp0 = n.fp0 - 1
        BY <1>3, <1>23, <2>3 DEF Bottoms, Made
      <3>2. "fast" \in Engines
        BY <2>3, FaultsAssumption DEF Types
      <3>3. Holds(z[1], StackCache) /\ Holds(z[2], 1) /\ Holds(z[3], 1)
        BY <1>23, <3>2 DEF Roomy
      <3> DEFINE w1 == a - p - 2
                 w2 == c - b - 1
                 w3 == b - a - 1
      <3>4. w1 \in Int /\ w2 \in Int /\ w3 \in Int
        OBVIOUS
      <3>5. wholepage(z[1]) = w1 * P /\ wholepage(z[2]) = w2 * P /\ wholepage(z[3]) = w3 * P
        BY <1>7
      <3> HIDE DEF w1, w2, w3
      <3>6. /\ 1 <= z[1] - StackCache /\ z[1] - StackCache <= w1 * P /\ w1 * P < z[1] - StackCache + P
            /\ 1 <= z[2] - 1 /\ z[2] - 1 <= w2 * P /\ w2 * P < z[2] - 1 + P
            /\ 1 <= z[3] - 1 /\ z[3] - 1 <= w3 * P /\ w3 * P < z[3] - 1 + P
        <4>1. 1 <= z[1] - StackCache /\ z[1] - StackCache <= w1 * P /\ w1 * P < z[1] - StackCache + P
          BY <1>0, <1>1, <3>3, <3>4, <3>5, Fits DEF P
        <4>2. 1 <= z[2] - 1 /\ z[2] - 1 <= w2 * P /\ w2 * P < z[2] - 1 + P
          BY <1>0, <1>1, <3>3, <3>4, <3>5, Fits DEF P
        <4>3. 1 <= z[3] - 1 /\ z[3] - 1 <= w3 * P /\ w3 * P < z[3] - 1 + P
          BY <1>0, <1>1, <3>3, <3>4, <3>5, Fits DEF P
        <4> QED
          BY <4>1, <4>2, <4>3
      <3>7. w1 * P = a * P - (p + 2) * P /\ w2 * P = c * P - (b + 1) * P /\ w3 * P = b * P - (a + 1) * P
        BY <1>8 DEF w1, w2, w3
      <3>8. /\ (p + 2) * P <= k.sp0 - 1 /\ k.sp0 <= a * P /\ a * P < k.sp0 + P
        BY <1>0, <1>1, <1>6, <1>7, <1>8, <2>3, <3>1, <3>6, <3>7
      <3>9. /\ (a + 1) * P <= k.rp0 - 1 /\ b * P < k.rp0 - 1 + P
        BY <1>0, <1>1, <1>6, <1>7, <1>8, <1>9, <2>3, <3>6, <3>7
      <3>10. /\ (b + 1) * P <= k.fp0 /\ k.fp0 <= c * P /\ c * P < k.fp0 + P
             /\ (c + 1) * P <= k.lp0
        BY <1>0, <1>1, <1>5, <1>6, <1>7, <1>8, <1>9, <2>3, <3>1, <3>6, <3>7
      <3> QED
        BY <3>8, <3>9, <3>10 DEF LastPages, Made, P
    <2> QED
      BY <2>2, <2>3
  <1>24. Roomy /\ task'[t].guards # {} => LastPages([task[t] EXCEPT !.rp0 = @ - 1], p, a, b, c, e)'
    <2>1. [task[t] EXCEPT !.rp0 = @ - 1]' = [k EXCEPT !.rp0 = @ - 1]
      BY <1>20
    <2> QED
      BY <1>14, <1>20, <1>23, <2>1 DEF LastPages
  <1>25. ptr'[t].state = "none"
    OBVIOUS
  <1>26. Shape(t, p, a, b, c, e)'
    BY <1>21, <1>22, <1>24, <1>25 DEF Shape
  <1> QED
    BY <1>4, <1>10, <1>11, <1>16, <1>19, <1>26


-----------------------------------------------------------------------------
(* Faults. *)

(* The pages of stack s: from LowPage to before HighPage, which is a guard. *)
LowPage(s, p, a, b, c) ==
  IF s = "sp" THEN p + 2 ELSE IF s = "rp" THEN a + 1 ELSE IF s = "fp" THEN b + 1 ELSE c + 1
HighPage(s, a, b, c, e) ==
  IF s = "sp" THEN a ELSE IF s = "rp" THEN b ELSE IF s = "fp" THEN c ELSE e

(* A move by n cells from x that leaves the pages i to j - 1 touches a     *)
(* guard page, at most n cells away from the stack.                        *)
LEMMA Leaving ==
  ASSUME NEW i \in Int, NEW j \in Int, NEW x \in Int, i * PageSize <= x, x <= j * PageSize,
         NEW n \in 1 .. MaxAccess
  PROVE  /\ x - n < i * PageSize => Page(x - n) = i - 1
         /\ x + n > j * PageSize => Page(x + n - 1) = j
         /\ x - n >= i * PageSize => Page(x - n) \in i .. j - 1
         /\ x + n <= j * PageSize => Page(x + n - 1) \in i .. j - 1
  <1> DEFINE P == PageSize
  <1>1. P \in Nat \ {0} /\ n \in 1 .. P /\ (i - 1) * P = i * P - P
        /\ i * P \in Int /\ j * P \in Int /\ x - n \in Int /\ x + n - 1 \in Int /\ i - 1 \in Int
    BY FaultsAssumption
  <1> HIDE DEF P
  <1>2. ASSUME x - n < i * P  PROVE Page(x - n) = i - 1
    <2>1. (i - 1) * P <= x - n /\ x - n < (i - 1) * P + P
      BY <1>1, <1>2 DEF P
    <2> QED
      BY <1>1, <2>1, PageIs DEF P
  <1>3. ASSUME x + n > j * P  PROVE Page(x + n - 1) = j
    <2>1. j * P <= x + n - 1 /\ x + n - 1 < j * P + P
      BY <1>1, <1>3 DEF P
    <2> QED
      BY <1>1, <2>1, PageIs DEF P
  <1>4. ASSUME x - n >= i * P  PROVE Page(x - n) \in i .. j - 1
    <2>1. i * P <= x - n /\ x - n < j * P
      BY <1>1, <1>4 DEF P
    <2> QED
      BY <1>1, <2>1, PageBetween DEF P
  <1>5. ASSUME x + n <= j * P  PROVE Page(x + n - 1) \in i .. j - 1
    <2>1. i * P <= x + n - 1 /\ x + n - 1 < j * P
      BY <1>1, <1>5 DEF P
    <2> QED
      BY <1>1, <2>1, PageBetween DEF P
  <1> QED
    BY <1>2, <1>3, <1>4, <1>5 DEF P

(* The addresses that segv_handler compares with. *)
LEMMA Limits ==
  ASSUME NEW t \in Tasks, task[t] \in Made,
         NEW p \in Nat, NEW a \in Nat, NEW b \in Nat, NEW c \in Nat, NEW e \in Nat,
         LaidOut(task[t], p, a, b, c, e), LastPages(task[t], p, a, b, c, e)
  PROVE  /\ NEXTPAGE3(task[t].up) = (p + 2) * PageSize
         /\ NEXTPAGE(task[t].sp0) = a * PageSize /\ NEXTPAGE2(task[t].sp0) = (a + 1) * PageSize
         /\ NEXTPAGE(task[t].rp0) = b * PageSize /\ NEXTPAGE2(task[t].rp0) = (b + 1) * PageSize
         /\ NEXTPAGE(task[t].fp0) = c * PageSize /\ NEXTPAGE2(task[t].fp0) = (c + 1) * PageSize
         /\ NEXTPAGE(task[t].lp0) = e * PageSize
  <1> DEFINE k == task[t]
             P == PageSize
  <1>1. /\ P \in Nat \ {0} /\ k.up \in Int /\ k.sp0 \in Int /\ k.rp0 \in Int /\ k.fp0 \in Int
        /\ k.lp0 \in Int
    BY FaultsAssumption DEF Made
  <1>2. /\ (p + 2) * P = p * P + 2 * P /\ (a + 1) * P = a * P + P /\ (b + 1) * P = b * P + P
        /\ (c + 1) * P = c * P + P /\ p * P \in Int
    BY <1>1
  <1>3. NEXTPAGE(k.up) = p * P
    <2>1. k.up <= p * P /\ p * P < k.up + P
      BY <1>1, <1>2 DEF LaidOut
    <2> QED
      BY <1>1, <2>1, RoundUp
  <1>4. NEXTPAGE(k.sp0) = a * P
    BY <1>1, RoundUp DEF LastPages
  <1>5. NEXTPAGE(k.rp0) = b * P
    BY <1>1, RoundUp DEF LastPages, LaidOut
  <1>6. NEXTPAGE(k.fp0) = c * P
    BY <1>1, RoundUp DEF LastPages
  <1>7. NEXTPAGE(k.lp0) = e * P
    BY <1>1, RoundUp DEF LaidOut
  <1> QED
    BY <1>1, <1>2, <1>3, <1>4, <1>5, <1>6, <1>7 DEF NEXTPAGE2, NEXTPAGE3

(* segv_handler blames the right stack. *)
Blames(t, p, a, b, c, e) ==
  \A g, x \in Int, s \in Stacks, d \in Direction :
    /\ x - g \notin 0 .. PageSize - 1
    /\ d = "push" => /\ LowPage(s, p, a, b, c) * PageSize - MaxAccess <= x
                     /\ x < LowPage(s, p, a, b, c) * PageSize
    /\ d = "pop"  => /\ HighPage(s, a, b, c, e) * PageSize <= x
                     /\ x < HighPage(s, a, b, c, e) * PageSize + MaxAccess
    => segv_handler(task[t], g, x) = Reported[s][d]

LEMMA CodeIs ==
  ASSUME NEW t \in Tasks, task[t] \in Made,
         NEW p \in Nat, NEW a \in Nat, NEW b \in Nat, NEW c \in Nat, NEW e \in Nat,
         LaidOut(task[t], p, a, b, c, e), LastPages(task[t], p, a, b, c, e)
  PROVE  Blames(t, p, a, b, c, e)
  <1> SUFFICES ASSUME NEW g \in Int, NEW x \in Int, x - g \notin 0 .. PageSize - 1,
                      NEW s \in Stacks, NEW d \in Direction,
                      d = "push" => /\ LowPage(s, p, a, b, c) * PageSize - MaxAccess <= x
                                    /\ x < LowPage(s, p, a, b, c) * PageSize,
                      d = "pop"  => /\ HighPage(s, a, b, c, e) * PageSize <= x
                                    /\ x < HighPage(s, a, b, c, e) * PageSize + MaxAccess
               PROVE  segv_handler(task[t], g, x) = Reported[s][d]
    BY DEF Blames
  <1> DEFINE k == task[t]
             P == PageSize
             l0 == (p + 2) * P
             h0 == a * P
             h1 == b * P
             h2 == c * P
             h3 == e * P
             S  == SPILLAGE
  <1>1. /\ P \in Nat \ {0} /\ S \in Nat \ {0} /\ 2 * S <= P /\ MaxAccess \in 1 .. S
    BY FaultsAssumption
  <1>2. /\ (a + 1) * P = h0 + P /\ (b + 1) * P = h1 + P /\ (c + 1) * P = h2 + P
        /\ l0 \in Int /\ h0 \in Int /\ h1 \in Int /\ h2 \in Int /\ h3 \in Int
    BY <1>1
  <1>3. /\ NEXTPAGE3(k.up) = l0
        /\ NEXTPAGE(k.sp0) = h0 /\ NEXTPAGE2(k.sp0) = h0 + P
        /\ NEXTPAGE(k.rp0) = h1 /\ NEXTPAGE2(k.rp0) = h1 + P
        /\ NEXTPAGE(k.fp0) = h2 /\ NEXTPAGE2(k.fp0) = h2 + P
        /\ NEXTPAGE(k.lp0) = h3
    BY <1>2, Limits, SMTT(20)
  <1>4. l0 <= h0 /\ h0 + P <= h1 /\ h1 + P <= h2 /\ h2 + P <= h3
    <2>1. /\ k.sp0 \in Int /\ k.rp0 \in Int /\ k.fp0 \in Int /\ k.lp0 \in Int
      BY DEF Made
    <2> QED
      BY <1>1, <1>2, <2>1 DEF LaidOut, LastPages
  <1>5. ~(x - g \in 0 .. PageSize - 1)
    OBVIOUS
  <1> HIDE DEF l0, h0, h1, h2, h3
  <1>6. segv_handler(k, g, x) =
          IF l0 - 1 - x \in 0 .. S - 1 THEN -3
          ELSE IF x - h0 \in 0 .. S - 1 THEN -4
          ELSE IF h0 + P - 1 - x \in 0 .. S - 1 THEN -5
          ELSE IF x - h1 \in 0 .. S - 1 THEN -6
          ELSE IF h1 + P - 1 - x \in 0 .. S - 1 THEN -44
          ELSE IF x - h2 \in 0 .. S - 1 THEN -45
          ELSE IF h2 + P - 1 - x \in 0 .. S - 1 THEN -2058
          ELSE IF x - h3 \in 0 .. S - 1 THEN -2059 ELSE -9
    <2>1. /\ JUSTUNDER(x, NEXTPAGE3(k.up)) <=> l0 - 1 - x \in 0 .. S - 1
          /\ JUSTOVER(x, NEXTPAGE(k.sp0)) <=> x - h0 \in 0 .. S - 1
          /\ JUSTUNDER(x, NEXTPAGE2(k.sp0)) <=> h0 + P - 1 - x \in 0 .. S - 1
          /\ JUSTOVER(x, NEXTPAGE(k.rp0)) <=> x - h1 \in 0 .. S - 1
          /\ JUSTUNDER(x, NEXTPAGE2(k.rp0)) <=> h1 + P - 1 - x \in 0 .. S - 1
          /\ JUSTOVER(x, NEXTPAGE(k.fp0)) <=> x - h2 \in 0 .. S - 1
          /\ JUSTUNDER(x, NEXTPAGE2(k.fp0)) <=> h2 + P - 1 - x \in 0 .. S - 1
          /\ JUSTOVER(x, NEXTPAGE(k.lp0)) <=> x - h3 \in 0 .. S - 1
      BY <1>1, <1>2, <1>3 DEF JUSTUNDER, JUSTOVER
    <2> QED
      BY <1>5, <2>1 DEF segv_handler
  <1> HIDE DEF P, S
  <1>7. CASE s = "sp"
    <2>1. CASE d = "push"
      <3>1. l0 - MaxAccess <= x /\ x < l0 /\ Reported[s][d] = -3
        BY <1>7, <2>1 DEF LowPage, l0, P, Reported
      <3> QED
        BY <1>1, <1>2, <1>6, <3>1
    <2>2. CASE d = "pop"
      <3>1. h0 <= x /\ x < h0 + MaxAccess /\ Reported[s][d] = -4
        BY <1>7, <2>2 DEF HighPage, h0, P, Reported
      <3> QED
        BY <1>1, <1>2, <1>4, <1>6, <3>1
    <2> QED
      BY <2>1, <2>2 DEF Direction
  <1>8. CASE s = "rp"
    <2>1. CASE d = "push"
      <3>1. h0 + P - MaxAccess <= x /\ x < h0 + P /\ Reported[s][d] = -5
        <4>1. LowPage(s, p, a, b, c) * PageSize = h0 + P
          BY <1>2, <1>8 DEF LowPage, P
        <4> QED
          BY <1>1, <1>2, <1>8, <2>1, <4>1 DEF Reported
      <3> QED
        BY <1>1, <1>2, <1>4, <1>6, <3>1
    <2>2. CASE d = "pop"
      <3>1. h1 <= x /\ x < h1 + MaxAccess /\ Reported[s][d] = -6
        BY <1>8, <2>2 DEF HighPage, h1, P, Reported
      <3> QED
        BY <1>1, <1>2, <1>4, <1>6, <3>1
    <2> QED
      BY <2>1, <2>2 DEF Direction
  <1>9. CASE s = "fp"
    <2>1. CASE d = "push"
      <3>1. h1 + P - MaxAccess <= x /\ x < h1 + P /\ Reported[s][d] = -44
        <4>1. LowPage(s, p, a, b, c) * PageSize = h1 + P
          BY <1>2, <1>9 DEF LowPage, P
        <4> QED
          BY <1>1, <1>2, <1>9, <2>1, <4>1 DEF Reported
      <3> QED
        BY <1>1, <1>2, <1>4, <1>6, <3>1
    <2>2. CASE d = "pop"
      <3>1. h2 <= x /\ x < h2 + MaxAccess /\ Reported[s][d] = -45
        BY <1>9, <2>2 DEF HighPage, h2, P, Reported
      <3> QED
        BY <1>1, <1>2, <1>4, <1>6, <3>1
    <2> QED
      BY <2>1, <2>2 DEF Direction
  <1>10. CASE s = "lp"
    <2>1. CASE d = "push"
      <3>1. h2 + P - MaxAccess <= x /\ x < h2 + P /\ Reported[s][d] = -2058
        <4>1. LowPage(s, p, a, b, c) * PageSize = h2 + P
          BY <1>2, <1>10 DEF LowPage, P
        <4> QED
          BY <1>1, <1>2, <1>10, <2>1, <4>1 DEF Reported
      <3> QED
        BY <1>1, <1>2, <1>4, <1>6, <3>1
    <2>2. CASE d = "pop"
      <3>1. h3 <= x /\ x < h3 + MaxAccess /\ Reported[s][d] = -2059
        BY <1>10, <2>2 DEF HighPage, h3, P, Reported
      <3> QED
        BY <1>1, <1>2, <1>4, <1>6, <3>1
    <2> QED
      BY <2>1, <2>2 DEF Direction
  <1> QED
    BY <1>7, <1>8, <1>9, <1>10 DEF Stacks


LEMMA InsideAt ==
  ASSUME NEW r \in Running, NEW p \in Nat, NEW a \in Nat, NEW b \in Nat, NEW c \in Nat, NEW e \in Nat,
         Inside(r, p, a, b, c, e), NEW s \in Stacks
  PROVE  /\ r[s] \in Int
         /\ LowPage(s, p, a, b, c) * PageSize <= r[s] /\ r[s] <= HighPage(s, a, b, c, e) * PageSize
         /\ \A q \in Int :
              LowPage(s, p, a, b, c) * PageSize <= q /\ q <= HighPage(s, a, b, c, e) * PageSize
                => Inside([r EXCEPT ![s] = q], p, a, b, c, e)
  <1>1. CASE s = "sp"
    BY <1>1 DEF Running, Inside, LowPage, HighPage
  <1>2. CASE s = "rp"
    BY <1>2 DEF Running, Inside, LowPage, HighPage
  <1>3. CASE s = "fp"
    BY <1>3 DEF Running, Inside, LowPage, HighPage
  <1>4. CASE s = "lp"
    BY <1>4 DEF Running, Inside, LowPage, HighPage
  <1> QED
    BY <1>1, <1>2, <1>3, <1>4 DEF Stacks

(* A stack lies between two guards. *)
Between(i, j) ==
  /\ i \in Nat /\ j \in Nat /\ i - 1 # 2 /\ j # 2
  /\ mem[i - 1] = "none" /\ mem[j] = "none"
  /\ \A q \in i .. j - 1 : mem[q] = "rw"

LEMMA Guarded ==
  ASSUME NEW t \in Tasks,
         NEW p \in Nat, NEW a \in Nat, NEW b \in Nat, NEW c \in Nat, NEW e \in Nat,
         LaidOut(task[t], p, a, b, c, e), Held(task[t], p, a, b, c, e), task[t].guards # {},
         NEW s \in Stacks
  PROVE  Between(LowPage(s, p, a, b, c), HighPage(s, a, b, c, e))
  <1>0. SigPages \in Nat /\ p + 2 <= a /\ a + 1 <= b /\ b + 1 <= c /\ c + 1 <= e
    BY SigPagesOf DEF LaidOut
  <1>1. \A q \in p .. e : /\ q # 2
                          /\ q \in {p + 1, a, b, c, e} => mem[q] = "none"
                          /\ q \notin {p + 1, a, b, c, e} => mem[q] = "rw"
    BY <1>0 DEF Held
  <1>2. CASE s = "sp"
    BY <1>0, <1>1, <1>2 DEF LowPage, HighPage, Between
  <1>3. CASE s = "rp"
    BY <1>0, <1>1, <1>3 DEF LowPage, HighPage, Between
  <1>4. CASE s = "fp"
    BY <1>0, <1>1, <1>4 DEF LowPage, HighPage, Between
  <1>5. CASE s = "lp"
    BY <1>0, <1>1, <1>5 DEF LowPage, HighPage, Between
  <1> QED
    BY <1>2, <1>3, <1>4, <1>5 DEF Stacks

(* Where an access goes: the pointer stays within its stack, or the fault  *)
(* is reported as what it is.                                              *)
Lands(t, s, d, n, p, a, b, c, e) ==
  LET q == IF d = "push" THEN ptr[t][s] - n ELSE ptr[t][s] + n
      x == IF d = "push" THEN q ELSE q - 1
  IN  /\ mem[Page(x)] = "rw" => Inside([ptr[t] EXCEPT ![s] = q], p, a, b, c, e)
      /\ mem[Page(x)] # "rw" => segv_handler(task[t], dictguard, x) = Reported[s][d]

LEMMA AccessAt ==
  ASSUME Types, Living, Roomy, NEW t \in Tasks,
         NEW p \in Nat, NEW a \in Nat, NEW b \in Nat, NEW c \in Nat, NEW e \in Nat,
         Shape(t, p, a, b, c, e),
         NEW s \in Stacks, NEW d \in Direction, NEW n \in 1 .. MaxAccess, Access(t, s, d, n)
  PROVE  Lands(t, s, d, n, p, a, b, c, e)
  <1> DEFINE i == LowPage(s, p, a, b, c)
             j == HighPage(s, a, b, c, e)
             v == ptr[t][s]
             P == PageSize
  <1>0. P \in Nat \ {0} /\ dictguard = 2 * P /\ n \in Nat /\ n >= 1 /\ n <= MaxAccess /\ MaxAccess \in Nat
    BY FaultsAssumption, SMTT(20) DEF Types
  <1>1. ptr[t].state = "run" /\ task[t].state = "made" /\ task[t].guards # {}
    BY DEF Access, Living
  <1>2. ptr[t] \in Running /\ task[t] \in Made
    BY <1>1 DEF Types, None
  <1>3. LaidOut(task[t], p, a, b, c, e) /\ Held(task[t], p, a, b, c, e)
        /\ LastPages(task[t], p, a, b, c, e) /\ Inside(ptr[t], p, a, b, c, e)
    BY <1>1 DEF Shape
  <1>4. /\ v \in Int /\ i * P <= v /\ v <= j * P
        /\ \A q \in Int : i * P <= q /\ q <= j * P => Inside([ptr[t] EXCEPT ![s] = q], p, a, b, c, e)
    BY <1>2, <1>3, InsideAt
  <1>5. Between(i, j)
    BY <1>1, <1>3, Guarded
  <1> HIDE DEF i, j, v, P
  <1>6. /\ v - n < i * P => Page(v - n) = i - 1
        /\ v + n > j * P => Page(v + n - 1) = j
        /\ v - n >= i * P => Page(v - n) \in i .. j - 1
        /\ v + n <= j * P => Page(v + n - 1) \in i .. j - 1
    BY <1>4, <1>5, Leaving DEF P, Between
  <1>7. i * P \in Int /\ j * P \in Int
    BY <1>0, <1>5 DEF Between
  <1>8. ASSUME NEW x \in Int, Page(x) # 2  PROVE x - dictguard \notin 0 .. PageSize - 1
    <2> SUFFICES ASSUME x - 2 * P \in 0 .. P - 1 PROVE FALSE
      BY <1>0 DEF P
    <2>1. 2 * P <= x /\ x < 2 * P + P
      BY <1>0
    <2> QED
      BY <1>0, <1>8, <2>1, PageIs DEF P
  <1> DEFINE q == IF d = "push" THEN ptr[t][s] - n ELSE ptr[t][s] + n
             x == IF d = "push" THEN q ELSE q - 1
  <1>9. /\ d = "push" => q = v - n /\ x = v - n
        /\ d = "pop" => q = v + n /\ x = v + n - 1
        /\ d = "push" \/ d = "pop"
    <2>1. d = "push" => q = v - n /\ x = v - n
      BY DEF v
    <2>2. d = "pop" => q = v + n /\ x = q - 1
      BY DEF v
    <2> HIDE DEF q, x
    <2> QED
      BY <1>0, <1>4, <2>1, <2>2 DEF Direction
  <1> HIDE DEF q, x
  <1>10. CASE (d = "push" /\ v - n >= i * P) \/ (d = "pop" /\ v + n <= j * P)
    <2>1. mem[Page(x)] = "rw"
      BY <1>5, <1>6, <1>9, <1>10 DEF Between
    <2>2. q \in Int /\ i * P <= q /\ q <= j * P
      BY <1>0, <1>4, <1>7, <1>9, <1>10
    <2>3. Inside([ptr[t] EXCEPT ![s] = q], p, a, b, c, e)
      BY <1>4, <2>2
    <2> QED
      BY <2>1, <2>3 DEF q, x, Lands
  <1>11. CASE (d = "push" /\ v - n < i * P) \/ (d = "pop" /\ v + n > j * P)
    <2>1. Page(x) # 2 /\ mem[Page(x)] = "none" /\ x \in Int
      BY <1>0, <1>4, <1>5, <1>6, <1>9, <1>11 DEF Between
    <2>2. x - dictguard \notin 0 .. PageSize - 1 /\ dictguard \in Int
      BY <1>0, <1>8, <2>1
    <2>3. d = "push" => i * P - MaxAccess <= x /\ x < i * P
      BY <1>0, <1>4, <1>7, <1>9, <1>11
    <2>4. d = "pop" => j * P <= x /\ x < j * P + MaxAccess
      BY <1>0, <1>4, <1>7, <1>9, <1>11
    <2>5. segv_handler(task[t], dictguard, x) = Reported[s][d]
      <3>0. PICK y \in Int, g \in Int : y = x /\ g = dictguard
        BY <2>1, <2>2
      <3>1. d = "push" => /\ LowPage(s, p, a, b, c) * PageSize - MaxAccess <= y
                          /\ y < LowPage(s, p, a, b, c) * PageSize
        BY <2>3, <3>0 DEF i, P
      <3>2. d = "pop" => /\ HighPage(s, a, b, c, e) * PageSize <= y
                         /\ y < HighPage(s, a, b, c, e) * PageSize + MaxAccess
        BY <2>4, <3>0 DEF j, P
      <3>3. y - g \notin 0 .. PageSize - 1
        BY <2>2, <3>0
      <3>4. Blames(t, p, a, b, c, e)
        BY <1>2, <1>3, CodeIs
      <3>5. segv_handler(task[t], g, y) = Reported[s][d]
        BY <3>1, <3>2, <3>3, <3>4 DEF Blames
      <3> QED
        BY <3>0, <3>5
    <2> QED
      BY <2>1, <2>5 DEF q, x, Lands
  <1> QED
    BY <1>0, <1>4, <1>7, <1>9, <1>10, <1>11


-----------------------------------------------------------------------------
(* Shaped and FreedExactly are kept. *)

LEMMA OthersKept ==
  ASSUME Types, Shaped, NEW u \in Tasks, task[u].state # "none",
         engine' = engine, task'[u] = task[u], ptr'[u] = ptr[u],
         \A q \in Owned(u) : mem'[q] = mem[q]
  PROVE  \E p, a, b, c, e \in Nat : Shape(u, p, a, b, c, e)'
  <1>1. PICK p, a, b, c, e \in Nat : Shape(u, p, a, b, c, e)
    BY DEF Shaped
  <1>2. LaidOut(task[u], p, a, b, c, e)
    BY <1>1 DEF Shape
  <1>3. Owned(u) = p .. e + 2 * SigPages
    BY <1>2, OwnedIs DEF OwnedFrom
  <1>4. Shape(u, p, a, b, c, e)'
    BY <1>1, <1>3, ShapeKept
  <1> QED
    BY <1>4

(* What gforth_free_stacks unmaps. *)
LEMMA FreedPages ==
  ASSUME NEW t \in Tasks, task[t] \in Made,
         NEW p \in Nat, NEW a \in Nat, NEW b \in Nat, NEW c \in Nat, NEW e \in Nat,
         LaidOut(task[t], p, a, b, c, e)
  PROVE  FreeSize(task[t]) = task[t].total /\ Pages(task[t].up, FreeSize(task[t])) = Owned(t)
  <1> DEFINE x == task[t].lp0 + PageSize - task[t].up
             i == e + 1 - p
  <1>1. /\ PageSize \in Nat \ {0} /\ task[t].lp0 \in Int /\ task[t].up = p * PageSize
        /\ p * PageSize \in Int /\ e * PageSize \in Int
        /\ task[t].lp0 <= e * PageSize /\ e * PageSize < task[t].lp0 + PageSize
        /\ i * PageSize = e * PageSize + PageSize - p * PageSize
    BY FaultsAssumption DEF Made, LaidOut
  <1>2. x \in Int /\ i \in Int /\ x <= i * PageSize /\ i * PageSize < x + PageSize
    BY <1>1
  <1> HIDE DEF x, i
  <1>3. wholepage(x) = i * PageSize
    <2>1. PICK y \in Int : y = x
      BY <1>2
    <2> QED
      BY <1>2, <2>1, RoundUp
  <1>4. FreeSize(task[t]) = task[t].total
    BY <1>3 DEF FreeSize, LaidOut, x, i
  <1>5. task[t].state # "none"
    BY DEF Made
  <1> QED
    BY <1>4, <1>5 DEF Owned

(* The pages of a task are not free. *)
LEMMA OwnedNotFree ==
  ASSUME Types, FreedExactly, NEW u \in Tasks, NEW q \in Owned(u)
  PROVE  q \in 0 .. MemPages - 1 /\ mem[q] # "free"
  BY DEF FreedExactly, Types

LEMMA NewTaskKeeps ==
  ASSUME Types, Living, Shaped, FreedExactly, NEW t \in Tasks, NEW z \in Sizes,
         newtask4(t, z[1], z[2], z[3], z[4])
  PROVE  Shaped' /\ FreedExactly'
  <1>0. task[t].state = "none" /\ UNCHANGED <<engine, ptr, sigstack, caught, dictguard>>
    BY DEF newtask4
  <1>1. PICK p \in Places : \E k \in Made : Mapped(t, z, p, k) /\ k.state = "made"
    BY NewTask
  <1>2. PICK k \in Made : Mapped(t, z, p, k) /\ k.state = "made"
    BY <1>1
  <1>3. p \in Nat /\ ptr[t].state = "none"
    BY <1>0, FaultsAssumption DEF Living, Types, None, Running
  <1>4. PICK a, b, c, e \in Nat :
           /\ Shape(t, p, a, b, c, e)'
           /\ \A q \in 0 .. MemPages - 1 :
                mem'[q] = IF q \in p .. e + 2 * SigPages THEN mem'[q] ELSE mem[q]
           /\ \A q \in p .. e + 2 * SigPages : q \in 0 .. MemPages - 1 /\ mem[q] = "free"
           /\ LaidOut(k, p, a, b, c, e)
    BY <1>0, <1>2, <1>3, NewShape
  <1>5. task' = [task EXCEPT ![t] = k]
    BY <1>2 DEF Mapped
  <1>6. task'[t] = k /\ \A u \in Tasks : u # t => task'[u] = task[u]
    BY <1>5 DEF Types
  <1> DEFINE mine == p .. e + 2 * SigPages
  <1>7. Owned(t)' = mine
    <2>1. task'[t].state # "none" /\ LaidOut(task[t], p, a, b, c, e)'
      BY <1>2, <1>4, <1>6 DEF Shape
    <2> DEFINE m == e + 1 - p + 2 * SigPages
    <2>2. m \in Nat \ {0} /\ p + m - 1 = e + 2 * SigPages
      BY <1>3, <2>1, SigPagesOf DEF LaidOut
    <2>3. task'[t].up = p * PageSize /\ task'[t].total = m * PageSize
      <3>1. /\ task'[t].up = p * PageSize
            /\ task'[t].total = (e + 1 - p) * PageSize + 2 * (SigPages * PageSize)
        BY <2>1, SigPagesOf DEF LaidOut
      <3> QED
        BY <1>3, <3>1, SigPagesOf, FaultsAssumption
    <2> HIDE DEF m
    <2>4. Pages(p * PageSize, m * PageSize) = p .. p + m - 1
      BY <1>3, <2>2, PagesOf
    <2> QED
      BY <2>1, <2>2, <2>3, <2>4 DEF Owned
  <1>8. Owned(t) = {} /\ \A u \in Tasks : u # t => Owned(u)' = Owned(u)
    BY <1>0, <1>6 DEF Owned
  <1> HIDE DEF mine
  <1>9. \A u \in Tasks : Owned(u) \cap mine = {}
    BY <1>4, OwnedNotFree DEF mine
  <1>10. Shaped'
    <2> SUFFICES ASSUME NEW u \in Tasks, task'[u].state # "none"
                 PROVE  \E i, j, k1, l, m \in Nat : Shape(u, i, j, k1, l, m)'
      BY DEF Shaped
    <2>1. CASE u = t
      BY <1>3, <1>4, <2>1
    <2>2. CASE u # t
      <3>1. \A q \in Owned(u) : mem'[q] = mem[q]
        BY <1>4, <1>9, OwnedNotFree DEF mine
      <3> QED
        BY <1>0, <1>6, <2>2, <3>1, OthersKept
    <2> QED
      BY <2>1, <2>2
  <1>11. \A q \in mine : q \in 0 .. MemPages - 1 /\ mem'[q] # "free" /\ q # 1 /\ q # 2
    BY <1>4 DEF mine, Shape, Held
  <1>12. DOMAIN mem = 0 .. MemPages - 1 /\ DOMAIN mem' = 0 .. MemPages - 1
    BY <1>2 DEF Mapped, Types
  <1>13. \A q \in 0 .. MemPages - 1 : q \notin mine => mem'[q] = mem[q]
    BY <1>4 DEF mine
  <1>14. {q \in DOMAIN mem' : mem'[q] # "free"} = {q \in DOMAIN mem : mem[q] # "free"} \cup mine
    BY <1>4, <1>11, <1>12, <1>13 DEF mine
  <1>15. \A q : (\E u \in Tasks : q \in Owned(u)') <=> (\E u \in Tasks : q \in Owned(u)) \/ q \in mine
    BY <1>7, <1>8, Zenon
  <1>16. \A u, v \in Tasks : u # v => Owned(u)' \cap Owned(v)' = {}
    BY <1>7, <1>8, <1>9 DEF FreedExactly
  <1>17. \A q : q \in {r \in DOMAIN mem : mem[r] # "free"}
                  <=> q \in {1, 2} \/ \E u \in Tasks : q \in Owned(u)
    <2>1. {r \in DOMAIN mem : mem[r] # "free"} = {1, 2} \cup UNION {Owned(u) : u \in Tasks}
      BY Zenon DEF FreedExactly
    <2> QED
      BY <2>1, Zenon
  <1>18. \A q : q \in {r \in DOMAIN mem' : mem'[r] # "free"}
                  <=> q \in {1, 2} \/ \E u \in Tasks : q \in Owned(u)'
    BY <1>14, <1>15, <1>17, Zenon
  <1>19. FreedExactly'
    <2>1. {r \in DOMAIN mem' : mem'[r] # "free"} = {1, 2} \cup UNION {Owned(u)' : u \in Tasks}
      BY <1>18
    <2> QED
      BY <1>16, <2>1, Zenon DEF FreedExactly
  <1> QED
    BY <1>10, <1>19


LEMMA FreedSame ==
  ASSUME FreedExactly, mem' = mem, \A u \in Tasks : Owned(u)' = Owned(u)
  PROVE  FreedExactly'
  <1>1. {r \in DOMAIN mem : mem[r] # "free"} = {1, 2} \cup UNION {Owned(u) : u \in Tasks}
    BY Zenon DEF FreedExactly
  <1>2. UNION {Owned(u)' : u \in Tasks} = UNION {Owned(u) : u \in Tasks}
    <2>1. \A q : (\E u \in Tasks : q \in Owned(u)') <=> (\E u \in Tasks : q \in Owned(u))
      BY Zenon
    <2> QED
      BY <2>1
  <1>3. {r \in DOMAIN mem' : mem'[r] # "free"} = {1, 2} \cup UNION {Owned(u)' : u \in Tasks}
    BY <1>1, <1>2, Zenon
  <1>4. \A u, v \in Tasks : u # v => Owned(u)' \cap Owned(v)' = {}
    BY Zenon DEF FreedExactly
  <1> QED
    BY <1>3, <1>4, Zenon DEF FreedExactly

LEMMA ThreadKeeps ==
  ASSUME Types, Types', Living, Shaped, FreedExactly, NEW t \in Tasks, gforth_thread(t)
  PROVE  Shaped' /\ FreedExactly'
  <1> DEFINE k == [task[t] EXCEPT !.rp0 = @ - 1]
  <1>1. /\ task[t].state = "made" /\ ptr[t].state = "none"
        /\ task' = [task EXCEPT ![t] = k] /\ ptr' = [ptr EXCEPT ![t] = gforth_setstacks(k)]
        /\ UNCHANGED <<engine, mem>>
    BY DEF gforth_thread
  <1>2. task[t] \in Made /\ PageSize \in Nat \ {0}
    BY <1>1, FaultsAssumption DEF Types, None
  <1>3. /\ k.state = "made" /\ k.up = task[t].up /\ k.total = task[t].total
        /\ k.guards = task[t].guards /\ k.lp0 = task[t].lp0 /\ k.sp0 = task[t].sp0
        /\ k.fp0 = task[t].fp0 /\ k.rp0 = task[t].rp0 - 1
        /\ k.rp0 \in Int /\ task[t].rp0 \in Int /\ k.sp0 \in Int /\ k.fp0 \in Int /\ k.lp0 \in Int
    BY <1>1, <1>2 DEF Made
  <1> HIDE DEF k
  <1>4. /\ task'[t] = k /\ ptr'[t] = gforth_setstacks(k) /\ ptr'[t].state = "run"
        /\ \A u \in Tasks : u # t => task'[u] = task[u] /\ ptr'[u] = ptr[u]
    BY <1>1 DEF Types, gforth_setstacks
  <1>5. \A u \in Tasks : Owned(u)' = Owned(u)
    BY <1>1, <1>3, <1>4 DEF Owned
  <1>6. PICK p, a, b, c, e \in Nat : Shape(t, p, a, b, c, e)
    BY <1>1 DEF Shaped
  <1>7. LaidOut(task[t], p, a, b, c, e) /\ Held(task[t], p, a, b, c, e)
    BY <1>6 DEF Shape
  <1>8. LaidOut(task[t], p, a, b, c, e)'
    <2>1. k.rp0 <= b * PageSize
      BY <1>2, <1>3, <1>7 DEF LaidOut
    <2> QED
      BY <1>1, <1>3, <1>4, <1>7, <2>1 DEF LaidOut
  <1>9. Held(task[t], p, a, b, c, e)'
    BY <1>1, <1>3, <1>4, <1>7 DEF Held
  <1>10. Roomy /\ k.guards # {} => LastPages(k, p, a, b, c, e)
    BY <1>1, <1>3, <1>6 DEF Shape, k
  <1>11. Roomy /\ k.guards # {} => Inside(gforth_setstacks(k), p, a, b, c, e)
    <2> SUFFICES ASSUME LastPages(k, p, a, b, c, e)
                 PROVE  Inside(gforth_setstacks(k), p, a, b, c, e)
      BY <1>10
    <2>1. k.rp0 <= b * PageSize /\ k.lp0 <= e * PageSize
      BY <1>2, <1>3, <1>7 DEF LaidOut
    <2>2. /\ (p + 2) * PageSize <= k.sp0 - 1 /\ k.sp0 - 1 <= a * PageSize
          /\ (a + 1) * PageSize <= k.rp0 /\ (b + 1) * PageSize <= k.fp0 /\ k.fp0 <= c * PageSize
          /\ (c + 1) * PageSize <= k.lp0
      BY <1>2, <1>3 DEF LastPages
    <2> QED
      BY <2>1, <2>2 DEF Inside, gforth_setstacks
  <1>12. /\ Roomy /\ task'[t].guards # {} => LastPages(task[t], p, a, b, c, e)'
         /\ Roomy /\ task'[t].guards # {} => Inside(ptr[t], p, a, b, c, e)'
    BY <1>4, <1>10, <1>11 DEF LastPages, Inside
  <1>13. Shape(t, p, a, b, c, e)'
    BY <1>4, <1>8, <1>9, <1>12 DEF Shape
  <1>14. Shaped'
    <2> SUFFICES ASSUME NEW u \in Tasks, task'[u].state # "none"
                 PROVE  \E i, j, k1, l, m \in Nat : Shape(u, i, j, k1, l, m)'
      BY DEF Shaped
    <2>1. CASE u = t
      BY <1>13, <2>1
    <2>2. CASE u # t
      BY <1>1, <1>4, <2>2, OthersKept
    <2> QED
      BY <2>1, <2>2
  <1> QED
    BY <1>1, <1>5, <1>14, FreedSame

LEMMA AccessKeeps ==
  ASSUME Types, Types', Living, Shaped, FreedExactly, NEW t \in Tasks,
         NEW s \in Stacks, NEW d \in Direction, NEW n \in 1 .. MaxAccess, Access(t, s, d, n)
  PROVE  Shaped' /\ FreedExactly'
  <1> DEFINE q == IF d = "push" THEN ptr[t][s] - n ELSE ptr[t][s] + n
             x == IF d = "push" THEN q ELSE q - 1
  <1>1. ptr[t].state = "run" /\ task[t].state = "made" /\ UNCHANGED <<engine, mem, task>>
    BY DEF Access, Living
  <1>2. \A u \in Tasks : Owned(u)' = Owned(u)
    BY <1>1 DEF Owned
  <1>3. \/ mem[Page(x)] = "rw" /\ ptr' = [ptr EXCEPT ![t][s] = q]
        \/ ptr' = ptr
    BY DEF Access
  <1>4. PICK p, a, b, c, e \in Nat : Shape(t, p, a, b, c, e)
    BY <1>1 DEF Shaped
  <1>5. Roomy /\ mem[Page(x)] = "rw" => Inside([ptr[t] EXCEPT ![s] = q], p, a, b, c, e)
    BY <1>4, AccessAt DEF Lands
  <1> HIDE DEF q, x
  <1>6. Shape(t, p, a, b, c, e)'
    <2>1. CASE ptr' = ptr
      BY <1>1, <1>4, <2>1, ShapeKept
    <2>2. CASE mem[Page(x)] = "rw" /\ ptr' = [ptr EXCEPT ![t][s] = q]
      <3>1. ptr'[t] = [ptr[t] EXCEPT ![s] = q]
        BY <2>2 DEF Types
      <3>2. ptr'[t].state = "run"
        <4>1. ptr[t] \in Running
          BY <1>1 DEF Types, None
        <4> QED
          BY <3>1, <4>1 DEF Running, Stacks
      <3>3. Roomy => Inside(ptr[t], p, a, b, c, e)'
        BY <1>5, <2>2, <3>1 DEF Inside
      <3>4. LaidOut(task[t], p, a, b, c, e)' /\ Held(task[t], p, a, b, c, e)'
        BY <1>1, <1>4 DEF Shape, LaidOut, Held
      <3>5. Roomy /\ task'[t].guards # {} => LastPages(task[t], p, a, b, c, e)'
        BY <1>1, <1>4 DEF Shape, LastPages
      <3> QED
        BY <3>2, <3>3, <3>4, <3>5 DEF Shape
    <2> QED
      BY <1>3, <2>1, <2>2
  <1>7. \A u \in Tasks : u # t => ptr'[u] = ptr[u]
    BY <1>3 DEF Types
  <1>8. Shaped'
    <2> SUFFICES ASSUME NEW u \in Tasks, task'[u].state # "none"
                 PROVE  \E i, j, k1, l, m \in Nat : Shape(u, i, j, k1, l, m)'
      BY DEF Shaped
    <2>1. CASE u = t
      BY <1>6, <2>1
    <2>2. CASE u # t
      BY <1>1, <1>7, <2>2, OthersKept
    <2> QED
      BY <2>1, <2>2
  <1> QED
    BY <1>1, <1>2, <1>8, FreedSame


LEMMA RecoverKeeps ==
  ASSUME Types, Types', Living, Shaped, FreedExactly, NEW t \in Tasks, Recover(t)
  PROVE  Shaped' /\ FreedExactly'
  <1> DEFINE k == task[t]
  <1>1. /\ ptr[t].state = "run" /\ task[t].state = "made" /\ UNCHANGED <<engine, mem, task>>
        /\ ptr' = [ptr EXCEPT ![t] = gforth_setstacks(k)]
    BY DEF Recover, Living
  <1>2. task[t] \in Made /\ PageSize \in Nat \ {0}
    BY <1>1, FaultsAssumption DEF Types, None
  <1>3. k.sp0 \in Int /\ k.rp0 \in Int /\ k.fp0 \in Int /\ k.lp0 \in Int
    BY <1>2 DEF Made
  <1>4. /\ ptr'[t] = gforth_setstacks(k) /\ ptr'[t].state = "run"
        /\ \A u \in Tasks : u # t => ptr'[u] = ptr[u]
    BY <1>1 DEF Types, gforth_setstacks
  <1>5. \A u \in Tasks : Owned(u)' = Owned(u)
    BY <1>1 DEF Owned
  <1>6. PICK p, a, b, c, e \in Nat : Shape(t, p, a, b, c, e)
    BY <1>1 DEF Shaped
  <1>7. Roomy /\ k.guards # {} => Inside(gforth_setstacks(k), p, a, b, c, e)
    <2> SUFFICES ASSUME LastPages(k, p, a, b, c, e)
                 PROVE  Inside(gforth_setstacks(k), p, a, b, c, e)
      BY <1>1, <1>6 DEF Shape
    <2>1. k.rp0 <= b * PageSize /\ k.lp0 <= e * PageSize
      BY <1>6 DEF Shape, LaidOut
    <2>2. /\ (p + 2) * PageSize <= k.sp0 - 1 /\ k.sp0 - 1 <= a * PageSize
          /\ (a + 1) * PageSize <= k.rp0 /\ (b + 1) * PageSize <= k.fp0 /\ k.fp0 <= c * PageSize
          /\ (c + 1) * PageSize <= k.lp0
      BY <1>2, <1>3 DEF LastPages
    <2> QED
      BY <2>1, <2>2 DEF Inside, gforth_setstacks
  <1>8. LaidOut(task[t], p, a, b, c, e)' /\ Held(task[t], p, a, b, c, e)'
    BY <1>1, <1>6 DEF Shape, LaidOut, Held
  <1>9. /\ Roomy /\ task'[t].guards # {} => LastPages(task[t], p, a, b, c, e)'
        /\ Roomy /\ task'[t].guards # {} => Inside(ptr[t], p, a, b, c, e)'
    BY <1>1, <1>4, <1>6, <1>7 DEF Shape, LastPages, Inside
  <1>10. Shape(t, p, a, b, c, e)'
    BY <1>4, <1>8, <1>9 DEF Shape
  <1>11. Shaped'
    <2> SUFFICES ASSUME NEW u \in Tasks, task'[u].state # "none"
                 PROVE  \E i, j, k1, l, m \in Nat : Shape(u, i, j, k1, l, m)'
      BY DEF Shaped
    <2>1. CASE u = t
      BY <1>10, <2>1
    <2>2. CASE u # t
      BY <1>1, <1>4, <2>2, OthersKept
    <2> QED
      BY <2>1, <2>2
  <1> QED
    BY <1>1, <1>5, <1>11, FreedSame

(* All but caught is unchanged. *)
LEMMA StillKeeps ==
  ASSUME Types, Shaped, FreedExactly, UNCHANGED <<engine, mem, task, ptr>>
  PROVE  Shaped' /\ FreedExactly'
  <1>1. \A u \in Tasks : Owned(u)' = Owned(u)
    BY DEF Owned
  <1>2. Shaped'
    <2> SUFFICES ASSUME NEW u \in Tasks, task'[u].state # "none"
                 PROVE  \E i, j, k1, l, m \in Nat : Shape(u, i, j, k1, l, m)'
      BY DEF Shaped
    <2> QED
      BY OthersKept
  <1> QED
    BY <1>1, <1>2, FreedSame

LEMMA FreeKeeps ==
  ASSUME Types, Types', Living, Shaped, FreedExactly, NEW t \in Tasks, gforth_free_stacks(t)
  PROVE  Shaped' /\ FreedExactly'
  <1>1. /\ ptr[t].state = "run" /\ task[t].state = "made" /\ engine' = engine
        /\ ptr' = [ptr EXCEPT ![t] = None]
    BY DEF gforth_free_stacks, Living
  <1>2. task[t] \in Made
    BY <1>1 DEF Types, None
  <1>3. PICK p, a, b, c, e \in Nat : Shape(t, p, a, b, c, e)
    BY <1>1 DEF Shaped
  <1>4. Pages(task[t].up, FreeSize(task[t])) = Owned(t)
    BY <1>2, <1>3, FreedPages DEF Shape
  <1>5. \A u \in Tasks : u # t => task'[u] = task[u] /\ ptr'[u] = ptr[u] /\ Owned(u)' = Owned(u)
    BY <1>1 DEF gforth_free_stacks, Types, Owned
  <1>6. CASE task[t].guards = {}
    <2>1. mem' = mem /\ task'[t] = [task[t] EXCEPT !.state = "lost"]
      BY <1>6 DEF gforth_free_stacks, Types
    <2>2. /\ task'[t].state = "lost" /\ task'[t].up = task[t].up /\ task'[t].total = task[t].total
          /\ task'[t].guards = {} /\ task'[t].rp0 = task[t].rp0 /\ task'[t].lp0 = task[t].lp0
          /\ task'[t].sp0 = task[t].sp0
      BY <1>2, <1>6, <2>1 DEF Made
    <2>3. LaidOut(task[t], p, a, b, c, e)' /\ Held(task[t], p, a, b, c, e)'
      BY <1>1, <1>3, <1>6, <2>1, <2>2 DEF Shape, LaidOut, Held
    <2>4. Shape(t, p, a, b, c, e)'
      BY <2>2, <2>3 DEF Shape
    <2>5. Owned(t)' = Owned(t)
      BY <1>1, <2>2 DEF Owned
    <2>6. FreedExactly'
      BY <1>5, <2>1, <2>5, FreedSame
    <2>7. Shaped'
      <3> SUFFICES ASSUME NEW u \in Tasks, task'[u].state # "none"
                   PROVE  \E i, j, k1, l, m \in Nat : Shape(u, i, j, k1, l, m)'
        BY DEF Shaped
      <3>1. CASE u = t
        BY <2>4, <3>1
      <3>2. CASE u # t
        BY <1>1, <1>5, <2>1, <3>2, OthersKept
      <3> QED
        BY <3>1, <3>2
    <2> QED
      BY <2>6, <2>7
  <1>7. CASE task[t].guards # {}
    <2>1. /\ task'[t] = None
          /\ mem' = [q \in DOMAIN mem |-> IF q \in Owned(t) THEN "free" ELSE mem[q]]
      BY <1>4, <1>7 DEF gforth_free_stacks, Types
    <2>2. task'[t].state = "none" /\ Owned(t)' = {}
      BY <2>1 DEF None, Owned
    <2>3. \A u \in Tasks : u # t => Owned(t) \cap Owned(u) = {}
      BY Zenon DEF FreedExactly
    <2>4. Shaped'
      <3> SUFFICES ASSUME NEW u \in Tasks, task'[u].state # "none"
                   PROVE  \E i, j, k1, l, m \in Nat : Shape(u, i, j, k1, l, m)'
        BY DEF Shaped
      <3>1. u # t
        BY <2>2
      <3>2. \A q \in Owned(u) : mem'[q] = mem[q]
        BY <2>1, <2>3, <3>1, OwnedNotFree DEF Types
      <3> QED
        BY <1>1, <1>5, <3>1, <3>2, OthersKept
    <2>5. Owned(t) \cap {1, 2} = {}
      <3>1. Owned(t) = p .. e + 2 * SigPages
        BY <1>1, <1>3, OwnedIs DEF Shape, OwnedFrom
      <3> QED
        BY <1>3, <3>1 DEF Shape, Held
    <2>6. \A q : q \in {r \in DOMAIN mem : mem[r] # "free"}
                   <=> q \in {1, 2} \/ \E u \in Tasks : q \in Owned(u)
      <3>1. {r \in DOMAIN mem : mem[r] # "free"} = {1, 2} \cup UNION {Owned(u) : u \in Tasks}
        BY Zenon DEF FreedExactly
      <3> QED
        BY <3>1, Zenon
    <2>7. \A q : (\E u \in Tasks : q \in Owned(u)') <=> (\E u \in Tasks : q \in Owned(u)) /\ q \notin Owned(t)
      BY <1>5, <2>2, <2>3, Zenon
    <2>8. \A q : q \in {r \in DOMAIN mem' : mem'[r] # "free"}
                   <=> q \in {r \in DOMAIN mem : mem[r] # "free"} /\ q \notin Owned(t)
      BY <2>1
    <2>9. \A q : q \in {r \in DOMAIN mem' : mem'[r] # "free"}
                   <=> q \in {1, 2} \/ \E u \in Tasks : q \in Owned(u)'
      BY <2>5, <2>6, <2>7, <2>8, Zenon
    <2>10. {r \in DOMAIN mem' : mem'[r] # "free"} = {1, 2} \cup UNION {Owned(u)' : u \in Tasks}
      BY <2>9
    <2>11. \A u, v \in Tasks : u # v => Owned(u)' \cap Owned(v)' = {}
      BY <1>5, <2>2 DEF FreedExactly
    <2> QED
      BY <2>4, <2>10, <2>11, Zenon DEF FreedExactly
  <1> QED
    BY <1>6, <1>7

(* Signals. *)
LEMMA SignalsStep ==
  ASSUME Types, Types', Living, Living', Signals, Next
  PROVE  Signals'
  <1> SUFFICES ASSUME NEW t \in Tasks,
                      \/ \E z \in Sizes : newtask4(t, z[1], z[2], z[3], z[4])
                      \/ gforth_thread(t)
                      \/ \E s \in Stacks, d \in Direction, n \in 1 .. MaxAccess : Access(t, s, d, n)
                      \/ DictOverflow(t)
                      \/ Recover(t)
                      \/ gforth_free_stacks(t),
                      NEW u \in Tasks, sigstack'[u].state = "set"
               PROVE  sigstack'[u] = gforth_set_sigaltstack(task'[u])
    BY DEF Next, Signals, gforth_set_sigaltstack
  <1>1. ASSUME NEW z \in Sizes, newtask4(t, z[1], z[2], z[3], z[4])
        PROVE  sigstack'[u] = gforth_set_sigaltstack(task'[u])
    <2>1. PICK p \in Places : \E k \in Made : Mapped(t, z, p, k)
      BY <1>1, NewTask
    <2>2. \A v \in Tasks : v # t => task'[v] = task[v]
      BY <2>1 DEF Mapped, Types
    <2>3. sigstack' = sigstack /\ u # t
      BY <1>1 DEF newtask4, Living
    <2> QED
      BY <2>2, <2>3 DEF Signals
  <1>2. CASE gforth_thread(t)
    BY <1>2 DEF gforth_thread, Signals, Types
  <1>3. ASSUME NEW s \in Stacks, NEW d \in Direction, NEW n \in 1 .. MaxAccess, Access(t, s, d, n)
        PROVE  sigstack'[u] = gforth_set_sigaltstack(task'[u])
    BY <1>3 DEF Access, Signals
  <1>4. CASE DictOverflow(t)
    BY <1>4 DEF DictOverflow, Signals
  <1>5. CASE Recover(t)
    BY <1>5 DEF Recover, Signals
  <1>6. CASE gforth_free_stacks(t)
    <2>1. u # t
      BY <1>6 DEF gforth_free_stacks, Types, None
    <2> QED
      BY <1>6, <2>1 DEF gforth_free_stacks, Types, Signals
  <1> QED
    BY <1>1, <1>2, <1>3, <1>4, <1>5, <1>6


-----------------------------------------------------------------------------
(* What gforth_go has caught. *)

LEMMA GoPushes ==
  ASSUME NEW k \in Made, NEW rp \in Int, NEW code, NEW s, NEW d
  PROVE  LET g == gforth_go(k, rp, code, s, d)
         IN  g.pushed # 0 => /\ engine = "debugging"
                             /\ g.pushed >= NEXTPAGE2(k.sp0) /\ g.pushed < NEXTPAGE(k.rp0)
  <1>1. k.sp0 \in Int /\ k.rp0 \in Int /\ PageSize \in Int
    BY FaultsAssumption DEF Made
  <1>2. NEXTPAGE(k.sp0) \in Int /\ NEXTPAGE(k.rp0) \in Int
    <2>1. PICK i \in Int : NEXTPAGE(k.sp0) = i * PageSize
      BY <1>1, Rounding
    <2>2. PICK j \in Int : NEXTPAGE(k.rp0) = j * PageSize
      BY <1>1, Rounding
    <2> QED
      BY <1>1, <2>1, <2>2
  <1>3. NEXTPAGE2(k.sp0) \in Int
    BY <1>1, <1>2 DEF NEXTPAGE2
  <1>4. CASE RpUsable(k, rp)
    <2>1. gforth_go(k, rp, code, s, d).pushed = rp - 1
      BY <1>4 DEF gforth_go
    <2> QED
      BY <1>2, <1>3, <1>4, <2>1 DEF RpUsable
  <1>5. CASE ~RpUsable(k, rp)
    BY <1>5 DEF gforth_go
  <1> QED
    BY <1>4, <1>5

(* A step catches nothing new, or a fault of t. *)
Catches(t, rp, code, s, d) ==
  /\ UNCHANGED <<engine, mem, task>> /\ task[t] \in Made
  /\ caught' = [caught EXCEPT ![t] = gforth_go(task[t], rp, code, s, d)]

LEMMA CatchPushes ==
  ASSUME Types, Pushed, NEW t \in Tasks, NEW rp \in Int, NEW code, NEW s, NEW d,
         Catches(t, rp, code, s, d)
  PROVE  Pushed'
  <1> SUFFICES ASSUME NEW u \in Tasks, caught'[u].state = "caught", caught'[u].pushed # 0
               PROVE  /\ engine = "debugging" /\ caught'[u].pushed >= NEXTPAGE2(task[u].sp0)
                      /\ caught'[u].pushed < NEXTPAGE(task[u].rp0)
    BY DEF Pushed, Catches, NEXTPAGE, NEXTPAGE2
  <1>1. CASE u = t
    <2>1. PICK k \in Made : k = task[t]
      BY DEF Catches
    <2>2. caught'[u] = gforth_go(k, rp, code, s, d)
      BY <1>1, <2>1 DEF Catches, Types
    <2> QED
      BY <1>1, <2>1, <2>2, GoPushes
  <1>2. CASE u # t
    BY <1>2 DEF Pushed, Catches, Types
  <1> QED
    BY <1>1, <1>2

(* What an access that faults does. *)
LEMMA AccessCatches ==
  ASSUME Types, Living, Shaped, NEW t \in Tasks,
         NEW s \in Stacks, NEW d \in Direction, NEW n \in 1 .. MaxAccess, Access(t, s, d, n)
  PROVE  \/ UNCHANGED <<engine, task, caught>>
         \/ \E rp \in Int, code \in Int :
              Catches(t, rp, code, s, d) /\ (Roomy => code = Reported[s][d])
  <1> DEFINE q == IF d = "push" THEN ptr[t][s] - n ELSE ptr[t][s] + n
             x == IF d = "push" THEN q ELSE q - 1
             code == segv_handler(task[t], dictguard, x)
  <1>1. ptr[t].state = "run" /\ task[t].state = "made" /\ UNCHANGED <<engine, mem, task>>
    BY DEF Access, Living
  <1>2. task[t] \in Made /\ ptr[t] \in Running
    BY <1>1 DEF Types, None
  <1>3. ptr[t][s] \in Int /\ ptr[t].rp \in Int /\ n \in Int
    BY <1>2, FaultsAssumption DEF Running, Stacks
  <1>4. q \in Int
    BY <1>3
  <1>5. PICK p, a, b, c, e \in Nat : Shape(t, p, a, b, c, e)
    BY <1>1 DEF Shaped
  <1>6. Roomy /\ mem[Page(x)] # "rw" => code = Reported[s][d]
    <2>1. Roomy => Lands(t, s, d, n, p, a, b, c, e)
      BY <1>5, AccessAt
    <2> QED
      BY <2>1, Zenon DEF Lands
  <1>7. code \in Int
    BY CodeTyped, Zenon
  <1>8. CASE mem[Page(x)] = "rw"
    BY <1>1, <1>8 DEF Access
  <1>9. CASE mem[Page(x)] # "rw"
    <2>1. PICK rp \in {ptr[t].rp, IF s = "rp" THEN q ELSE ptr[t].rp} :
            caught' = [caught EXCEPT ![t] = gforth_go(task[t], rp, code, s, d)]
      BY <1>9 DEF Access
    <2> HIDE DEF q, code, x
    <2>2. rp \in Int
      BY <1>3, <1>4
    <2>3. Catches(t, rp, code, s, d)
      BY <1>1, <1>2, <2>1 DEF Catches
    <2> QED
      BY <1>6, <1>7, <1>9, <2>2, <2>3
  <1> QED
    BY <1>8, <1>9

LEMMA OverflowCatches ==
  ASSUME Types, Living, NEW t \in Tasks, DictOverflow(t)
  PROVE  \E rp \in Int : Catches(t, rp, -8, "dictionary", "push")
  <1>1. ptr[t].state = "run" /\ task[t].state = "made" /\ UNCHANGED <<engine, mem, task>>
    BY DEF DictOverflow, Living
  <1>2. task[t] \in Made /\ ptr[t].rp \in Int /\ dictguard \in Int /\ PageSize \in Int
    <2>1. task[t] \in Made /\ ptr[t] \in Running
      BY <1>1 DEF Types, None
    <2>2. ptr[t].rp \in Int
      BY <2>1 DEF Running
    <2>3. PageSize \in Int /\ 2 * PageSize \in Int
      BY FaultsAssumption
    <2> QED
      BY <2>1, <2>2, <2>3 DEF Types
  <1>3. PICK x \in dictguard .. dictguard + PageSize - 1 : caught' = [caught EXCEPT ![t] =
           gforth_go(task[t], ptr[t].rp, segv_handler(task[t], dictguard, x), "dictionary", "push")]
    BY DEF DictOverflow
  <1>4. x - dictguard \in 0 .. PageSize - 1
    BY <1>2
  <1>5. segv_handler(task[t], dictguard, x) = -8
    BY <1>4 DEF segv_handler
  <1> QED
    BY <1>1, <1>2, <1>3, <1>5 DEF Catches

LEMMA CaughtStep ==
  ASSUME Types, Types', Living, Living', Shaped, Pushed, Blamed, Next
  PROVE  Pushed' /\ Blamed'
  <1> SUFFICES ASSUME NEW t \in Tasks,
                      \/ \E z \in Sizes : newtask4(t, z[1], z[2], z[3], z[4])
                      \/ gforth_thread(t)
                      \/ \E s \in Stacks, d \in Direction, n \in 1 .. MaxAccess : Access(t, s, d, n)
                      \/ DictOverflow(t)
                      \/ Recover(t)
                      \/ gforth_free_stacks(t)
               PROVE  Pushed' /\ Blamed'
    BY DEF Next
  (* A step that changes the memory of t when t has caught nothing. *)
  <1>0. ASSUME caught'[t].state # "caught", engine' = engine,
               \A u \in Tasks : u # t => task'[u] = task[u] /\ caught'[u] = caught[u]
        PROVE  Pushed' /\ Blamed'
    <2>1. Pushed'
      <3> SUFFICES ASSUME NEW u \in Tasks, caught'[u].state = "caught", caught'[u].pushed # 0
                   PROVE  /\ engine = "debugging" /\ caught'[u].pushed >= NEXTPAGE2(task'[u].sp0)
                          /\ caught'[u].pushed < NEXTPAGE(task'[u].rp0)
        BY <1>0 DEF Pushed, NEXTPAGE, NEXTPAGE2
      <3> QED
        BY <1>0 DEF Pushed
    <2>2. Blamed'
      <3> SUFFICES ASSUME Roomy, NEW u \in Tasks, caught'[u].state = "caught"
                   PROVE  caught'[u].code = Reported[caught'[u].stack][caught'[u].dir]
        BY DEF Blamed, FaultBlamed
      <3> QED
        BY <1>0 DEF Blamed, FaultBlamed
    <2> QED
      BY <2>1, <2>2
  <1>1. ASSUME NEW z \in Sizes, newtask4(t, z[1], z[2], z[3], z[4])
        PROVE  Pushed' /\ Blamed'
    <2>1. PICK p \in Places : \E k \in Made : Mapped(t, z, p, k)
      BY <1>1, NewTask
    <2>2. \A u \in Tasks : u # t => task'[u] = task[u]
      BY <2>1 DEF Mapped, Types
    <2>3. caught' = caught /\ engine' = engine /\ caught'[t].state # "caught"
      BY <1>1 DEF newtask4, Living
    <2> QED
      BY <1>0, <2>2, <2>3
  <1>2. CASE gforth_thread(t)
    <2>1. caught' = caught /\ engine' = engine /\ caught'[t].state # "caught"
      BY <1>2 DEF gforth_thread, Living
    <2>2. \A u \in Tasks : u # t => task'[u] = task[u]
      BY <1>2 DEF gforth_thread, Types
    <2> QED
      BY <1>0, <2>1, <2>2
  <1>3. ASSUME NEW rp \in Int, NEW code \in Int, NEW s, NEW d, Catches(t, rp, code, s, d),
               Roomy => code = Reported[s][d]
        PROVE  Pushed' /\ Blamed'
    <2>1. Pushed'
      BY <1>3, CatchPushes
    <2>2. Blamed'
      <3> SUFFICES ASSUME Roomy, NEW u \in Tasks, caught'[u].state = "caught"
                   PROVE  caught'[u].code = Reported[caught'[u].stack][caught'[u].dir]
        BY DEF Blamed, FaultBlamed
      <3>1. CASE u = t
        BY <1>3, <3>1 DEF Catches, Types, gforth_go
      <3>2. CASE u # t
        BY <1>3, <3>2 DEF Catches, Types, Blamed, FaultBlamed
      <3> QED
        BY <3>1, <3>2
    <2> QED
      BY <2>1, <2>2
  <1>4. ASSUME NEW s \in Stacks, NEW d \in Direction, NEW n \in 1 .. MaxAccess, Access(t, s, d, n)
        PROVE  Pushed' /\ Blamed'
    <2>1. CASE UNCHANGED <<engine, task, caught>>
      BY <2>1 DEF Pushed, Blamed, FaultBlamed, NEXTPAGE, NEXTPAGE2
    <2>2. CASE \E rp \in Int, code \in Int :
                 Catches(t, rp, code, s, d) /\ (Roomy => code = Reported[s][d])
      BY <1>3, <2>2
    <2> QED
      BY <1>4, <2>1, <2>2, AccessCatches
  <1>5. CASE DictOverflow(t)
    <2>1. PICK rp \in Int : Catches(t, rp, -8, "dictionary", "push")
      BY <1>5, OverflowCatches
    <2>2. Reported["dictionary"]["push"] = -8
      BY DEF Reported
    <2> QED
      BY <1>3, <2>1, <2>2
  <1>6. CASE Recover(t)
    <2>1. /\ task' = task /\ engine' = engine /\ caught'[t].state # "caught"
          /\ \A u \in Tasks : u # t => caught'[u] = caught[u]
      BY <1>6 DEF Recover, Types, None
    <2> QED
      BY <1>0, <2>1
  <1>7. CASE gforth_free_stacks(t)
    <2>1. /\ engine' = engine /\ caught'[t].state # "caught"
          /\ \A u \in Tasks : u # t => task'[u] = task[u] /\ caught'[u] = caught[u]
      BY <1>7 DEF gforth_free_stacks, Types, None
    <2> QED
      BY <1>0, <2>1
  <1> QED
    BY <1>1, <1>2, <1>4, <1>5, <1>6, <1>7


-----------------------------------------------------------------------------
(* The theorems. *)

LEMMA FaultsInit ==
  ASSUME Init
  PROVE  FaultsInv
  <1>1. MemPages \in Nat \ {0, 1, 2}
    BY FaultsAssumption
  <1>2. Types
    BY DEF Init, Types
  <1>3. Living /\ Shaped /\ Signals /\ Pushed /\ Blamed
    BY DEF Init, Living, Shaped, Signals, Pushed, Blamed, FaultBlamed, None
  <1>4. \A t \in Tasks : Owned(t) = {}
    BY DEF Init, Owned, None
  <1>5. {q \in DOMAIN mem : mem[q] # "free"} = {1, 2}
    BY <1>1 DEF Init
  <1>6. UNION {Owned(t) : t \in Tasks} = {}
    BY <1>4
  <1>7. FreedExactly
    BY <1>4, <1>5, <1>6 DEF FreedExactly
  <1> QED
    BY <1>2, <1>3, <1>7 DEF FaultsInv

LEMMA FaultsStep ==
  ASSUME FaultsInv, Next
  PROVE  FaultsInv'
  <1>0. Types /\ Living /\ Shaped /\ FreedExactly /\ Signals /\ Pushed /\ Blamed
    BY DEF FaultsInv
  <1>1. Types'
    BY <1>0, TypesStep
  <1>2. Living'
    BY <1>0, <1>1, LivingStep
  <1>3. Signals'
    BY <1>0, <1>1, <1>2, SignalsStep
  <1>4. Pushed' /\ Blamed'
    BY <1>0, <1>1, <1>2, CaughtStep
  <1>5. Shaped' /\ FreedExactly'
    <2> SUFFICES ASSUME NEW t \in Tasks,
                        \/ \E z \in Sizes : newtask4(t, z[1], z[2], z[3], z[4])
                        \/ gforth_thread(t)
                        \/ \E s \in Stacks, d \in Direction, n \in 1 .. MaxAccess : Access(t, s, d, n)
                        \/ DictOverflow(t)
                        \/ Recover(t)
                        \/ gforth_free_stacks(t)
                 PROVE  Shaped' /\ FreedExactly'
      BY DEF Next
    <2>1. ASSUME NEW z \in Sizes, newtask4(t, z[1], z[2], z[3], z[4])
          PROVE  Shaped' /\ FreedExactly'
      BY <1>0, <2>1, NewTaskKeeps
    <2>2. CASE gforth_thread(t)
      BY <1>0, <1>1, <2>2, ThreadKeeps
    <2>3. ASSUME NEW s \in Stacks, NEW d \in Direction, NEW n \in 1 .. MaxAccess, Access(t, s, d, n)
          PROVE  Shaped' /\ FreedExactly'
      BY <1>0, <1>1, <2>3, AccessKeeps
    <2>4. CASE DictOverflow(t)
      BY <1>0, <2>4, StillKeeps DEF DictOverflow
    <2>5. CASE Recover(t)
      BY <1>0, <1>1, <2>5, RecoverKeeps
    <2>6. CASE gforth_free_stacks(t)
      BY <1>0, <1>1, <2>6, FreeKeeps
    <2> QED
      BY <2>1, <2>2, <2>3, <2>4, <2>5, <2>6
  <1> QED
    BY <1>1, <1>2, <1>3, <1>4, <1>5 DEF FaultsInv

LEMMA FaultsStutter ==
  ASSUME FaultsInv, UNCHANGED vars
  PROVE  FaultsInv'
  <1>0. Types /\ Living /\ Shaped /\ FreedExactly /\ Signals /\ Pushed /\ Blamed
    BY DEF FaultsInv
  <1>1. Shaped' /\ FreedExactly'
    BY <1>0, StillKeeps DEF vars
  <1>2. Types' /\ Living'
    BY <1>0 DEF vars, Types, Living
  <1>3. Signals'
    BY <1>0 DEF vars, Signals, gforth_set_sigaltstack
  <1>4. Pushed'
    BY <1>0 DEF vars, Pushed, NEXTPAGE, NEXTPAGE2
  <1>5. Blamed'
    BY <1>0 DEF vars, Blamed, FaultBlamed
  <1> QED
    BY <1>1, <1>2, <1>3, <1>4, <1>5 DEF FaultsInv

(* The inductive invariant: where the memory of every task lies, what of   *)
(* it is accessible, and where the stack pointers may be.                  *)
THEOREM FaultsInvariant == Spec => []FaultsInv
  <1>1. Init => FaultsInv
    BY FaultsInit
  <1>2. FaultsInv /\ [Next]_vars => FaultsInv'
    BY FaultsStep, FaultsStutter
  <1> QED
    BY <1>1, <1>2, PTL DEF Spec

(* When the last pages of the stacks hold what the engine keeps away,      *)
(* segv_handler reports every fault as the overflow or underflow that it   *)
(* is, from the address and the bottoms of the stacks alone.               *)
THEOREM FaultsAreBlamed ==
  ASSUME Roomy
  PROVE  Spec => []FaultBlamed
  <1>1. FaultsInv => FaultBlamed
    BY DEF FaultsInv, Blamed
  <1> QED
    BY <1>1, FaultsInvariant, PTL

(* gforth_free_stacks unmaps what gforth_stacks mapped, all of it and      *)
(* nothing else, for every size of the stacks.                             *)
THEOREM MemoryIsFreed == Spec => []FreedExactly
  <1>1. FaultsInv => FreedExactly
    BY DEF FaultsInv
  <1> QED
    BY <1>1, FaultsInvariant, PTL


LEMMA PushFits ==
  ASSUME FaultsInv
  PROVE  PushOnReturnStack
  <1>0. Types /\ Living /\ Shaped /\ Pushed
    BY DEF FaultsInv
  <1> SUFFICES ASSUME NEW t \in Tasks, caught[t].state = "caught", caught[t].pushed # 0
               PROVE  mem[Page(caught[t].pushed)] = "rw"
    BY <1>0 DEF PushOnReturnStack, Pushed
  <1>1. engine = "debugging" /\ caught[t].pushed >= NEXTPAGE2(task[t].sp0)
        /\ caught[t].pushed < NEXTPAGE(task[t].rp0)
    BY <1>0 DEF Pushed
  <1>2. task[t].state = "made" /\ task[t] \in Made /\ caught[t] \in Caught
    BY <1>0 DEF Living, Types, None
  <1>3. PICK p, a, b, c, e \in Nat : Shape(t, p, a, b, c, e)
    BY <1>0, <1>2 DEF Shaped
  <1>4. PICK x \in Int, y \in Int, z \in Int :
          x = caught[t].pushed /\ y = task[t].rp0 /\ z = task[t].sp0
    BY <1>2 DEF Made, Caught
  <1>5. /\ p + 2 <= a /\ a + 1 <= b /\ b + 1 <= c /\ c + 1 <= e
        /\ y <= b * PageSize /\ z = a * PageSize
    BY <1>1, <1>3, <1>4 DEF Shape, LaidOut
  <1>6. PageSize \in Nat \ {0} /\ a * PageSize \in Int /\ b * PageSize \in Int
        /\ (a + 1) * PageSize = a * PageSize + PageSize
    BY FaultsAssumption
  <1>7. NEXTPAGE2(z) = (a + 1) * PageSize
    <2>1. NEXTPAGE(z) = a * PageSize
      BY <1>5, <1>6, RoundUp
    <2> QED
      BY <1>6, <2>1 DEF NEXTPAGE2
  <1>8. PICK i \in Int : i * PageSize < y + PageSize /\ NEXTPAGE(y) = i * PageSize
    BY Rounding
  <1>9. i <= b /\ i * PageSize \in Int
    <2>1. i * PageSize \in Int
      BY <1>6, <1>8
    <2>2. i * PageSize < b * PageSize + PageSize
      BY <1>5, <1>6, <1>8, <2>1
    <2> QED
      BY <1>6, <2>1, <2>2, LessTimes
  <1>10. (a + 1) * PageSize <= x /\ x < i * PageSize
    BY <1>1, <1>4, <1>6, <1>7, <1>8, <1>9
  <1>11. Page(x) \in a + 1 .. i - 1
    BY <1>10, PageBetween
  <1>12. PICK n \in Int : n = Page(x) /\ a + 1 <= n /\ n <= b - 1
    BY <1>9, <1>11
  <1>13. n \in p .. e + 2 * SigPages /\ n \notin {p + 1, a, b, c, e}
    BY <1>5, <1>12, SigPagesOf
  <1>14. mem[n] = "rw"
    BY <1>3, <1>13 DEF Shape, Held
  <1> QED
    BY <1>4, <1>12, <1>14

LEMMA SignalFits ==
  ASSUME FaultsInv
  PROVE  SignalStackApart
  <1>0. Types /\ Living /\ Shaped /\ Signals
    BY DEF FaultsInv
  <1> SUFFICES ASSUME NEW t \in Tasks, sigstack[t].state = "set"
               PROVE  LET own == Pages(sigstack[t].base, sigstack[t].size)
                      IN  /\ own \subseteq Owned(t) /\ \A p \in own : mem[p] = "rw"
                          /\ task[t].guards # {} =>
                               \E g \in task[t].guards : \A p \in own :
                                  Page(task[t].lp0 - 1) < Page(g) /\ Page(g) < p
    BY DEF SignalStackApart
  <1>1. task[t].state = "made" /\ task[t] \in Made
    BY <1>0 DEF Living, Types, None
  <1>2. PICK p, a, b, c, e \in Nat : Shape(t, p, a, b, c, e)
    BY <1>0, <1>1 DEF Shaped
  <1>3. PICK l \in Int : l = task[t].lp0
    BY <1>1 DEF Made
  <1>4. LaidOut(task[t], p, a, b, c, e) /\ Held(task[t], p, a, b, c, e)
    BY <1>2 DEF Shape
  <1>5. /\ p + 2 <= a /\ a + 1 <= b /\ b + 1 <= c /\ c + 1 <= e
        /\ l <= e * PageSize /\ e * PageSize < l + PageSize
        /\ task[t].guards # {} => e * PageSize \in task[t].guards
    BY <1>3, <1>4 DEF LaidOut
  <1>6. /\ PageSize \in Nat \ {0} /\ e * PageSize \in Int
        /\ (e - 1) * PageSize = e * PageSize - PageSize
        /\ (e + 1 + SigPages) * PageSize = e * PageSize + PageSize + SigPages * PageSize
        /\ SigPages \in Nat \ {0} /\ SIGSTKSZ = SigPages * PageSize /\ SIGSTKSZ \in Int
    BY FaultsAssumption, SigPagesOf
  <1>7. wholepage(l) = e * PageSize
    BY <1>5, <1>6, RoundUp
  <1>8. sigstack[t].base = (e + 1 + SigPages) * PageSize /\ sigstack[t].size = SigPages * PageSize
    <2>1. sigstack[t].base = wholepage(l) + PageSize + SIGSTKSZ /\ sigstack[t].size = SIGSTKSZ
      <3>1. sigstack[t] = gforth_set_sigaltstack(task[t])
        BY <1>0 DEF Signals
      <3> QED
        BY <1>3, <3>1 DEF gforth_set_sigaltstack
    <2> QED
      BY <1>6, <1>7, <2>1
  <1>9. Pages(sigstack[t].base, sigstack[t].size) = e + 1 + SigPages .. e + 2 * SigPages
    <2>1. PICK i \in Int : i = e + 1 + SigPages
      BY <1>6
    <2>2. Pages(i * PageSize, SigPages * PageSize) = i .. i + SigPages - 1
      BY <1>6, PagesOf
    <2> QED
      BY <1>6, <1>8, <2>1, <2>2
  <1>10. Owned(t) = p .. e + 2 * SigPages
    <2>1. task[t].state # "none"
      BY <1>1
    <2>2. OwnedFrom(t, p, e)
      BY <1>4, <2>1, OwnedIs
    <2> QED
      BY <2>2 DEF OwnedFrom
  <1>11. Page(e * PageSize) = e
    BY <1>6, PageIs
  <1>12. Page(l - 1) = e - 1
    <2>1. PICK m \in Int, i \in Int, k \in Int :
            m = e * PageSize /\ i = e - 1 /\ k = (e - 1) * PageSize
      BY <1>6
    <2>2. k = m - PageSize /\ l <= m /\ m < l + PageSize
      BY <1>5, <1>6, <2>1
    <2>3. k <= l - 1 /\ l - 1 < k + PageSize
      BY <1>6, <2>2
    <2>4. i * PageSize <= l - 1 /\ l - 1 < i * PageSize + PageSize
      BY <2>1, <2>3
    <2>5. Page(l - 1) = i
      BY <2>4, PageIs
    <2> QED
      BY <2>1, <2>5
  <1>13. ASSUME NEW q \in e + 1 + SigPages .. e + 2 * SigPages
         PROVE  q \in p .. e + 2 * SigPages /\ q > e /\ mem[q] = "rw"
    <2>1. q \in p .. e + 2 * SigPages /\ q > e /\ q \notin {p + 1, a, b, c, e}
      BY <1>5, <1>6, <1>13
    <2> QED
      BY <1>4, <2>1 DEF Held
  <1>14. task[t].guards # {} => \E g \in task[t].guards :
           \A q \in e + 1 + SigPages .. e + 2 * SigPages : Page(l - 1) < Page(g) /\ Page(g) < q
    <2>1. \A q \in e + 1 + SigPages .. e + 2 * SigPages :
            Page(l - 1) < Page(e * PageSize) /\ Page(e * PageSize) < q
      BY <1>11, <1>12, <1>13
    <2> QED
      BY <1>5, <2>1
  <1> QED
    BY <1>3, <1>9, <1>10, <1>13, <1>14

(* What gforth_go pushes for the backtrace lands on accessible pages of    *)
(* the task's own return stack, wherever rp has been moved.                *)
THEOREM PushesStayOnReturnStack == Spec => []PushOnReturnStack
  <1>1. FaultsInv => PushOnReturnStack
    BY PushFits
  <1> QED
    BY <1>1, FaultsInvariant, PTL

(* The alternate signal stack that gforth_set_sigaltstack works out from   *)
(* the bottom of the locals stack is memory of the task behind a guard.    *)
THEOREM SignalStackIsApart == Spec => []SignalStackApart
  <1>1. FaultsInv => SignalStackApart
    BY SignalFits
  <1> QED
    BY <1>1, FaultsInvariant, PTL


=============================================================================
