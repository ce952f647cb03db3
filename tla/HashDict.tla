------------------------------ MODULE HashDict ------------------------------
(* The hashed dictionary of hash.fs: every wordlist keeps the linked list of
   its words, and all wordlists share one hash table.  A wordlist has a number
   (wordlist-extend); the words named n of the wordlist numbered k are in
   bucket k xor hash(n), and hash-find compares names only, so it is right
   exactly as long as wordlists do not share numbers and the table follows the
   linked lists.  The table grows by hashdouble, which renumbers every
   wordlist and inserts every word anew; it is called by hash-alloc, and so
   from the middle of inserting a word, of giving a number to a wordlist, and
   of the rebuilding itself.  The nesting is explicit here: `stack' holds what
   is left to do of the words that are being executed, innermost first, and a
   step executes the part up to the next call.  Markers (marker.fs) cut the
   linked lists back and have the table follow. *)
EXTENDS Naturals, Sequences, SequencesExt, Bitwise

CONSTANTS
    Names,          \* the spellings of names
    Fold,           \* [Names -> ...]: the name in upper case (memcasecmp, toupper)
    Key,            \* [range of Fold -> Nat]: the hash key before it is cut to hashbits
    hashbits0,      \* the initial hashbits
    Start,          \* set of sequences of names: the words when hashing starts,
                    \* of Forth and, the newest one, of Root
    Kinds,          \* the kinds of wordlists the program creates
    MaxWords, MaxWordlists, MaxMarkers

ASSUME MaxAssumption == MaxWords \in Nat /\ MaxWordlists \in Nat /\ MaxMarkers \in Nat

VARIABLES
    names,      \* the dictionary memory: the name of every word (nt), oldest first
    voclink,    \* the linked list of wordlists, newest first
    wl,         \* every wordlist: its kind, wordlist-extend, and words, newest first
    marks,      \* the marks: the nt of the marker and what marker, has saved
    hashbits, HashTable, HashIndex, HashPop, insRule, revealed,
    stack

vars == <<names, voclink, wl, marks, hashbits, HashTable, HashIndex, HashPop,
          insRule, revealed, stack>>

Hashlen == 2^hashbits
Absent == <<>>      \* HashTable = 0
Forth == 1
Root == 2

Hashed(w) == wl[w].kind # "f83"
hash(n) == Key[Fold[n]] % Hashlen

bucket(n, w) == wl[w].extend ^^ hash(n)

(* listlfind and hashlfind compare the folded names; tablelfind the spelling. *)
Same(n, nt, kind) ==
    IF kind = "table" THEN names[nt] = n ELSE Fold[names[nt]] = Fold[n]

FirstSame(list, n, kind) ==
    LET hits == {i \in 1..Len(list) : Same(n, list[i], kind)} IN
    IF hits = {} THEN 0 ELSE list[CHOOSE i \in hits : \A j \in hits : i <= j]

hash_find(n, w) ==
    IF HashTable = Absent THEN 0
    ELSE FirstSame(HashTable[bucket(n, w)], n, wl[w].kind)

-----------------------------------------------------------------------------
(* Frames of the words that are being executed. *)

addall == [op |-> "addall", rest |-> voclink]
inithash(w) == [op |-> "inithash", wid |-> w]
hashdouble == [op |-> "hashdouble"]
reveal(nt, w) == [op |-> "reveal", nt |-> nt, wid |-> w]

Init ==
    \E s \in Start :
        /\ names = s
        /\ wl = [w \in {Forth, Root} |->
                    [kind |-> "hash", extend |-> 0,
                     words |-> IF w = Root THEN <<Len(s)>>
                               ELSE Reverse([i \in 1..Len(s) - 1 |-> i])]]
        /\ voclink = <<Root, Forth>>
        /\ marks = <<>>
        /\ hashbits = hashbits0
        /\ HashTable = Absent
        /\ HashIndex = 0
        /\ HashPop = 0
        /\ insRule = TRUE
        /\ revealed = FALSE
        /\ stack = <<addall>>

Memory == <<names, voclink, marks>>

(* The part of hash-alloc that makes the table. *)
Allocated == IF HashTable = Absent THEN [b \in 0..Hashlen - 1 |-> <<>>] ELSE HashTable

(* hash-alloc grows the table when there are too many wordlists or words. *)
Full(index, pop) == index >= Hashlen \/ pop >= 2 * Hashlen
Grow(index, pop) == IF Full(index, pop) THEN <<hashdouble>> ELSE <<>>

(* (reveal: a new element at the front of the bucket, or at its end. *)
InsertFront(list, nt) == <<nt>> \o list
Insert(list, nt) == IF insRule THEN <<nt>> \o list ELSE Append(list, nt)

Inserted(nt, w) ==
    LET b == bucket(names[nt], w) IN
    [HashTable EXCEPT ![b] = Insert(HashTable[b], nt)]

Top == Head(stack)
Below == Tail(stack)
Doing(op) == stack # <<>> /\ Top.op = op

(* (reveal of one word; 0 hash-alloc follows it. *)
RevealStep ==
    /\ Doing("reveal")
    /\ HashTable' = Inserted(Top.nt, Top.wid)
    /\ revealed' = TRUE
    /\ HashPop' = HashPop + 1
    /\ stack' = Grow(HashIndex, HashPop + 1) \o Below
    /\ UNCHANGED <<Memory, wl, hashbits, HashIndex, insRule>>

(* inithash up to 1 hash-alloc, which has read the number before it grows
   the table; the number is stored by AssignStep when that has returned. *)
InithashStep ==
    /\ Doing("inithash")
    /\ HashTable' = Allocated
    /\ HashIndex' = HashIndex + 1
    /\ insRule' = FALSE
    /\ stack' = Grow(HashIndex + 1, HashPop)
                 \o <<[op |-> "assign", wid |-> Top.wid, num |-> HashIndex, ins |-> insRule]>>
                 \o Below
    /\ UNCHANGED <<Memory, wl, hashbits, HashPop, revealed>>

AssignStep ==
    /\ Doing("assign")
    /\ wl' = [wl EXCEPT ![Top.wid].extend = Top.num]
    /\ stack' = <<[op |-> "fill", wid |-> Top.wid, rest |-> wl[Top.wid].words, ins |-> Top.ins]>>
                 \o Below
    /\ UNCHANGED <<Memory, hashbits, HashTable, HashIndex, HashPop, insRule, revealed>>

(* The loop of inithash over the words of the wordlist. *)
FillStep ==
    /\ Doing("fill")
    /\ IF Top.rest = <<>>
       THEN /\ insRule' = Top.ins
            /\ stack' = Below
       ELSE /\ stack' = <<reveal(Head(Top.rest), Top.wid),
                          [Top EXCEPT !.rest = Tail(Top.rest)]>> \o Below
            /\ UNCHANGED insRule
    /\ UNCHANGED <<Memory, wl, hashbits, HashTable, HashIndex, HashPop, revealed>>

(* addall: HashPop off, then inithash for every hashed wordlist. *)
AddallStep ==
    /\ Doing("addall")
    /\ HashPop' = IF Len(Top.rest) = Len(voclink) THEN 0 ELSE HashPop
    /\ stack' = IF Top.rest = <<>> THEN Below
                ELSE (IF Hashed(Head(Top.rest)) THEN <<inithash(Head(Top.rest))>> ELSE <<>>)
                      \o <<[Top EXCEPT !.rest = Tail(Top.rest)]>> \o Below
    /\ UNCHANGED <<Memory, wl, hashbits, HashTable, HashIndex, insRule, revealed>>

(* clearhash: empties the buckets and forgets the numbers of the wordlists
   whose map is hashsearch-map, which excludes tables. *)
clearhash ==
    /\ HashIndex' = 0
    /\ wl' = [w \in DOMAIN wl |->
                 IF wl[w].kind = "hash" THEN [wl[w] EXCEPT !.extend = 0] ELSE wl[w]]

EmptiedNot == HashTable
Emptied == IF HashTable = Absent THEN Absent ELSE [b \in DOMAIN HashTable |-> <<>>]

HashdoubleStep ==
    /\ Doing("hashdouble")
    /\ clearhash
    /\ hashbits' = hashbits + 1
    /\ HashTable' = Absent
    /\ stack' = <<addall>> \o Below
    /\ UNCHANGED <<Memory, HashPop, insRule, revealed>>

(* marker!'s loop calls initwl, that is (rehash), for every wordlist. *)
RehashLoopAgain == stack
RehashLoop == <<[Top EXCEPT !.rest = Tail(Top.rest)]>> \o Below

RehashStep ==
    /\ Doing("rehash")
    /\ IF Top.rest = <<>>
       THEN /\ stack' = Below
            /\ UNCHANGED <<wl, HashTable, HashIndex>>
       ELSE LET w == Head(Top.rest) IN
               \/ /\ ~ Hashed(w)
                  /\ stack' = RehashLoop
                  /\ UNCHANGED <<wl, HashTable, HashIndex>>
               \/ /\ Hashed(w) /\ wl[w].extend = 0
                  /\ stack' = <<inithash(w)>> \o RehashLoop
                  /\ UNCHANGED <<wl, HashTable, HashIndex>>
               \/ /\ Hashed(w) /\ wl[w].extend # 0 /\ ~ revealed
                  /\ stack' = RehashLoop
                  /\ UNCHANGED <<wl, HashTable, HashIndex>>
               \/ /\ Hashed(w) /\ wl[w].extend # 0 /\ revealed
                  /\ clearhash
                  /\ HashTable' = Emptied
                  /\ stack' = <<addall, [op |-> "rehashed"]>> \o RehashLoop
    /\ UNCHANGED <<Memory, hashbits, HashPop, insRule, revealed>>

(* The end of rehashall. *)
RehashedStep ==
    /\ Doing("rehashed")
    /\ revealed' = FALSE
    /\ stack' = Below
    /\ UNCHANGED <<Memory, wl, hashbits, HashTable, HashIndex, HashPop, insRule>>

Step == \/ RevealStep \/ InithashStep \/ AssignStep \/ FillStep \/ AddallStep
        \/ HashdoubleStep \/ RehashStep \/ RehashedStep

-----------------------------------------------------------------------------
(* What a program does. *)

Idle == stack = <<>>
Hash == <<hashbits, HashTable, HashIndex, HashPop, insRule, revealed>>

(* A new word in wordlist w: (nocheck-reveal) links it, (reveal enters it. *)
Linked(n, w) ==
    /\ names' = Append(names, n)
    /\ wl' = [wl EXCEPT ![w].words = <<Len(names) + 1>> \o @]
    /\ stack' = IF Hashed(w) THEN <<reveal(Len(names) + 1, w)>> ELSE <<>>

NewWord(n, w) ==
    /\ Idle /\ Len(names) < MaxWords
    /\ Linked(n, w)
    /\ UNCHANGED <<voclink, marks, Hash>>

(* marker: marker, saves the lists, then the marker itself is defined. *)
Marker(n, w) ==
    /\ Idle /\ Len(names) < MaxWords /\ Len(marks) < MaxMarkers
    /\ marks' = Append(marks, [nt |-> Len(names) + 1, here |-> Len(names), voclink |-> voclink,
                                words |-> [v \in DOMAIN wl |-> wl[v].words]])
    /\ Linked(n, w)
    /\ UNCHANGED <<voclink, Hash>>

(* wordlist, table: wl, links a wordlist numbered 0, initwl gives it to the table. *)
NewWordlist(kind) ==
    /\ Idle /\ Len(voclink) < MaxWordlists
    /\ LET w == Len(voclink) + 1 IN
       /\ voclink' = <<w>> \o voclink
       /\ wl' = [v \in DOMAIN wl \cup {w} |->
                    IF v = w THEN [kind |-> kind, extend |-> 0, words |-> <<>>] ELSE wl[v]]
       /\ stack' = IF kind = "f83" THEN <<>> ELSE <<inithash(w)>>
    /\ UNCHANGED <<names, marks, Hash>>

(* marker!: the lists as they were; younger marks are gone with the words. *)
RunMarker(i) ==
    /\ Idle /\ i \in 1..Len(marks)
    /\ LET m == marks[i] IN
       /\ names' = SubSeq(names, 1, m.here)
       /\ voclink' = m.voclink
       /\ wl' = [v \in Range(m.voclink) |-> [wl[v] EXCEPT !.words = m.words[v]]]
       /\ marks' = SubSeq(marks, 1, i - 1)
       /\ stack' = <<[op |-> "rehash", rest |-> m.voclink]>>
    /\ UNCHANGED Hash

(* An image is saved ('image) and started ('cold): hash-cold. *)
HashCold ==
    /\ Idle
    /\ HashTable' = Absent
    /\ HashIndex' = 0
    /\ stack' = <<addall>>
    /\ UNCHANGED <<Memory, wl, hashbits, HashPop, insRule, revealed>>

Next ==
    \/ Step
    \/ \E n \in Names, w \in DOMAIN wl : NewWord(n, w) \/ Marker(n, w)
    \/ \E kind \in Kinds : NewWordlist(kind)
    \/ \E i \in 1..MaxMarkers : RunMarker(i)
    \/ HashCold

(* The words of hash.fs run to their end. *)
Spec == Init /\ [][Next]_vars /\ WF_vars(Step)

-----------------------------------------------------------------------------
(* Searching a wordlist finds the newest word with that name in its linked
   list, and nothing else: whatever has been moved, inserted twice or forgotten,
   bucket and hash-find agree with the lists that words shows.  This supposes
   that the table is not doubled because of the number of wordlists: hash-alloc
   then returns a number that hashdouble has meanwhile given to another one
   (MCHashNumbers.cfg). *)
FindRight ==
    Idle => \A w \in DOMAIN wl, n \in Names :
                Hashed(w) => hash_find(n, w) = FirstSame(wl[w].words, n, wl[w].kind)

(* No bucket points to a forgotten word, whose memory the dictionary reuses:
   hashlfind follows and compares every element of a bucket. *)
NoDangling ==
    Idle /\ HashTable # Absent =>
        \A b \in DOMAIN HashTable : \A i \in DOMAIN HashTable[b] :
            \E w \in DOMAIN wl : HashTable[b][i] \in Range(wl[w].words)

(* The mutual recursion of hashdouble, addall, inithash and (reveal ends:
   growing while the table is being rebuilt does not start over for ever. *)
RebuildEnds == stack # <<>> ~> stack = <<>>
=============================================================================
