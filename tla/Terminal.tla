------------------------------ MODULE Terminal ------------------------------
(***************************************************************************)
(* Terminal input and signals: preparing and restoring the terminal and    *)
(* the input with a known character of lookahead (engine/io.c), read_line  *)
(* and gforth_system (engine/support.c), and the signal handlers           *)
(* (engine/signals.c), which may leave any of these half done by a longjmp *)
(* to gforth_go, or call deprep_terminal themselves and exit.              *)
(*                                                                         *)
(* The Forth side calls one primitive after the other; pc is the place in  *)
(* the C code between two steps a signal can tell apart.  Characters are   *)
(* "a" (any), "n" (line feed) and "r" (carriage return).                   *)
(***************************************************************************)
EXTENDS Naturals, Sequences, SequencesExt

CONSTANTS
  Typed,        \* what is typed at the terminal (stdin)
  Contents,     \* possible contents of the other stream, a file
  LineSize,     \* size of the buffers given to read_line
  MaxSignals,   \* bound on the signals received
  die_on_signal,
  ShellRestores \* does the shell restore the modes of a job it continues?

Char == {"a", "n", "r"}

ASSUME TerminalAssumption ==
  /\ Typed \in Seq(Char) /\ \A c \in Contents : c \in Seq(Char)
  /\ LineSize \in Nat \ {0} /\ MaxSignals \in Nat
  /\ die_on_signal \in BOOLEAN /\ ShellRestores \in BOOLEAN

VARIABLES
  pc, stream,   \* where the primitive is, and the stream it works on
  then,         \* what to do after prep_terminal
  tty, otio, terminal_prepped,
  blocked, pending, \* SIGINT
  oset,         \* was it blocked when prep_terminal or deprep_terminal started?
  sigcount,
  received,     \* signals received, for the bound
  in, pushed,   \* by stream: unread input, and what ungetc has put back
  ungotten,     \* ungotten_files
  hand,         \* characters read, but not yet delivered
  file,         \* contents of the file
  got, lines, u3,   \* delivered by getkey; by read_line, and counted there
  dropped,      \* ghost: characters in hand when a throw hit
  hits          \* ghost: windows that were hit by a signal

vars == <<pc, stream, then, tty, otio, terminal_prepped, blocked, pending, oset, sigcount, received,
          in, pushed, ungotten, hand, file, got, lines, u3, dropped, hits>>

Streams == {"stdin", "file"}
isatty(s) == s = "stdin"

Init ==
  /\ pc = "forth" /\ stream = "stdin" /\ then = "forth"
  /\ tty = "cooked" /\ otio = "none" /\ terminal_prepped = FALSE
  /\ blocked = FALSE /\ pending = FALSE /\ oset = FALSE /\ sigcount = 0 /\ received = 0
  /\ file \in Contents
  /\ in = [stdin |-> Typed, file |-> file]
  /\ pushed = [s \in Streams |-> <<>>] /\ ungotten = <<>> /\ hand = <<>>
  /\ got = [s \in Streams |-> <<>>] /\ lines = <<>> /\ u3 = 0
  /\ dropped = [s \in Streams |-> 0] /\ hits = {}

modes == <<tty, otio, terminal_prepped>>
mask == <<blocked, pending, oset, sigcount>>
input == <<in, pushed, ungotten, hand>>
output == <<got, lines, u3>>
ghosts == <<dropped, hits>>

Goto(p) == pc' = p
Return == pc' = "forth"

(* gf_ungottenc, search_ungotten *)
gf_ungottenc(s) == \E i \in DOMAIN ungotten : ungotten[i] = s

(* Mutant of gf_regetc: the last entry is dropped, whoever's it is. *)
gf_regetc_last(s) == IF gf_ungottenc(s) THEN Front(ungotten) ELSE ungotten

(* gf_regetc: the entry of s, if any, is overwritten by the last one. *)
gf_regetc(s) ==
  IF gf_ungottenc(s)
  THEN LET i == CHOOSE j \in DOMAIN ungotten :
                  ungotten[j] = s /\ \A k \in 1 .. j - 1 : ungotten[k] # s
       IN  Front([ungotten EXCEPT ![i] = Last(ungotten)])
  ELSE ungotten

(* getc of the C library: what was put back comes first. *)
Next1(s) == Head(pushed[s] \o in[s])
AtEnd(s) == pushed[s] \o in[s] = <<>>
getc(s) ==
  /\ hand' = Append(hand, Next1(s))
  /\ IF pushed[s] # <<>>
     THEN pushed' = [pushed EXCEPT ![s] = Tail(@)] /\ UNCHANGED in
     ELSE in' = [in EXCEPT ![s] = Tail(@)] /\ UNCHANGED pushed

-----------------------------------------------------------------------------
(* prep_terminal and deprep_terminal, with SIGINT blocked from the start   *)
(* to the end.  TCSADRAIN and the simulated ^Q have no effect here.        *)
prep_start ==
  /\ pc = "prep"
  /\ IF terminal_prepped THEN Goto(then) /\ UNCHANGED <<blocked, oset>>
     ELSE Goto("prep_get") /\ blocked' = TRUE /\ oset' = blocked
  /\ UNCHANGED <<stream, then, modes, pending, sigcount, input, file, received, output, ghosts>>

prep_get ==
  /\ pc = "prep_get" /\ Goto("prep_set") /\ otio' = tty
  /\ UNCHANGED <<stream, then, tty, terminal_prepped, mask, input, file, received, output, ghosts>>

prep_set ==
  /\ pc = "prep_set" /\ Goto("prep_done") /\ tty' = "raw"
  /\ UNCHANGED <<stream, then, otio, terminal_prepped, mask, input, file, received, output, ghosts>>

(* Mutant of prep_done: SIGINT stays blocked. *)
prep_done_blocked ==
  /\ pc = "prep_done" /\ Goto(then)
  /\ terminal_prepped' = TRUE
  /\ UNCHANGED <<stream, then, tty, otio, mask, input, file, received, output, ghosts>>

prep_done ==
  /\ pc = "prep_done" /\ Goto(then)
  /\ terminal_prepped' = TRUE /\ blocked' = oset
  /\ UNCHANGED <<stream, then, tty, otio, pending, oset, sigcount, input, file, received, output, ghosts>>

(* gforth_system: the terminal is restored, the command runs, and the      *)
(* terminal is prepared again if it was; SIGINT is the shell's meanwhile.  *)
gforth_system ==
  /\ pc = "forth"
  /\ IF terminal_prepped THEN Goto("system_set") /\ blocked' = TRUE /\ oset' = blocked
     ELSE UNCHANGED <<pc, blocked, oset>>
  /\ UNCHANGED <<stream, then, modes, pending, sigcount, input, file, received, output, ghosts>>

system_set ==
  /\ pc = "system_set" /\ Goto("system_run") /\ tty' = otio
  /\ UNCHANGED <<stream, then, otio, terminal_prepped, mask, input, file, received, output, ghosts>>

system_run ==
  /\ pc = "system_run" /\ Goto("prep") /\ then' = "forth"
  /\ terminal_prepped' = FALSE /\ blocked' = oset
  /\ UNCHANGED <<stream, tty, otio, pending, oset, sigcount, input, file, received, output, ghosts>>

-----------------------------------------------------------------------------
NeedsPrep(s) == ~terminal_prepped /\ s = "stdin"

(* key_avail: 1 if a character is known; otherwise it is looked for, read, *)
(* and put back.                                                           *)
key_avail(s) ==
  /\ pc = "forth" /\ stream' = s
  /\ IF gf_ungottenc(s) THEN UNCHANGED <<pc, then>>
     ELSE IF NeedsPrep(s) THEN Goto("prep") /\ then' = "avail"
     ELSE Goto("avail") /\ UNCHANGED then
  /\ UNCHANGED <<modes, mask, input, file, received, output, ghosts>>

(* A file at its end is ready, and getc returns EOF. *)
avail ==
  /\ pc = "avail"
  /\ IF in[stream] = <<>> /\ (isatty(stream) \/ pushed[stream] = <<>>)
     THEN Return /\ UNCHANGED <<in, pushed, hand>>
     ELSE Goto("unget_note") /\ getc(stream)
  /\ UNCHANGED <<stream, then, modes, mask, ungotten, file, received, output, ghosts>>

(* gf_ungetc; ungetc keeps one character for certain.  Also the end of     *)
(* read_line behind a carriage return.                                     *)
unget_note ==
  /\ pc \in {"unget_note", "line_note"}
  /\ Goto(IF pc = "unget_note" THEN "unget_char" ELSE "line_char")
  /\ ungotten' = Append(ungotten, stream)
  /\ UNCHANGED <<stream, then, modes, mask, in, pushed, hand, file, received, output, ghosts>>

unget_char ==
  /\ pc = "unget_char" /\ Return
  /\ pushed' = [pushed EXCEPT ![stream] = hand \o @] /\ hand' = <<>>
  /\ UNCHANGED <<stream, then, modes, mask, in, ungotten, file, received, output, ghosts>>

(* getkey *)
getkey(s) ==
  /\ pc = "forth" /\ stream' = s
  /\ IF NeedsPrep(s) THEN Goto("prep") /\ then' = "fread"
     ELSE Goto("fread") /\ UNCHANGED then
  /\ UNCHANGED <<modes, mask, input, file, received, output, ghosts>>

(* fread waits at a terminal, and fails at the end of a file. *)
fread ==
  /\ pc = "fread"
  /\ IF AtEnd(stream) THEN ~isatty(stream) /\ Return /\ UNCHANGED <<in, pushed, hand>>
     ELSE Goto("reget") /\ getc(stream)
  /\ UNCHANGED <<stream, then, modes, mask, ungotten, file, received, output, ghosts>>

reget ==
  /\ pc = "reget" /\ Return
  /\ ungotten' = gf_regetc(stream)
  /\ got' = [got EXCEPT ![stream] = @ \o hand] /\ hand' = <<>>
  /\ UNCHANGED <<stream, then, modes, mask, in, pushed, file, received, lines, u3, ghosts>>

(* read_line on the file: the lookahead is no longer known, then the line  *)
(* is read character by character.                                         *)
read_line ==
  /\ pc = "forth" /\ stream' = "file" /\ Goto("line")
  /\ ungotten' = gf_regetc("file")
  /\ UNCHANGED <<then, modes, mask, in, pushed, hand, file, received, output, ghosts>>

EndLine(text, n) ==
  /\ Return /\ hand' = <<>>
  /\ lines' = Append(lines, text) /\ u3' = u3 + n

line_getc ==
  /\ pc = "line"
  /\ IF Len(hand) = LineSize \/ (AtEnd(stream) /\ hand # <<>>)
     THEN EndLine(hand, Len(hand)) /\ UNCHANGED <<in, pushed>>
     ELSE IF AtEnd(stream) THEN Return /\ UNCHANGED <<in, pushed, hand, lines, u3>>
     ELSE /\ getc(stream)
          /\ Goto(IF Next1(stream) = "n" THEN "line_lf"
                  ELSE IF Next1(stream) = "r" THEN "line_cr" ELSE "line")
          /\ UNCHANGED <<lines, u3>>
  /\ UNCHANGED <<stream, then, modes, mask, ungotten, file, received, got, ghosts>>

line_lf ==
  /\ pc = "line_lf" /\ EndLine(Front(hand), Len(hand))
  /\ UNCHANGED <<stream, then, modes, mask, in, pushed, ungotten, file, received, got, ghosts>>

(* Mutant of line_cr: what follows a carriage return is swallowed. *)
line_cr_swallow ==
  /\ pc = "line_cr"
  /\ IF AtEnd(stream) THEN EndLine(Front(hand), Len(hand)) /\ UNCHANGED <<in, pushed>>
     ELSE getc(stream) /\ Goto("line_crlf") /\ UNCHANGED <<lines, u3>>
  /\ UNCHANGED <<stream, then, modes, mask, ungotten, file, received, got, ghosts>>

(* Behind a carriage return: a line feed belongs to the line, anything     *)
(* else is put back.                                                       *)
line_cr ==
  /\ pc = "line_cr"
  /\ IF AtEnd(stream) THEN EndLine(Front(hand), Len(hand)) /\ UNCHANGED <<in, pushed>>
     ELSE /\ getc(stream) /\ UNCHANGED <<lines, u3>>
          /\ Goto(IF Next1(stream) = "n" THEN "line_crlf" ELSE "line_note")
  /\ UNCHANGED <<stream, then, modes, mask, ungotten, file, received, got, ghosts>>

line_crlf ==
  /\ pc = "line_crlf" /\ EndLine(Front(Front(hand)), Len(hand))
  /\ UNCHANGED <<stream, then, modes, mask, in, pushed, ungotten, file, received, got, ghosts>>

(* Mutant of line_char: the character put back is counted, too. *)
line_char_counts ==
  /\ pc = "line_char"
  /\ pushed' = [pushed EXCEPT ![stream] = <<Last(hand)>> \o @]
  /\ EndLine(Front(Front(hand)), Len(hand))
  /\ UNCHANGED <<stream, then, modes, mask, in, ungotten, file, received, got, ghosts>>

line_char ==
  /\ pc = "line_char"
  /\ pushed' = [pushed EXCEPT ![stream] = <<Last(hand)>> \o @]
  /\ EndLine(Front(Front(hand)), Len(hand) - 1)
  /\ UNCHANGED <<stream, then, modes, mask, in, ungotten, file, received, got, ghosts>>

-----------------------------------------------------------------------------
(* Where a signal that is not blocked leaves something half done: a        *)
(* character taken or put back and the note about it not yet made, the     *)
(* modes set and terminal_prepped not, SIGINT blocked.                     *)
Window ==
  (IF pc \in {"unget_note", "unget_char", "line_note", "line_char", "reget"} \/ hand # <<>>
     \/ (pc = "line" /\ pushed[stream] # <<>>)
   THEN {"char"} ELSE {}) \cup
  (IF pc = "prep_done" THEN {"mode"} ELSE {}) \cup
  (IF pc \in {"prep_get", "prep_set", "prep_done", "system_set", "system_run"}
   THEN {"mask"} ELSE {})

(* Mutant of graceful_exit: the terminal is left as it is. *)
graceful_exit_plain ==
  /\ pc' = "exit" /\ hand' = <<>>
  /\ UNCHANGED <<stream, then, modes, in, pushed, ungotten, file, output>>

(* graceful_exit: deprep_terminal as far as it matters to others, and exit. *)
graceful_exit ==
  /\ pc' = "exit"
  /\ tty' = IF terminal_prepped THEN otio ELSE tty
  /\ terminal_prepped' = FALSE /\ hand' = <<>>
  /\ UNCHANGED <<stream, then, otio, in, pushed, ungotten, file, output>>

(* signal_throw, throw, and gforth_go: back in Forth; or, with             *)
(* --die-on-signal, SIGPP exits.  longjmp does not restore the signal mask.*)
signal_throw ==
  /\ sigcount' = sigcount + 1
  /\ IF sigcount > 0 /\ die_on_signal THEN graceful_exit
     ELSE /\ pc' = "forth" /\ hand' = <<>>
          /\ UNCHANGED <<stream, then, modes, in, pushed, ungotten, file, output>>

(* Signals that arrive are counted, to bound them. *)
Receive == received < MaxSignals /\ received' = received + 1

Note ==
  /\ hits' = hits \cup Window
  /\ dropped' = [dropped EXCEPT ![stream] = @ + Len(hand)]

(* SIGINT is generated, and delivered unless it is blocked. *)
Interrupt ==
  /\ pc # "exit" /\ Receive /\ ~pending /\ pending' = TRUE
  /\ UNCHANGED <<pc, stream, then, modes, blocked, oset, sigcount, input, file, output, ghosts>>

Deliver ==
  /\ pc # "exit" /\ pending /\ ~blocked
  /\ signal_throw /\ Note /\ pending' = FALSE /\ UNCHANGED <<blocked, oset, received>>

(* Other signals that are translated to a throw, by signal_throw,          *)
(* fpe_handler and segv_handler: SIGALRM, SIGPIPE, SIGUSR1...              *)
OtherSignal ==
  /\ pc # "exit" /\ Receive
  /\ signal_throw /\ Note /\ UNCHANGED <<blocked, pending, oset>>

(* SIGQUIT, SIGHUP, SIGTERM, SIGXCPU *)
Quit ==
  /\ pc # "exit" /\ Receive
  /\ graceful_exit /\ Note /\ UNCHANGED mask

(* The process is stopped and continued: meanwhile the shell has set its   *)
(* own modes.  termprep: the terminal has to be prepared again.  Waiting   *)
(* in fread ends with EINTR, and key waits again.                          *)
termprep ==
  /\ pc # "exit" /\ Receive
  /\ terminal_prepped' = FALSE
  /\ tty' \in (IF ShellRestores THEN {tty} ELSE {"cooked"})
  /\ pc' = IF pc = "fread" THEN "forth" ELSE pc
  /\ hits' = hits \cup (Window \cap {"mode"})
               \cup (IF pc \in {"prep_set", "system_set"} THEN {"mode"} ELSE {})
  /\ UNCHANGED <<stream, then, otio, mask, input, file, output, dropped>>

(* bye: gforth_cleanup calls deprep_terminal. *)
gforth_cleanup ==
  /\ pc = "forth" /\ graceful_exit /\ UNCHANGED <<mask, received, ghosts>>

Primitive ==
  \/ \E s \in Streams : key_avail(s) \/ getkey(s)
  \/ read_line \/ gforth_system
Step ==
  \/ prep_start \/ prep_get \/ prep_set \/ prep_done \/ system_set \/ system_run
  \/ avail \/ unget_note \/ unget_char \/ fread \/ reget
  \/ line_getc \/ line_lf \/ line_cr \/ line_crlf \/ line_char
Signal == Interrupt \/ Deliver \/ OtherSignal \/ Quit \/ termprep

Next == Primitive \/ Step \/ Signal \/ gforth_cleanup

(* C code goes on, and a pending SIGINT is delivered when it is unblocked:  *)
(* POSIX has it delivered before sigprocmask returns.                      *)
Fairness == WF_vars(Step) /\ SF_vars(Deliver)
Spec == Init /\ [][Next]_vars /\ Fairness

-----------------------------------------------------------------------------
Rest(s) == (IF stream = s THEN hand ELSE <<>>) \o pushed[s] \o in[s]

(* No character is lost, duplicated or reordered by the lookahead of key?, *)
(* key and read-line, in any mixture of them: what was delivered, is in    *)
(* hand, was put back and is unread make up the input, and u3 counts what  *)
(* read_line consumed.  Only characters in the hands of a primitive that a *)
(* signal interrupts are dropped.                                          *)
KeysConserved ==
  /\ IsSuffix(Rest("stdin"), Typed) /\ IsSuffix(Rest("file"), file)
  /\ Len(got["stdin"]) + Len(Rest("stdin")) + dropped["stdin"] = Len(Typed)
  /\ dropped["stdin"] = 0 => got["stdin"] \o Rest("stdin") = Typed
  /\ Len(got["file"]) + u3 + Len(Rest("file")) + dropped["file"] = Len(file)

(* The lines of q from position p on, by what a line is: as many ordinary  *)
(* characters as there are and the buffer holds, and the line end if there *)
(* is one within the size.                                                 *)
IsWidth(q, p, n) ==
  /\ p + n <= Len(q) + 1
  /\ \A i \in p .. p + n - 1 : q[i] = "a"
  /\ n = LineSize \/ p + n = Len(q) + 1 \/ q[p + n] # "a"
Width(q, p) == CHOOSE n \in 0 .. LineSize : IsWidth(q, p, n)
EndWidth(q, p) ==
  IF Width(q, p) = LineSize \/ p + Width(q, p) > Len(q) THEN 0
  ELSE IF IsPrefix(<<"r", "n">>, SubSeq(q, p + Width(q, p), Len(q))) THEN 2 ELSE 1
LinesFrom(q) ==
  LET From[p \in 1 .. Len(q) + 1] ==
        IF p > Len(q) THEN <<>>
        ELSE <<SubSeq(q, p, p + Width(q, p) - 1)>> \o From[p + Width(q, p) + EndWidth(q, p)]
  IN  From
LinesOf(q) == LinesFrom(q)[1]

(* What read_line delivers are the lines of the file, whatever line ends   *)
(* it has, and though key? may have looked ahead.                          *)
LinesRight ==
  got["file"] = <<>> /\ dropped["file"] = 0 => IsPrefix(lines, LinesOf(file))

(* gf_ungottenc is true exactly if there is a character put back, when no  *)
(* signal came between the two.                                            *)
LookaheadKnown ==
  pc = "forth" /\ "char" \notin hits =>
    \A s \in Streams : /\ gf_ungottenc(s) = (pushed[s] # <<>>)
                       /\ Len(pushed[s]) <= 1

(* Whatever way the process ends, the terminal has the modes it was found  *)
(* with, unless it ends while they are being changed.                      *)
TerminalRestored == pc = "exit" /\ "mode" \notin hits => tty = "cooked"

(* In Forth, Ctrl-C works, and a prepared terminal is raw, unless another  *)
(* signal has left prep_terminal or deprep_terminal early.                 *)
InterruptsOpen ==
  pc = "forth" =>
    /\ "mask" \notin hits => ~blocked
    /\ {"mask", "mode"} \cap hits = {} => (terminal_prepped => tty = "raw")

(* Ctrl-C is not forgotten: typed while SIGINT was blocked, it is          *)
(* delivered, or the process ends.                                         *)
InterruptDelivered == pending ~> (~pending \/ pc = "exit" \/ "mask" \in hits)

(* With --die-on-signal, Gforth exits if it receives a signal. *)
DiesOnSignal == die_on_signal /\ sigcount > 0 => pc = "exit"

=============================================================================
