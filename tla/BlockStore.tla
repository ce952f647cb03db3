---------------------------- MODULE BlockStore ----------------------------
(***************************************************************************)
(* What the block wordset promises about mass storage, without buffers,    *)
(* file handles or positions: a file is an array of blocks, an updated     *)
(* block is pending until it is written back, and a write back puts the    *)
(* pending contents into that very block of that very file.                *)
(*                                                                         *)
(* Only the client can throw pending changes away (empty-buffers), and     *)
(* only while no block word is at work.                                    *)
(***************************************************************************)
EXTENDS Naturals

CONSTANTS Files,    \* the blocks files
          Places,   \* the block positions of a file
          Values,   \* what a program can store into a block
          Blank,    \* a block of spaces: what a missing block reads as
          Nul,      \* a hole left by writing past the end of the file
          Torn,     \* what an I/O error leaves behind
          Absent,   \* the place is behind the end of the file
          NoData    \* no change is pending for the place

VARIABLES store,    \* store[f][p]: the contents of place p of file f
          pending,  \* pending[f][p]: the updated contents of the place
          busy      \* a block word is between two of its steps

storeVars == <<store, pending, busy>>

Content == Values \cup {Blank, Nul, Torn}

(* A file after v has been written at place p: writing behind the end of   *)
(* the file leaves a hole.                                                 *)
Written(image, p, v) ==
  [q \in Places |->
     IF q = p THEN v
     ELSE IF q < p /\ image[q] = Absent THEN Nul ELSE image[q]]

StoreInit ==
  /\ store \in [Files -> [Places -> Content \cup {Absent}]]
  /\ pending = [f \in Files |-> [p \in Places |-> NoData]]
  /\ busy = FALSE

(* The client stores into a block or marks it with update.                 *)
Change(f, p, v) ==
  /\ ~busy
  /\ pending' = [pending EXCEPT ![f][p] = v]
  /\ UNCHANGED <<store, busy>>

(* A pending block reaches mass storage.                                   *)
WriteBack(f, p) ==
  /\ pending[f][p] # NoData
  /\ store' = [store EXCEPT ![f] = Written(@, p, pending[f][p])]
  /\ pending' = [pending EXCEPT ![f][p] = NoData]
  /\ busy' \in BOOLEAN

(* The write back of a pending block fails, half way or only when the file *)
(* is flushed; the block stays pending.                                    *)
Tear(f, p) ==
  /\ pending[f][p] # NoData
  /\ \E v \in {Torn, pending[f][p]} :
       store' = [store EXCEPT ![f] = Written(@, p, v)]
  /\ UNCHANGED pending
  /\ busy' \in BOOLEAN

(* The client gives pending changes up.                                    *)
Discard ==
  /\ ~busy
  /\ pending' \in [Files -> [Places -> Content \cup {NoData}]]
  /\ \A f \in Files, p \in Places : pending'[f][p] \in {pending[f][p], NoData}
  /\ UNCHANGED <<store, busy>>

(* A block word starts, goes on or ends without touching any contents.     *)
Proceed == busy' \in BOOLEAN /\ UNCHANGED <<store, pending>>

StoreNext ==
  \/ \E f \in Files, p \in Places :
       \/ \E v \in Content : Change(f, p, v)
       \/ WriteBack(f, p)
       \/ Tear(f, p)
  \/ Discard
  \/ Proceed

StoreSpec == StoreInit /\ [][StoreNext]_storeVars
=============================================================================
