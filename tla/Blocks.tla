------------------------------ MODULE Blocks ------------------------------
(***************************************************************************)
(* The block wordset of Gforth (blocks.fs): a direct-mapped, write-back    *)
(* cache of 1 KB blocks between a Forth program and its blocks files.      *)
(*                                                                         *)
(* A buffer is four cells of buffer-struct: the block number it is         *)
(* assigned to, the file id it was read from, the dirty flag and the data. *)
(* A file id is a C FILE*: a handle with a position of its own; after      *)
(* close-file the C library may hand the same handle out again.            *)
(*                                                                         *)
(* A word that saves buffers makes one I/O call after the other.  The      *)
(* model keeps the loop: "word" names the word at work, "i" the buffer it  *)
(* has reached, and no client operation happens until it has returned or   *)
(* thrown.  Every I/O call may fail, at most MaxFaults times.              *)
(***************************************************************************)
EXTENDS Naturals, Sequences

CONSTANTS
  Files, Values, Blank, Nul, Torn, Absent, NoData,   \* as in BlockStore
  Fids,          \* file handles the C library can hand out
  NoFid,         \* the file id 0: no file
  NoFile,        \* the handle is closed
  Default,       \* blocks.fb
  buffers,       \* number of block buffers
  blockLimit,    \* block-limit: blocks of a file are below it
  offset,        \* block-offset: the number of a file's first block
  Unassigned,    \* the cell -1 that marks an unassigned buffer
  NoBuffer,      \* last-block before any block has been accessed
  NotIncluded,   \* the input frame was pushed by load
  Requests,      \* block numbers clients ask for
  Lengths,       \* lengths of the files found at start-up
  Faults,        \* I/O calls that may fail: "open", "seek", "write", "read"
  MaxFaults,     \* bound on the failures of one behaviour
  MaxNest        \* bound on the nesting of load and block-included

Slots  == 0 .. buffers - 1
Places == 0 .. blockLimit

ASSUME BuffersAssumption == buffers \in Nat \ {0}
ASSUME LimitAssumption ==
  /\ blockLimit \in Nat /\ offset \in Nat
  /\ Unassigned \in Nat /\ Unassigned >= blockLimit
  /\ Requests \subseteq Nat /\ Lengths \subseteq 0 .. blockLimit
  /\ MaxFaults \in Nat /\ MaxNest \in Nat
ASSUME FileAssumption ==
  /\ Default \in Files /\ NoFile \notin Files
  /\ NoFid \notin Fids /\ NotIncluded \notin Fids \cup {NoFid}
  /\ NoBuffer \notin Slots
ASSUME ContentAssumption ==
  /\ Absent \notin Values \cup {Blank, Nul, Torn}
  /\ NoData \notin Values \cup {Blank, Nul, Torn}

VARIABLES
  disk,          \* disk[f][p]: contents of place p of file f
  handleFile,    \* the file a handle is open on, or NoFile
  handlePos,     \* the position of a handle, in blocks
  blockFid,      \* block-fid
  lastBlock,     \* last-block
  bufferBlock, bufferFid, bufferDirty, blockBuffer,   \* buffer-struct
  touched,       \* auxiliary: stored into since it was read or saved
  word,          \* the block word at work, or "idle"
  i, last,       \* its loop over the buffers: next one, and the end
  want,          \* the block that "block" is to read
  newFid,        \* the file id open-blocks is switching to
  input,         \* input frames of load and block-included
  fetched,       \* source has been called for the word to interpret
  ended,         \* bye has left Gforth
  faults         \* I/O failures so far

fileVars   == <<disk, handleFile, handlePos>>
bufferVars == <<bufferBlock, bufferFid, bufferDirty, blockBuffer, touched>>
loopVars   == <<word, i, last, want, newFid>>
inputVars  == <<input, fetched, ended>>
vars == <<fileVars, blockFid, lastBlock, bufferVars, loopVars, inputVars, faults>>

Content == Values \cup {Blank, Nul, Torn}
Words == {"idle", "read", "source", "save", "flush", "open", "restore", "bye"}

(* get-buffer *)
Slot(u) == u % buffers

(* read-file stops at the end of the file and block clears the rest of the *)
(* buffer with blank.                                                      *)
Shown(c) == IF c = Absent THEN Blank ELSE c

(* write-file at place p; writing behind the end leaves a hole.            *)
Written(image, p, v) ==
  [q \in Places |->
     IF q = p THEN v
     ELSE IF q < p /\ image[q] = Absent THEN Nul ELSE image[q]]

-----------------------------------------------------------------------------
(* block-cold: no file is open, every buffer is unassigned.                *)
Init ==
  /\ disk \in [Files -> {[p \in Places |-> IF p < n THEN Blank ELSE Absent] :
                           n \in Lengths}]
  /\ handleFile = [h \in Fids |-> NoFile]
  /\ handlePos = [h \in Fids |-> 0]
  /\ blockFid = NoFid /\ lastBlock = NoBuffer
  /\ bufferBlock = [b \in Slots |-> Unassigned]
  /\ bufferFid = [b \in Slots |-> NoFid]
  /\ bufferDirty = [b \in Slots |-> FALSE]
  /\ blockBuffer = [b \in Slots |-> Nul]
  /\ touched = [b \in Slots |-> FALSE]
  /\ word = "idle" /\ i = 0 /\ last = 0 /\ want = 0 /\ newFid = NoFid
  /\ input = <<>> /\ fetched = FALSE /\ ended = FALSE /\ faults = 0

(* A client word can run: nothing is at work, and when a block is being    *)
(* interpreted the text interpreter has just parsed the word.              *)
Ready == word = "idle" /\ ~ended /\ (input = <<>> \/ fetched)

(* The I/O call k fails.                                                   *)
Fault(k) == k \in Faults /\ faults < MaxFaults /\ faults' = faults + 1

(* throw unwinds the input frames down to some catch; the text interpreter *)
(* never catches what its source throws, nor does block-included.  bye     *)
(* catches what its flush throws and leaves all the same.                  *)
Fetching ==
  /\ input # <<>>
  /\ word \in {"source", "restore"} \/ (word = "idle" /\ ~fetched)

Throw ==
  /\ word' = "idle" /\ i' = 0 /\ last' = 0 /\ want' = 0 /\ newFid' = NoFid
  /\ \E d \in 0 .. Len(input) :
       (Fetching => d < Len(input)) /\ input' = SubSeq(input, 1, d)
  /\ fetched' = FALSE /\ ended' = (word = "bye")

(* The word at work returns to the text interpreter.                       *)
Return ==
  /\ word' = "idle" /\ i' = 0 /\ last' = 0 /\ want' = 0 /\ newFid' = NoFid
  /\ fetched' = (word = "source")
  /\ UNCHANGED ended

(* The word w starts: it saves the buffers first .. end-1.                 *)
Start(w, first, end, u, h) ==
  /\ word' = w /\ i' = first /\ last' = end /\ want' = u /\ newFid' = h
  /\ fetched' = FALSE /\ UNCHANGED ended

-----------------------------------------------------------------------------
(* Handles.  get-block-fid opens blocks.fb when no file is open.           *)
Closed == {h \in Fids : handleFile[h] = NoFile}

(* The handles get-block-fid may return, and the file each one is open on. *)
CurrentFid == IF blockFid # NoFid THEN {blockFid} ELSE Closed
FileNow(h) == IF h \notin Fids THEN NoFile
              ELSE IF blockFid = NoFid /\ h \in Closed THEN Default
              ELSE handleFile[h]

(* open-file fails when told to, or when there is no handle left.          *)
OpenFails == Fault("open") \/ (Closed = {} /\ UNCHANGED faults)

(* get-block-fid returns h; block-fid and the handle table change only     *)
(* when it had to open blocks.fb.                                          *)
GetBlockFid(h) ==
  /\ blockFid' = h
  /\ handleFile' = [handleFile EXCEPT ![h] = FileNow(h)]

-----------------------------------------------------------------------------
(* save-buffer, for the buffer the loop has reached.                       *)
Saving == word # "idle" /\ i < last

(* The file id the buffer is written to: its own, or, when it has none,    *)
(* the current one.                                                        *)
WriteFid(h) == IF bufferFid[i] = NoFid THEN h ELSE bufferFid[i]

(* Mutant of WritePlace: save-buffer does not call block-position. *)
WritePlaceUnseeked(h) == handlePos[WriteFid(h)]

(* block-position moves the handle of the current file; write-file writes  *)
(* where the handle of the buffer's file stands.                           *)
WritePlace(h) ==
  IF WriteFid(h) = h THEN bufferBlock[i] - offset ELSE handlePos[WriteFid(h)]

(* The buffer is clean: nothing to do. *)
SaveClean ==
  /\ Saving /\ ~bufferDirty[i]
  /\ i' = i + 1
  /\ UNCHANGED <<fileVars, blockFid, lastBlock, bufferVars, word, last, want,
                 newFid, inputVars, faults>>

(* The buffer is marked dirty but unassigned: block-position throws -35.   *)
SaveLimit ==
  /\ Saving /\ bufferDirty[i] /\ bufferBlock[i] >= blockLimit
  /\ Throw
  /\ \E h \in IF bufferFid[i] = NoFid THEN CurrentFid ELSE {blockFid} :
       /\ IF bufferFid[i] = NoFid THEN GetBlockFid(h)
                                  ELSE UNCHANGED <<blockFid, handleFile>>
       /\ bufferFid' = [bufferFid EXCEPT ![i] = WriteFid(h)]
  /\ UNCHANGED <<disk, handlePos, lastBlock, bufferBlock, bufferDirty,
                 blockBuffer, touched, faults>>

(* The handles the step is about to use are open. *)
CanSave(h) ==
  /\ Saving /\ bufferDirty[i] /\ bufferBlock[i] < blockLimit
  /\ FileNow(h) # NoFile /\ FileNow(WriteFid(h)) # NoFile
  /\ WritePlace(h) \in Places

(* The block is positioned, written and flushed, the buffer is clean.      *)
SaveDirty ==
  \E h \in CurrentFid :
    /\ CanSave(h)
    /\ GetBlockFid(h)
    /\ handlePos' = [handlePos EXCEPT ![h] = bufferBlock[i] - offset,
                                      ![WriteFid(h)] = WritePlace(h) + 1]
    /\ disk' = [disk EXCEPT ![FileNow(WriteFid(h))] =
                  Written(@, WritePlace(h), blockBuffer[i])]
    /\ bufferFid' = [bufferFid EXCEPT ![i] = WriteFid(h)]
    /\ bufferDirty' = [bufferDirty EXCEPT ![i] = FALSE]
    /\ touched' = [touched EXCEPT ![i] = FALSE]
    /\ i' = i + 1
    /\ UNCHANGED <<lastBlock, bufferBlock, blockBuffer, word, last, want,
                   newFid, inputVars, faults>>

(* The seek fails: nothing is written and the buffer stays dirty.          *)
SaveSeekFails ==
  \E h \in CurrentFid :
    /\ CanSave(h) /\ Fault("seek")
    /\ GetBlockFid(h)
    /\ bufferFid' = [bufferFid EXCEPT ![i] = WriteFid(h)]
    /\ Throw
    /\ UNCHANGED <<disk, handlePos, lastBlock, bufferBlock, bufferDirty,
                   blockBuffer, touched>>

(* Mutant of SaveWriteFails: the dirty flag is cleared before the write.   *)
SaveWriteForgets ==
  \E h \in CurrentFid :
    /\ CanSave(h) /\ Fault("write")
    /\ GetBlockFid(h)
    /\ handlePos' = [handlePos EXCEPT ![h] = bufferBlock[i] - offset]
    /\ disk' = [disk EXCEPT ![FileNow(WriteFid(h))] =
                  Written(@, WritePlace(h), Torn)]
    /\ bufferFid' = [bufferFid EXCEPT ![i] = WriteFid(h)]
    /\ bufferDirty' = [bufferDirty EXCEPT ![i] = FALSE]
    /\ Throw
    /\ UNCHANGED <<lastBlock, bufferBlock, blockBuffer, touched>>

(* The write or the flush fails: the block on disk is torn or complete,    *)
(* the buffer stays dirty.                                                 *)
SaveWriteFails ==
  \E h \in CurrentFid :
    /\ CanSave(h) /\ Fault("write")
    /\ GetBlockFid(h)
    /\ handlePos' = [handlePos EXCEPT ![h] = bufferBlock[i] - offset]
    /\ \E v \in {Torn, blockBuffer[i]} :
         disk' = [disk EXCEPT ![FileNow(WriteFid(h))] =
                    Written(@, WritePlace(h), v)]
    /\ bufferFid' = [bufferFid EXCEPT ![i] = WriteFid(h)]
    /\ Throw
    /\ UNCHANGED <<lastBlock, bufferBlock, bufferDirty, blockBuffer, touched>>

SaveBuffer ==
  SaveClean \/ SaveLimit \/ SaveDirty \/ SaveSeekFails \/ SaveWriteFails

-----------------------------------------------------------------------------
(* block: the assigned buffer is returned, or the victim is saved first    *)
(* and the block is read into it.  by is "read" when a program asks,       *)
(* "source" when the text interpreter does.                                *)
Hit(u) == bufferBlock[Slot(u)] = u /\ bufferFid[Slot(u)] = blockFid

BlockLow(u) ==
  /\ u < offset
  /\ Throw
  /\ UNCHANGED <<fileVars, blockFid, lastBlock, bufferVars, faults>>

BlockHit(u, by) ==
  /\ u >= offset /\ Hit(u)
  /\ lastBlock' = Slot(u)
  /\ fetched' = (by = "source")
  /\ UNCHANGED <<fileVars, blockFid, bufferVars, loopVars, input, ended, faults>>

(* Mutant of BlockMiss: the victim is not saved. *)
BlockMissUnsaved(u, by) ==
  /\ u >= offset /\ ~Hit(u)
  /\ Start(by, Slot(u) + 1, Slot(u) + 1, u, NoFid)
  /\ UNCHANGED <<fileVars, blockFid, lastBlock, bufferVars, input, faults>>

BlockMiss(u, by) ==
  /\ u >= offset /\ ~Hit(u)
  /\ Start(by, Slot(u), Slot(u) + 1, u, NoFid)
  /\ UNCHANGED <<fileVars, blockFid, lastBlock, bufferVars, input, faults>>

(* block, and what does nothing but call it: buffer, updated? and list.    *)
Block(u) == Ready /\ (BlockLow(u) \/ BlockHit(u, "read") \/ BlockMiss(u, "read"))

(* The victim has been saved; the block is read into the buffer.           *)
Reading == word \in {"read", "source"} /\ i = last

ReadLimit ==
  /\ Reading /\ want >= blockLimit
  /\ Throw
  /\ UNCHANGED <<fileVars, blockFid, lastBlock, bufferVars, faults>>

ReadBlock ==
  \E h \in CurrentFid :
    LET b == Slot(want)
        p == want - offset
        c == disk[FileNow(h)][p]
    IN /\ Reading /\ want < blockLimit /\ FileNow(h) # NoFile
       /\ GetBlockFid(h)
       /\ handlePos' = [handlePos EXCEPT ![h] = IF c = Absent THEN p ELSE p + 1]
       /\ blockBuffer' = [blockBuffer EXCEPT ![b] = Shown(c)]
       /\ touched' = [touched EXCEPT ![b] = FALSE]
       /\ bufferBlock' = [bufferBlock EXCEPT ![b] = want]
       /\ bufferFid' = [bufferFid EXCEPT ![b] = h]
       /\ lastBlock' = b
       /\ Return
       /\ UNCHANGED <<disk, bufferDirty, input, faults>>

(* blocks.fb cannot be opened, or the seek fails.                          *)
ReadSeekFails ==
  /\ Reading /\ want < blockLimit
  /\ \/ blockFid = NoFid /\ OpenFails /\ UNCHANGED <<handleFile, blockFid>>
     \/ \E h \in CurrentFid : FileNow(h) # NoFile /\ Fault("seek") /\ GetBlockFid(h)
  /\ Throw
  /\ UNCHANGED <<disk, handlePos, lastBlock, bufferVars>>

(* The read fails after part of the block has arrived in the buffer, which *)
(* keeps the block number it had.                                          *)
ReadFails ==
  \E h \in CurrentFid :
    /\ Reading /\ want < blockLimit /\ FileNow(h) # NoFile /\ Fault("read")
    /\ GetBlockFid(h)
    /\ handlePos' = [handlePos EXCEPT ![h] = want - offset]
    /\ blockBuffer' = [blockBuffer EXCEPT ![Slot(want)] = Torn]
    /\ Throw
    /\ UNCHANGED <<disk, lastBlock, bufferBlock, bufferFid, bufferDirty, touched>>

Read == ReadLimit \/ ReadBlock \/ ReadSeekFails \/ ReadFails

-----------------------------------------------------------------------------
(* Client words that take one step: the text interpreter asks source again *)
(* afterwards.                                                             *)
Stepped == fetched' = FALSE /\ UNCHANGED <<loopVars, input, ended>>

(* update marks the buffer accessed last, assigned or not. *)
Update ==
  /\ Ready /\ lastBlock # NoBuffer
  /\ bufferDirty' = [bufferDirty EXCEPT ![lastBlock] = TRUE]
  /\ Stepped
  /\ UNCHANGED <<fileVars, blockFid, lastBlock, bufferBlock, bufferFid,
                 blockBuffer, touched, faults>>

(* The program stores into the buffer that block has returned. *)
Edit(v) ==
  /\ Ready /\ lastBlock # NoBuffer
  /\ blockBuffer' = [blockBuffer EXCEPT ![lastBlock] = v]
  /\ touched' = [touched EXCEPT ![lastBlock] = TRUE]
  /\ Stepped
  /\ UNCHANGED <<fileVars, blockFid, lastBlock, bufferBlock, bufferFid,
                 bufferDirty, faults>>

(* empty-buffer on the buffers of S; last-block keeps pointing at one. *)
EmptyBuffer(S) ==
  /\ bufferBlock' = [b \in Slots |-> IF b \in S THEN Unassigned ELSE bufferBlock[b]]
  /\ bufferDirty' = [b \in Slots |-> bufferDirty[b] /\ b \notin S]
  /\ UNCHANGED <<bufferFid, blockBuffer, touched>>

(* empty-buffers, and empty-buffer called for one buffer. *)
EmptyBuffers ==
  /\ Ready
  /\ \E S \in {Slots} \cup {{b} : b \in Slots} : EmptyBuffer(S)
  /\ Stepped
  /\ UNCHANGED <<fileVars, blockFid, lastBlock, faults>>

-----------------------------------------------------------------------------
(* Mutant of SaveAll: the loop runs once too often. *)
SaveAllAndOne(w, h) == Start(w, 0, buffers + 1, 0, h)

(* Words that save every buffer. *)
SaveAll(w, h) == Start(w, 0, buffers, 0, h)

(* save-buffers, flush and bye. *)
SaveBuffers(w) ==
  /\ Ready /\ w \in {"save", "flush", "bye"}
  /\ SaveAll(w, NoFid)
  /\ UNCHANGED <<fileVars, blockFid, lastBlock, bufferVars, input, faults>>

(* open-blocks and use: the new file is opened (and created if it does not *)
(* exist) before the buffers of the old one are flushed.                   *)
OpenBlocks(f) ==
  /\ Ready
  /\ \E h \in Closed :
       /\ handleFile' = [handleFile EXCEPT ![h] = f]
       /\ handlePos' = [handlePos EXCEPT ![h] = 0]
       /\ IF blockFid = NoFid
          THEN blockFid' = h /\ Stepped
          ELSE SaveAll("open", h) /\ UNCHANGED <<blockFid, input>>
  /\ UNCHANGED <<disk, lastBlock, bufferVars, faults>>

OpenBlocksFails ==
  /\ Ready /\ OpenFails
  /\ Throw
  /\ UNCHANGED <<fileVars, blockFid, lastBlock, bufferVars>>

Saved(w) == word = w /\ i = last

FinishSave ==
  /\ Saved("save")
  /\ Return
  /\ UNCHANGED <<fileVars, blockFid, lastBlock, bufferVars, input, faults>>

FinishFlush ==
  /\ Saved("flush")
  /\ EmptyBuffer(Slots)
  /\ Return
  /\ UNCHANGED <<fileVars, blockFid, lastBlock, input, faults>>

(* Mutant of FinishOpen: the buffers are saved, but not emptied. *)
FinishOpenSavesOnly ==
  /\ Saved("open")
  /\ handleFile' = [handleFile EXCEPT ![blockFid] = NoFile]
  /\ blockFid' = newFid
  /\ Return
  /\ UNCHANGED <<disk, handlePos, lastBlock, bufferVars, input, faults>>

(* The old file is closed after the flush, then block-fid is switched. *)
FinishOpen ==
  /\ Saved("open")
  /\ EmptyBuffer(Slots)
  /\ handleFile' = [handleFile EXCEPT ![blockFid] = NoFile]
  /\ blockFid' = newFid
  /\ Return
  /\ UNCHANGED <<disk, handlePos, lastBlock, input, faults>>

FinishBye ==
  /\ Saved("bye")
  /\ EmptyBuffer(Slots)
  /\ word' = "idle" /\ i' = 0 /\ last' = 0 /\ ended' = TRUE
  /\ UNCHANGED <<fileVars, blockFid, lastBlock, want, newFid, input, fetched, faults>>

-----------------------------------------------------------------------------
(* The text interpreter on blocks. *)
Top == input[Len(input)]

(* load, and what calls it: thru, +load and +thru. *)
Load(u) ==
  /\ Ready
  /\ \/ u = 0 /\ Throw
     \/ /\ u # 0 /\ Len(input) < MaxNest
        /\ input' = Append(input, [blk |-> u, outer |-> NotIncluded])
        /\ fetched' = FALSE
        /\ UNCHANGED <<loopVars, ended>>
  /\ UNCHANGED <<fileVars, blockFid, lastBlock, bufferVars, faults>>

(* source: the block is asked for again for every word that is parsed. *)
Fetch ==
  /\ word = "idle" /\ ~ended /\ input # <<>> /\ ~fetched
  /\ \/ BlockLow(Top.blk)
     \/ BlockHit(Top.blk, "source")
     \/ BlockMiss(Top.blk, "source")

(* The block is used up: load returns. *)
EndOfBlock ==
  /\ Ready /\ input # <<>> /\ Top.outer = NotIncluded
  /\ input' = SubSeq(input, 1, Len(input) - 1)
  /\ fetched' = FALSE
  /\ UNCHANGED <<fileVars, blockFid, lastBlock, bufferVars, loopVars, ended, faults>>

(* --> goes on with the next block; refill never looks whether there is    *)
(* one.  The model stops counting at the block limit.                      *)
Refill ==
  /\ Ready /\ input # <<>> /\ Top.blk < blockLimit
  /\ input' = [input EXCEPT ![Len(input)].blk = @ + 1]
  /\ fetched' = FALSE
  /\ UNCHANGED <<fileVars, blockFid, lastBlock, bufferVars, loopVars, ended, faults>>

(* Gforth has been left. *)
Gone == ended /\ UNCHANGED vars

Client ==
  \/ Update
  \/ \E v \in Values : Edit(v)
  \/ EmptyBuffers
  \/ \E w \in {"save", "flush", "bye"} : SaveBuffers(w)
  \/ \E f \in Files : OpenBlocks(f)
  \/ OpenBlocksFails
  \/ \E u \in Requests : Block(u)

Loading == (\E u \in Requests : Load(u)) \/ Fetch \/ EndOfBlock \/ Refill

Finish == FinishSave \/ FinishFlush \/ FinishOpen \/ FinishBye

Next == Client \/ Loading \/ SaveBuffer \/ Read \/ Finish \/ Gone

Spec == Init /\ [][Next]_vars

-----------------------------------------------------------------------------
(* Properties *)

Frames == [blk : Nat, outer : Fids \cup {NoFid, NotIncluded}]

TypeFiles ==
  /\ disk \in [Files -> [Places -> Content \cup {Absent}]]
  /\ handleFile \in [Fids -> Files \cup {NoFile}]
  /\ handlePos \in [Fids -> Nat]
  /\ blockFid \in Fids \cup {NoFid}
TypeBuffers ==
  /\ lastBlock \in Slots \cup {NoBuffer}
  /\ bufferBlock \in [Slots -> Nat]
  /\ bufferFid \in [Slots -> Fids \cup {NoFid}]
  /\ bufferDirty \in [Slots -> BOOLEAN]
  /\ blockBuffer \in [Slots -> Content]
  /\ touched \in [Slots -> BOOLEAN]
TypeLoop ==
  /\ word \in Words
  /\ i \in 0 .. buffers /\ last \in 0 .. buffers
  /\ want \in Nat
  /\ newFid \in Fids \cup {NoFid}
TypeInput ==
  /\ input \in Seq(Frames)
  /\ fetched \in BOOLEAN /\ ended \in BOOLEAN
  /\ faults \in Nat

(* Every variable keeps its type. *)
TypeOK == TypeFiles /\ TypeBuffers /\ TypeLoop /\ TypeInput

Assigned(b) == bufferBlock[b] < blockLimit

(* An assigned buffer is the one its block number maps to, and belongs to  *)
(* the current blocks file, whose handle is open: no write-back ever goes  *)
(* through a closed or a recycled file id (save-buffer, open-blocks).      *)
BuffersBelong ==
  /\ blockFid # NoFid => handleFile[blockFid] \in Files
  /\ \A b \in Slots : Assigned(b) =>
       /\ Slot(bufferBlock[b]) = b
       /\ bufferBlock[b] >= offset
       /\ blockFid # NoFid /\ bufferFid[b] = blockFid

(* The program has not stored into the buffer since it was read or saved,  *)
(* and it shows what the file holds.  A hole that writing past the end of  *)
(* the file left may still be shown as the blank block it was read as.     *)
Settled(b) == Assigned(b) /\ ~bufferDirty[b] /\ ~touched[b]
Shows(b) ==
  LET c == disk[handleFile[bufferFid[b]]][bufferBlock[b] - offset]
  IN blockBuffer[b] = Shown(c) \/ (c = Nul /\ blockBuffer[b] = Blank)

(* A buffer that the program has not changed shows what its file holds,    *)
(* whatever was saved, loaded, opened or failed in between: block may      *)
(* return it without reading.  This supposes that no read fails: a failed  *)
(* read leaves anything in a buffer that keeps its old block number.       *)
Coherent == \A b \in Slots : Settled(b) => Shows(b)

(* The pending change of place p of file f: the dirty buffer assigned to   *)
(* it, if there is one.                                                    *)
Pending(f, p) ==
  LET b == Slot(p + offset)
  IN IF /\ Assigned(b) /\ bufferDirty[b] /\ bufferBlock[b] = p + offset
        /\ bufferFid[b] # NoFid /\ handleFile[bufferFid[b]] = f
     THEN blockBuffer[b] ELSE NoData

(* The buffers, handles and positions of blocks.fs implement the abstract  *)
(* store: every write goes to the block the buffer is assigned to, a failed *)
(* write leaves the change pending, and no word but empty-buffers gives an *)
(* updated block up.                                                       *)
Store == INSTANCE BlockStore WITH
           store <- disk,
           pending <- [f \in Files |-> [p \in Places |-> Pending(f, p)]],
           busy <- word # "idle"
StoreSpec == Store!StoreSpec

(* bye flushes: when Gforth has been left and no I/O call has failed, no   *)
(* updated block has been left behind in a buffer.                         *)
ByeSaves ==
  ended /\ faults = 0 => \A b \in Slots : ~(Assigned(b) /\ bufferDirty[b])

=============================================================================
