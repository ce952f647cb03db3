--------------------------- MODULE BlocksProofs ---------------------------
(***************************************************************************)
(* Proofs about Blocks, for any number of buffers, files, handles, blocks, *)
(* I/O failures and nested loads.                                          *)
(***************************************************************************)
EXTENDS Blocks, TLAPS

(* The loop of the word at work.  While it saves all buffers, the ones it  *)
(* has passed are clean; while it makes room for one block, that buffer is *)
(* clean once it has been saved.                                           *)
LoopInv ==
  /\ word # "restore"
  /\ word \in {"read", "source"} =>
       /\ want >= offset
       /\ i \in {Slot(want), Slot(want) + 1} /\ last = Slot(want) + 1
       /\ i = last => ~bufferDirty[Slot(want)]
  /\ word \in {"save", "flush", "open", "bye"} =>
       /\ last = buffers
       /\ \A b \in Slots : b < i => ~bufferDirty[b]
  /\ word = "open" =>
       /\ newFid \in Fids /\ handleFile[newFid] \in Files
       /\ blockFid # NoFid /\ newFid # blockFid

(* The inductive invariant. *)
BlocksInv == TypeOK /\ BuffersBelong /\ LoopInv

-----------------------------------------------------------------------------
(* get-buffer maps every block number to a buffer. *)
LEMMA SlotType == \A u \in Nat : Slot(u) \in Slots
  BY BuffersAssumption DEF Slot, Slots

(* A write keeps the shape of a file. *)
LEMMA WrittenType ==
  ASSUME NEW image \in [Places -> Content \cup {Absent}],
         NEW p \in Places, NEW v \in Content
  PROVE  Written(image, p, v) \in [Places -> Content \cup {Absent}]
  BY DEF Written, Content

LEMMA InitInv == Init => BlocksInv
  <1> SUFFICES ASSUME Init PROVE BlocksInv
    OBVIOUS
  <1>1. TypeFiles
    <2>1. \A n \in Lengths : [p \in Places |-> IF p < n THEN Blank ELSE Absent]
                              \in [Places -> Content \cup {Absent}]
      BY DEF Content
    <2>2. disk \in [Files -> [Places -> Content \cup {Absent}]]
      BY <2>1 DEF Init
    <2> QED
      BY <2>2 DEF Init, TypeFiles
  <1>2. TypeBuffers
    BY LimitAssumption DEF Init, TypeBuffers, Content
  <1>5. TypeLoop
    BY BuffersAssumption DEF Init, TypeLoop, Words
  <1>6. TypeInput
    <2>1. input \in Seq(Frames)
      BY DEF Init
    <2>2. fetched \in BOOLEAN /\ ended \in BOOLEAN
      BY DEF Init
    <2>3. faults \in Nat
      BY DEF Init
    <2> QED
      BY <2>1, <2>2, <2>3 DEF TypeInput
  <1>3. BuffersBelong
    BY LimitAssumption DEF Init, BuffersBelong, Assigned
  <1>4. LoopInv
    BY DEF Init, LoopInv
  <1> QED
    BY <1>1, <1>2, <1>3, <1>4, <1>5, <1>6 DEF BlocksInv, TypeOK

-----------------------------------------------------------------------------
(* The ways a word ends. *)
LoopTyped == TypeLoop /\ input \in Seq(Frames) /\ fetched \in BOOLEAN
             /\ ended \in BOOLEAN /\ LoopInv

LEMMA ThrowOK == BlocksInv /\ Throw => LoopTyped'
  <1> SUFFICES ASSUME BlocksInv, Throw PROVE LoopTyped'
    OBVIOUS
  <1> USE DEF BlocksInv, TypeOK
  <1>1. input \in Seq(Frames)
    BY DEF TypeInput
  <1>2. input' \in Seq(Frames)
    <2>1. PICK d \in 0 .. Len(input) : input' = SubSeq(input, 1, d)
      BY DEF Throw
    <2> QED
      BY <1>1, <2>1
  <1>3. fetched' \in BOOLEAN /\ ended' \in BOOLEAN
    BY DEF Throw
  <1>4. TypeLoop' /\ LoopInv'
    BY BuffersAssumption DEF Throw, TypeLoop, Words, LoopInv
  <1> QED
    BY <1>2, <1>3, <1>4 DEF LoopTyped

LEMMA ReturnOK == BlocksInv /\ Return /\ UNCHANGED input => LoopTyped'
  <1> SUFFICES ASSUME BlocksInv, Return, UNCHANGED input PROVE LoopTyped'
    OBVIOUS
  <1>1. TypeLoop' /\ LoopInv'
    BY BuffersAssumption DEF Return, TypeLoop, Words, LoopInv
  <1>2. fetched' \in BOOLEAN
    BY DEF Return
  <1>3. ended' \in BOOLEAN /\ input' \in Seq(Frames)
    BY DEF Return, BlocksInv, TypeOK, TypeInput
  <1> QED
    BY <1>1, <1>2, <1>3 DEF LoopTyped

LEMMA SaveAllOK ==
  ASSUME NEW w \in {"save", "flush", "open", "bye"}, NEW h \in Fids \cup {NoFid},
         BlocksInv, SaveAll(w, h), UNCHANGED input,
         w = "open" => /\ h \in Fids /\ handleFile'[h] \in Files
                       /\ blockFid' # NoFid /\ h # blockFid'
  PROVE  LoopTyped'
  <1>1. TypeLoop'
    BY BuffersAssumption DEF SaveAll, Start, TypeLoop, Words
  <1>2. LoopInv'
    BY DEF SaveAll, Start, LoopInv, Slots
  <1>3. fetched' \in BOOLEAN
    BY DEF SaveAll, Start
  <1>4. ended' \in BOOLEAN /\ input' \in Seq(Frames)
    BY DEF SaveAll, Start, BlocksInv, TypeOK, TypeInput
  <1> QED
    BY <1>1, <1>2, <1>3, <1>4 DEF LoopTyped

-----------------------------------------------------------------------------
(* The handle that get-block-fid returns is open; it is the current one    *)
(* unless blocks.fb had to be opened.                                      *)
LEMMA CurrentOpen ==
  ASSUME BlocksInv, NEW h \in CurrentFid
  PROVE  /\ h \in Fids /\ FileNow(h) \in Files
         /\ blockFid # NoFid => h = blockFid /\ FileNow(h) = handleFile[h]
         /\ blockFid = NoFid => handleFile[h] = NoFile
  BY FileAssumption
     DEF BlocksInv, TypeOK, TypeFiles, BuffersBelong, CurrentFid, FileNow, Closed

LEMMA GetFidOK ==
  ASSUME BlocksInv, NEW h \in CurrentFid, GetBlockFid(h)
  PROVE  /\ handleFile' \in [Fids -> Files \cup {NoFile}]
         /\ blockFid' = h /\ handleFile'[h] \in Files
         /\ blockFid # NoFid => blockFid' = blockFid /\ handleFile' = handleFile
  BY CurrentOpen DEF GetBlockFid, BlocksInv, TypeOK, TypeFiles

(* What save-buffer writes, and where. *)
LEMMA SaveTarget ==
  ASSUME BlocksInv, NEW h \in CurrentFid, CanSave(h)
  PROVE  /\ i \in Slots /\ Assigned(i) /\ bufferDirty[i]
         /\ blockFid # NoFid /\ h = blockFid /\ WriteFid(h) = h
         /\ bufferFid[i] = h
         /\ WritePlace(h) = bufferBlock[i] - offset /\ WritePlace(h) \in Places
         /\ FileNow(WriteFid(h)) = handleFile[h] /\ handleFile[h] \in Files
  <1>1. i \in Slots
    BY BuffersAssumption DEF CanSave, Saving, BlocksInv, TypeOK, TypeLoop, Slots
  <1>2. Assigned(i) /\ bufferDirty[i] /\ WritePlace(h) \in Places
    BY DEF CanSave, Assigned
  <1>3. blockFid # NoFid /\ bufferFid[i] = blockFid
    BY <1>1, <1>2 DEF BlocksInv, BuffersBelong
  <1>4. h = blockFid /\ FileNow(h) = handleFile[h] /\ FileNow(h) \in Files
    BY <1>3, CurrentOpen
  <1> QED
    BY <1>1, <1>2, <1>3, <1>4 DEF WriteFid, WritePlace

-----------------------------------------------------------------------------
(* The parts of BlocksInv', as the action proofs establish them. *)
Parts == TypeFiles /\ TypeBuffers /\ BuffersBelong /\ LoopTyped /\ faults \in Nat

LEMMA PartsOK == Parts' => BlocksInv'
  BY DEF Parts, BlocksInv, TypeOK, TypeInput, LoopTyped

(* save-buffer keeps the invariant. *)
LEMMA SaveBufferOK == BlocksInv /\ SaveBuffer => Parts'
  <1> SUFFICES ASSUME BlocksInv, SaveBuffer PROVE Parts'
    OBVIOUS
  <1> USE DEF BlocksInv, TypeOK
  <1>1. CASE SaveClean
    <2>1. i \in Slots
      BY <1>1, BuffersAssumption DEF SaveClean, Saving, TypeLoop, Slots
    <2>2. TypeFiles' /\ TypeBuffers'
      BY <1>1 DEF SaveClean, TypeFiles, TypeBuffers, fileVars, bufferVars
    <2>3. BuffersBelong'
      BY <1>1 DEF SaveClean, BuffersBelong, Assigned, fileVars, bufferVars
    <2>4. TypeLoop'
      BY <1>1, <2>1, BuffersAssumption DEF SaveClean, TypeLoop, Slots
    <2>5. LoopInv'
      BY <1>1, <2>1 DEF SaveClean, Saving, LoopInv, TypeLoop, Slots, fileVars, bufferVars
    <2>6. input' \in Seq(Frames) /\ fetched' \in BOOLEAN /\ ended' \in BOOLEAN
          /\ faults' \in Nat
      BY <1>1 DEF SaveClean, TypeInput, inputVars
    <2> QED
      BY <2>2, <2>3, <2>4, <2>5, <2>6 DEF Parts, LoopTyped
  <1>2. CASE SaveLimit
    <2>1. i \in Slots
      BY <1>2, BuffersAssumption DEF SaveLimit, Saving, TypeLoop, Slots
    <2>2. LoopTyped' /\ faults' \in Nat
      BY <1>2, ThrowOK DEF SaveLimit, TypeInput
    <2>3. PICK h \in IF bufferFid[i] = NoFid THEN CurrentFid ELSE {blockFid} :
            /\ IF bufferFid[i] = NoFid THEN GetBlockFid(h)
                                       ELSE UNCHANGED <<blockFid, handleFile>>
            /\ bufferFid' = [bufferFid EXCEPT ![i] = WriteFid(h)]
      BY <1>2 DEF SaveLimit
    <2>4. h \in Fids \cup {NoFid} /\ (bufferFid[i] = NoFid => h \in CurrentFid)
      BY <2>3, CurrentOpen DEF TypeFiles
    <2>5. TypeFiles'
      BY <1>2, <2>3, <2>4, GetFidOK, CurrentOpen DEF SaveLimit, TypeFiles
    <2>6. TypeBuffers'
      BY <1>2, <2>1, <2>3, <2>4 DEF SaveLimit, TypeBuffers, WriteFid
    <2>7. \A b \in Slots : Assigned(b) => b # i
      BY <1>2, <2>1, LimitAssumption DEF SaveLimit, Assigned, TypeBuffers
    <2>8. BuffersBelong'
      <3>1. CASE bufferFid[i] = NoFid
        BY <1>2, <2>1, <2>3, <2>4, <2>7, <3>1, GetFidOK, CurrentOpen, FileAssumption
           DEF SaveLimit, BuffersBelong, Assigned, TypeBuffers, TypeFiles
      <3>2. CASE bufferFid[i] # NoFid
        BY <1>2, <2>1, <2>3, <2>7, <3>2
           DEF SaveLimit, BuffersBelong, Assigned, TypeBuffers
      <3> QED
        BY <3>1, <3>2
    <2> QED
      BY <2>2, <2>5, <2>6, <2>8 DEF Parts
  <1>3. CASE SaveDirty
    <2>1. PICK h \in CurrentFid :
            /\ CanSave(h)
            /\ GetBlockFid(h)
            /\ handlePos' = [handlePos EXCEPT ![h] = bufferBlock[i] - offset,
                                              ![WriteFid(h)] = WritePlace(h) + 1]
            /\ disk' = [disk EXCEPT ![FileNow(WriteFid(h))] =
                          Written(@, WritePlace(h), blockBuffer[i])]
            /\ bufferFid' = [bufferFid EXCEPT ![i] = WriteFid(h)]
            /\ bufferDirty' = [bufferDirty EXCEPT ![i] = FALSE]
            /\ touched' = [touched EXCEPT ![i] = FALSE]
            /\ i' = i + 1
            /\ UNCHANGED <<lastBlock, bufferBlock, blockBuffer, word, last, want,
                           newFid, inputVars, faults>>
      BY <1>3 DEF SaveDirty
    <2>2. /\ i \in Slots /\ Assigned(i) /\ h = blockFid /\ WriteFid(h) = h
          /\ bufferFid[i] = h /\ WritePlace(h) \in Places
          /\ WritePlace(h) = bufferBlock[i] - offset
          /\ handleFile[h] \in Files /\ FileNow(WriteFid(h)) = handleFile[h]
          /\ blockFid' = blockFid /\ handleFile' = handleFile
      BY <2>1, SaveTarget, GetFidOK
    <2>3. h \in Fids
      BY <2>1, CurrentOpen
    <2>4. TypeFiles'
      <3>1. Written(disk[handleFile[h]], WritePlace(h), blockBuffer[i])
              \in [Places -> Content \cup {Absent}]
        BY <2>2, WrittenType DEF TypeFiles, TypeBuffers
      <3>2. disk' \in [Files -> [Places -> Content \cup {Absent}]]
        BY <2>1, <2>2, <3>1 DEF TypeFiles
      <3>3. handlePos' \in [Fids -> Nat]
        BY <2>1, <2>2, <2>3 DEF TypeFiles, Places
      <3> QED
        BY <2>2, <3>2, <3>3 DEF TypeFiles
    <2>5. TypeBuffers'
      BY <2>1, <2>2, <2>3 DEF TypeBuffers
    <2>6. BuffersBelong'
      BY <2>1, <2>2 DEF BuffersBelong, Assigned, TypeBuffers
    <2>7. TypeLoop'
      BY <2>1, <2>2, BuffersAssumption DEF TypeLoop, Slots
    <2>8. LoopInv'
      BY <2>1, <2>2 DEF CanSave, Saving, LoopInv, TypeLoop, TypeBuffers, Slots
    <2>9. input' \in Seq(Frames) /\ fetched' \in BOOLEAN /\ ended' \in BOOLEAN
          /\ faults' \in Nat
      BY <2>1 DEF TypeInput, inputVars
    <2> QED
      BY <2>4, <2>5, <2>6, <2>7, <2>8, <2>9 DEF Parts, LoopTyped
  <1>4. CASE SaveSeekFails
    <2>1. PICK h \in CurrentFid :
            /\ CanSave(h) /\ Fault("seek") /\ GetBlockFid(h) /\ Throw
            /\ bufferFid' = [bufferFid EXCEPT ![i] = WriteFid(h)]
            /\ UNCHANGED <<disk, handlePos, lastBlock, bufferBlock, bufferDirty,
                           blockBuffer, touched>>
      BY <1>4 DEF SaveSeekFails
    <2>2. /\ i \in Slots /\ WriteFid(h) = bufferFid[i]
          /\ blockFid' = blockFid /\ handleFile' = handleFile
      BY <2>1, SaveTarget, GetFidOK
    <2>3. bufferFid' = bufferFid
      BY <2>1, <2>2 DEF TypeBuffers
    <2>4. TypeFiles' /\ TypeBuffers' /\ BuffersBelong'
      BY <2>1, <2>2, <2>3 DEF TypeFiles, TypeBuffers, BuffersBelong, Assigned
    <2>5. LoopTyped' /\ faults' \in Nat
      BY <2>1, ThrowOK DEF Fault, TypeInput
    <2> QED
      BY <2>4, <2>5 DEF Parts
  <1>5. CASE SaveWriteFails
    <2>1. PICK h \in CurrentFid, v \in {Torn, blockBuffer[i]} :
            /\ CanSave(h) /\ Fault("write") /\ GetBlockFid(h) /\ Throw
            /\ handlePos' = [handlePos EXCEPT ![h] = bufferBlock[i] - offset]
            /\ disk' = [disk EXCEPT ![FileNow(WriteFid(h))] =
                          Written(@, WritePlace(h), v)]
            /\ bufferFid' = [bufferFid EXCEPT ![i] = WriteFid(h)]
            /\ UNCHANGED <<lastBlock, bufferBlock, bufferDirty, blockBuffer, touched>>
      BY <1>5 DEF SaveWriteFails
    <2>2. /\ i \in Slots /\ WriteFid(h) = bufferFid[i] /\ WriteFid(h) = h
          /\ WritePlace(h) \in Places /\ WritePlace(h) = bufferBlock[i] - offset
          /\ handleFile[h] \in Files /\ FileNow(WriteFid(h)) = handleFile[h]
          /\ blockFid' = blockFid /\ handleFile' = handleFile
      BY <2>1, SaveTarget, GetFidOK
    <2>3. bufferFid' = bufferFid
      BY <2>1, <2>2 DEF TypeBuffers
    <2>4. v \in Content
      BY <2>1, <2>2 DEF TypeBuffers, Content
    <2>5. Written(disk[handleFile[h]], WritePlace(h), v)
              \in [Places -> Content \cup {Absent}]
      BY <2>2, <2>4, WrittenType DEF TypeFiles
    <2>6. disk' \in [Files -> [Places -> Content \cup {Absent}]]
      BY <2>1, <2>2, <2>5 DEF TypeFiles
    <2>7. TypeFiles'
      <3>1. handlePos' \in [Fids -> Nat]
        BY <2>1, <2>2, CurrentOpen DEF TypeFiles, Places
      <3> QED
        BY <2>2, <2>6, <3>1 DEF TypeFiles
    <2>8. TypeBuffers' /\ BuffersBelong'
      BY <2>1, <2>2, <2>3 DEF TypeBuffers, BuffersBelong, Assigned
    <2>9. LoopTyped' /\ faults' \in Nat
      BY <2>1, ThrowOK DEF Fault, TypeInput
    <2> QED
      BY <2>7, <2>8, <2>9 DEF Parts
  <1> QED
    BY <1>1, <1>2, <1>3, <1>4, <1>5 DEF SaveBuffer

-----------------------------------------------------------------------------
(* block and source: choosing the buffer. *)
LEMMA AccessOK ==
  ASSUME BlocksInv, NEW u \in Nat, NEW by \in {"read", "source"},
         BlockLow(u) \/ BlockHit(u, by) \/ (BlockMiss(u, by) /\ word = "idle")
  PROVE  Parts'
  <1> USE DEF BlocksInv, TypeOK
  <1>1. CASE BlockLow(u)
    <2>1. LoopTyped' /\ faults' \in Nat
      BY <1>1, ThrowOK DEF BlockLow, TypeInput
    <2>2. TypeFiles' /\ TypeBuffers' /\ BuffersBelong'
      BY <1>1 DEF BlockLow, TypeFiles, TypeBuffers, BuffersBelong, Assigned,
                  fileVars, bufferVars
    <2> QED
      BY <2>1, <2>2 DEF Parts
  <1>2. CASE BlockHit(u, by)
    <2>1. TypeFiles' /\ BuffersBelong'
      BY <1>2 DEF BlockHit, TypeFiles, BuffersBelong, Assigned, fileVars, bufferVars
    <2>2. TypeBuffers'
      BY <1>2, SlotType DEF BlockHit, TypeBuffers, bufferVars
    <2>3. TypeLoop' /\ LoopInv'
      BY <1>2 DEF BlockHit, TypeLoop, LoopInv, loopVars, bufferVars, fileVars
    <2>4. fetched' \in BOOLEAN
      BY <1>2 DEF BlockHit
    <2>5. input' \in Seq(Frames) /\ ended' \in BOOLEAN /\ faults' \in Nat
      BY <1>2 DEF BlockHit, TypeInput
    <2> QED
      BY <2>1, <2>2, <2>3, <2>4, <2>5 DEF Parts, LoopTyped
  <1>3. CASE BlockMiss(u, by)
    <2>1. TypeFiles' /\ TypeBuffers' /\ BuffersBelong'
      BY <1>3 DEF BlockMiss, TypeFiles, TypeBuffers, BuffersBelong, Assigned,
                  fileVars, bufferVars
    <2>2. TypeLoop' /\ LoopInv'
      BY <1>3, SlotType, BuffersAssumption
         DEF BlockMiss, Start, TypeLoop, LoopInv, Words, Slots
    <2>3. fetched' \in BOOLEAN
      BY <1>3 DEF BlockMiss, Start
    <2>4. input' \in Seq(Frames) /\ ended' \in BOOLEAN /\ faults' \in Nat
      BY <1>3 DEF BlockMiss, Start, TypeInput
    <2> QED
      BY <2>1, <2>2, <2>3, <2>4 DEF Parts, LoopTyped
  <1> QED
    BY <1>1, <1>2, <1>3

(* block: reading into the buffer that has been made free. *)
LEMMA ReadOK == BlocksInv /\ Read => Parts'
  <1> SUFFICES ASSUME BlocksInv, Read PROVE Parts'
    OBVIOUS
  <1> USE DEF BlocksInv, TypeOK
  <1>0. want \in Nat /\ Slot(want) \in Slots
        /\ (Reading => want >= offset /\ ~bufferDirty[Slot(want)])
    BY SlotType DEF Reading, LoopInv, TypeLoop
  <1>1. CASE ReadLimit
    <2>1. LoopTyped' /\ faults' \in Nat
      BY <1>1, ThrowOK DEF ReadLimit, TypeInput
    <2>2. TypeFiles' /\ TypeBuffers' /\ BuffersBelong'
      BY <1>1 DEF ReadLimit, TypeFiles, TypeBuffers, BuffersBelong, Assigned,
                  fileVars, bufferVars
    <2> QED
      BY <2>1, <2>2 DEF Parts
  <1>2. CASE ReadBlock
    <2> DEFINE b == Slot(want)
               p == want - offset
    <2>1. PICK h \in CurrentFid :
            /\ Reading /\ want < blockLimit /\ FileNow(h) # NoFile
            /\ GetBlockFid(h)
            /\ handlePos' = [handlePos EXCEPT ![h] =
                               IF disk[FileNow(h)][p] = Absent THEN p ELSE p + 1]
            /\ blockBuffer' = [blockBuffer EXCEPT ![b] = Shown(disk[FileNow(h)][p])]
            /\ touched' = [touched EXCEPT ![b] = FALSE]
            /\ bufferBlock' = [bufferBlock EXCEPT ![b] = want]
            /\ bufferFid' = [bufferFid EXCEPT ![b] = h]
            /\ lastBlock' = b
            /\ Return
            /\ UNCHANGED <<disk, bufferDirty, input, faults>>
      BY <1>2 DEF ReadBlock
    <2>2. h \in Fids /\ FileNow(h) \in Files /\ b \in Slots /\ p \in Places
      BY <1>0, <2>1, CurrentOpen, LimitAssumption DEF Places
    <2>3. TypeFiles'
      <3>1. handlePos' \in [Fids -> Nat]
        BY <2>1, <2>2 DEF TypeFiles, Places
      <3> QED
        BY <2>1, <2>2, <3>1, GetFidOK DEF TypeFiles
    <2>4. Shown(disk[FileNow(h)][p]) \in Content
      BY <2>2 DEF TypeFiles, Shown, Content
    <2>5. TypeBuffers'
      BY <1>0, <2>1, <2>2, <2>4 DEF TypeBuffers
    <2>6. BuffersBelong'
      <3>1. blockFid' # NoFid /\ handleFile'[blockFid'] \in Files
            /\ blockFid' = h /\ (blockFid # NoFid => blockFid' = blockFid)
        BY <2>1, <2>2, GetFidOK, FileAssumption
      <3>2. ASSUME NEW c \in Slots, Assigned(c)'
            PROVE  Slot(bufferBlock'[c]) = c /\ bufferBlock'[c] >= offset
                   /\ bufferFid'[c] = blockFid'
        <4>1. CASE c = b
          BY <1>0, <2>1, <2>2, <3>1, <4>1 DEF TypeBuffers
        <4>2. CASE c # b
          <5>1. bufferBlock'[c] = bufferBlock[c] /\ bufferFid'[c] = bufferFid[c]
            BY <2>1, <2>2, <4>2 DEF TypeBuffers
          <5> QED
            BY <3>1, <3>2, <5>1 DEF BuffersBelong, Assigned
        <4> QED
          BY <4>1, <4>2
      <3> QED
        BY <3>1, <3>2 DEF BuffersBelong
    <2>7. LoopTyped' /\ faults' \in Nat
      BY <2>1, ReturnOK DEF TypeInput
    <2> QED
      BY <2>3, <2>5, <2>6, <2>7 DEF Parts
  <1>3. CASE ReadSeekFails
    <2>1. Throw /\ UNCHANGED <<disk, handlePos, lastBlock, bufferVars>>
      BY <1>3 DEF ReadSeekFails
    <2>2. LoopTyped'
      BY <2>1, ThrowOK
    <2>3. CASE blockFid = NoFid /\ OpenFails /\ UNCHANGED <<handleFile, blockFid>>
      <3>1. faults' \in Nat
        BY <2>3 DEF OpenFails, Fault, TypeInput
      <3>2. TypeFiles' /\ TypeBuffers' /\ BuffersBelong'
        BY <2>1, <2>3 DEF TypeFiles, TypeBuffers, BuffersBelong, Assigned, bufferVars
      <3> QED
        BY <2>2, <3>1, <3>2 DEF Parts
    <2>4. ASSUME NEW h \in CurrentFid, Fault("seek"), GetBlockFid(h) PROVE Parts'
      <3>1. faults' \in Nat
        BY <2>4 DEF Fault, TypeInput
      <3>2. h \in Fids /\ h # NoFid
        BY CurrentOpen, FileAssumption
      <3>3. TypeFiles' /\ TypeBuffers'
        BY <2>1, <2>4, <3>2, GetFidOK DEF TypeFiles, TypeBuffers, bufferVars
      <3>4. BuffersBelong'
        BY <2>1, <2>4, <3>2, GetFidOK DEF BuffersBelong, Assigned, bufferVars
      <3> QED
        BY <2>2, <3>1, <3>3, <3>4 DEF Parts
    <2> QED
      BY <1>3, <2>3, <2>4 DEF ReadSeekFails
  <1>4. CASE ReadFails
    <2>1. PICK h \in CurrentFid :
            /\ Reading /\ want < blockLimit /\ Fault("read") /\ GetBlockFid(h)
            /\ handlePos' = [handlePos EXCEPT ![h] = want - offset]
            /\ blockBuffer' = [blockBuffer EXCEPT ![Slot(want)] = Torn]
            /\ Throw
            /\ UNCHANGED <<disk, lastBlock, bufferBlock, bufferFid, bufferDirty, touched>>
      BY <1>4 DEF ReadFails
    <2>2. LoopTyped' /\ faults' \in Nat
      BY <2>1, ThrowOK DEF Fault, TypeInput
    <2>3. h \in Fids /\ h # NoFid
      BY CurrentOpen, FileAssumption
    <2>4. TypeFiles'
      <3>1. handlePos' \in [Fids -> Nat]
        BY <1>0, <2>1, <2>3, LimitAssumption DEF TypeFiles
      <3> QED
        BY <2>1, <2>3, <3>1, GetFidOK DEF TypeFiles
    <2>5. TypeBuffers'
      BY <1>0, <2>1 DEF TypeBuffers, Content
    <2>6. BuffersBelong'
      BY <2>1, <2>3, GetFidOK DEF BuffersBelong, Assigned
    <2> QED
      BY <2>2, <2>4, <2>5, <2>6 DEF Parts
  <1> QED
    BY <1>1, <1>2, <1>3, <1>4 DEF Read

-----------------------------------------------------------------------------
(* A client word of one step leaves the loop as it is.  It may mark or     *)
(* empty buffers only while no word is at work.                            *)
LEMMA SteppedOK ==
  ASSUME BlocksInv, word = "idle", Stepped
  PROVE  LoopTyped'
  <1> USE DEF BlocksInv, TypeOK
  <1>1. TypeLoop' /\ LoopInv'
    BY DEF Stepped, loopVars, TypeLoop, LoopInv
  <1>2. fetched' \in BOOLEAN
    BY DEF Stepped
  <1>3. input' \in Seq(Frames) /\ ended' \in BOOLEAN
    BY DEF Stepped, TypeInput
  <1> QED
    BY <1>1, <1>2, <1>3 DEF LoopTyped

LEMMA EmptyOK ==
  ASSUME BlocksInv, NEW S \in SUBSET Slots, EmptyBuffer(S), UNCHANGED lastBlock
  PROVE  /\ TypeBuffers'
         /\ \A b \in Slots : Assigned(b)' => Assigned(b) /\ b \notin S
                              /\ bufferBlock'[b] = bufferBlock[b]
                              /\ bufferFid'[b] = bufferFid[b]
  <1>1. bufferDirty' \in [Slots -> BOOLEAN]
    BY DEF EmptyBuffer
  <1>2. TypeBuffers'
    BY <1>1, LimitAssumption DEF EmptyBuffer, BlocksInv, TypeOK, TypeBuffers
  <1>3. \A b \in Slots : Assigned(b)' => Assigned(b) /\ b \notin S
                              /\ bufferBlock'[b] = bufferBlock[b]
                              /\ bufferFid'[b] = bufferFid[b]
    BY LimitAssumption DEF EmptyBuffer, Assigned
  <1> QED
    BY <1>2, <1>3

LEMMA ClientOK == BlocksInv /\ Client => Parts'
  <1> SUFFICES ASSUME BlocksInv, Client PROVE Parts'
    OBVIOUS
  <1> USE DEF BlocksInv, TypeOK
  <1>1. CASE Update
    <2>1. LoopTyped' /\ faults' \in Nat
      BY <1>1, SteppedOK DEF Update, Ready, TypeInput
    <2>2. TypeFiles' /\ BuffersBelong'
      BY <1>1 DEF Update, TypeFiles, BuffersBelong, Assigned, fileVars
    <2>3. TypeBuffers'
      BY <1>1 DEF Update, TypeBuffers
    <2> QED
      BY <2>1, <2>2, <2>3 DEF Parts
  <1>2. ASSUME NEW v \in Values, Edit(v) PROVE Parts'
    <2>1. LoopTyped' /\ faults' \in Nat
      BY <1>2, SteppedOK DEF Edit, Ready, TypeInput
    <2>2. TypeFiles' /\ BuffersBelong'
      BY <1>2 DEF Edit, TypeFiles, BuffersBelong, Assigned, fileVars
    <2>3. TypeBuffers'
      BY <1>2 DEF Edit, TypeBuffers, Content
    <2> QED
      BY <2>1, <2>2, <2>3 DEF Parts
  <1>3. CASE EmptyBuffers
    <2>1. LoopTyped' /\ faults' \in Nat
      BY <1>3, SteppedOK DEF EmptyBuffers, Ready, TypeInput
    <2>2. TypeFiles'
      BY <1>3 DEF EmptyBuffers, TypeFiles, fileVars
    <2>3. PICK S \in SUBSET Slots : EmptyBuffer(S)
      BY <1>3 DEF EmptyBuffers
    <2>4. TypeBuffers' /\ BuffersBelong'
      BY <1>3, <2>3, EmptyOK DEF EmptyBuffers, BuffersBelong, fileVars
    <2> QED
      BY <2>1, <2>2, <2>4 DEF Parts
  <1>4. ASSUME NEW w \in {"save", "flush", "bye"}, SaveBuffers(w) PROVE Parts'
    <2>1. LoopTyped' /\ faults' \in Nat
      BY <1>4, SaveAllOK DEF SaveBuffers, TypeInput
    <2>2. TypeFiles' /\ TypeBuffers' /\ BuffersBelong'
      BY <1>4 DEF SaveBuffers, TypeFiles, TypeBuffers, BuffersBelong, Assigned,
                  fileVars, bufferVars
    <2> QED
      BY <2>1, <2>2 DEF Parts
  <1>5. ASSUME NEW f \in Files, OpenBlocks(f) PROVE Parts'
    <2>1. PICK h \in Closed :
            /\ handleFile' = [handleFile EXCEPT ![h] = f]
            /\ handlePos' = [handlePos EXCEPT ![h] = 0]
            /\ IF blockFid = NoFid
               THEN blockFid' = h /\ Stepped
               ELSE SaveAll("open", h) /\ UNCHANGED <<blockFid, input>>
      BY <1>5 DEF OpenBlocks
    <2>2. UNCHANGED <<disk, lastBlock, bufferVars, faults>> /\ word = "idle"
      BY <1>5 DEF OpenBlocks, Ready
    <2>3. h \in Fids /\ handleFile[h] = NoFile /\ h # NoFid /\ handleFile'[h] = f
      BY <2>1, FileAssumption DEF Closed, TypeFiles
    <2>4. blockFid # NoFid => h # blockFid
      BY <2>3, FileAssumption DEF BuffersBelong
    <2>5. TypeFiles' /\ TypeBuffers'
      BY <2>1, <2>2, <2>3 DEF TypeFiles, TypeBuffers, bufferVars
    <2>6. BuffersBelong'
      BY <2>1, <2>2, <2>3, <2>4 DEF BuffersBelong, Assigned, bufferVars, TypeFiles
    <2>7. LoopTyped'
      <3>1. CASE blockFid = NoFid
        BY <2>1, <2>2, <3>1, SteppedOK
      <3>2. CASE blockFid # NoFid
        BY <2>1, <2>3, <2>4, <3>2, SaveAllOK
      <3> QED
        BY <3>1, <3>2
    <2> QED
      BY <2>2, <2>5, <2>6, <2>7 DEF Parts, TypeInput
  <1>6. CASE OpenBlocksFails
    <2>1. LoopTyped'
      BY <1>6, ThrowOK DEF OpenBlocksFails
    <2>2. faults' \in Nat
      BY <1>6 DEF OpenBlocksFails, OpenFails, Fault, TypeInput
    <2>3. TypeFiles' /\ TypeBuffers' /\ BuffersBelong'
      BY <1>6 DEF OpenBlocksFails, TypeFiles, TypeBuffers, BuffersBelong, Assigned,
                  fileVars, bufferVars
    <2> QED
      BY <2>1, <2>2, <2>3 DEF Parts
  <1>7. ASSUME NEW u \in Requests, Block(u) PROVE Parts'
    BY <1>7, AccessOK, LimitAssumption DEF Block, Ready
  <1> QED
    BY <1>1, <1>2, <1>3, <1>4, <1>5, <1>6, <1>7 DEF Client

-----------------------------------------------------------------------------
(* load, source, refill and the end of a block. *)
LEMMA LoadingOK == BlocksInv /\ Loading => Parts'
  <1> SUFFICES ASSUME BlocksInv, Loading PROVE Parts'
    OBVIOUS
  <1> USE DEF BlocksInv, TypeOK
  <1>0. input # <<>> => /\ Len(input) \in 1 .. Len(input) /\ Len(input) \in Nat
                        /\ Top \in Frames
    BY DEF TypeInput, Top
  (* What these actions have in common when they only change the frames. *)
  <1>1. ASSUME input' \in Seq(Frames), fetched' = FALSE,
               UNCHANGED <<fileVars, blockFid, lastBlock, bufferVars, loopVars, ended, faults>>
        PROVE  Parts'
    <2>1. TypeFiles' /\ TypeBuffers' /\ BuffersBelong'
      BY <1>1 DEF TypeFiles, TypeBuffers, BuffersBelong, Assigned, fileVars, bufferVars
    <2>2. TypeLoop' /\ LoopInv'
      BY <1>1 DEF TypeLoop, LoopInv, loopVars, bufferVars, fileVars
    <2>3. fetched' \in BOOLEAN
      BY <1>1
    <2>4. ended' \in BOOLEAN /\ faults' \in Nat
      BY <1>1 DEF TypeInput
    <2> QED
      BY <1>1, <2>1, <2>2, <2>3, <2>4 DEF Parts, LoopTyped
  <1>2. ASSUME NEW u \in Requests, Load(u) PROVE Parts'
    <2>1. CASE u = 0 /\ Throw
      <3>1. LoopTyped' /\ faults' \in Nat
        BY <1>2, <2>1, ThrowOK DEF Load, TypeInput
      <3>2. TypeFiles' /\ TypeBuffers' /\ BuffersBelong'
        BY <1>2 DEF Load, TypeFiles, TypeBuffers, BuffersBelong, Assigned,
                    fileVars, bufferVars
      <3> QED
        BY <3>1, <3>2 DEF Parts
    <2>2. CASE /\ input' = Append(input, [blk |-> u, outer |-> NotIncluded])
               /\ fetched' = FALSE
               /\ UNCHANGED <<loopVars, ended>>
      <3>1. [blk |-> u, outer |-> NotIncluded] \in Frames
        BY LimitAssumption DEF Frames
      <3>2. input' \in Seq(Frames)
        BY <2>2, <3>1 DEF TypeInput
      <3> QED
        BY <1>1, <1>2, <2>2, <3>2 DEF Load
    <2> QED
      BY <1>2, <2>1, <2>2 DEF Load
  <1>3. CASE Fetch
    <2>1. Top.blk \in Nat
      BY <1>0, <1>3 DEF Fetch, Frames
    <2> QED
      BY <1>3, <2>1, AccessOK DEF Fetch
  <1>4. CASE EndOfBlock
    <2>1. input' \in Seq(Frames)
      BY <1>0, <1>4 DEF EndOfBlock, TypeInput
    <2> QED
      BY <1>1, <1>4, <2>1 DEF EndOfBlock
  <1>5. CASE Refill
    <2>1. input' = [input EXCEPT ![Len(input)] = [Top EXCEPT !.blk = @ + 1]]
      BY <1>5 DEF Refill, Top
    <2>2. [Top EXCEPT !.blk = @ + 1] \in Frames
      BY <1>0, <1>5 DEF Refill, Frames
    <2>3. input' \in Seq(Frames)
      BY <1>0, <1>5, <2>1, <2>2 DEF Refill, TypeInput
    <2> QED
      BY <1>1, <1>5, <2>3 DEF Refill
  <1> QED
    BY <1>2, <1>3, <1>4, <1>5 DEF Loading

(* The words that have saved every buffer. *)
LEMMA FinishOK == BlocksInv /\ Finish => Parts'
  <1> SUFFICES ASSUME BlocksInv, Finish PROVE Parts'
    OBVIOUS
  <1> USE DEF BlocksInv, TypeOK
  <1>1. CASE FinishSave
    <2>1. LoopTyped' /\ faults' \in Nat
      BY <1>1, ReturnOK DEF FinishSave, TypeInput
    <2>2. TypeFiles' /\ TypeBuffers' /\ BuffersBelong'
      BY <1>1 DEF FinishSave, TypeFiles, TypeBuffers, BuffersBelong, Assigned,
                  fileVars, bufferVars
    <2> QED
      BY <2>1, <2>2 DEF Parts
  <1>2. CASE FinishFlush
    <2>1. LoopTyped' /\ faults' \in Nat
      BY <1>2, ReturnOK DEF FinishFlush, TypeInput
    <2>2. TypeFiles'
      BY <1>2 DEF FinishFlush, TypeFiles, fileVars
    <2>3. TypeBuffers' /\ BuffersBelong'
      BY <1>2, EmptyOK DEF FinishFlush, BuffersBelong, fileVars
    <2> QED
      BY <2>1, <2>2, <2>3 DEF Parts
  <1>3. CASE FinishOpen
    <2>1. LoopTyped' /\ faults' \in Nat
      BY <1>3, ReturnOK DEF FinishOpen, TypeInput
    <2>2. /\ newFid \in Fids /\ handleFile[newFid] \in Files /\ blockFid \in Fids
          /\ newFid # blockFid
      BY <1>3 DEF FinishOpen, Saved, LoopInv, TypeFiles
    <2>3. TypeFiles'
      BY <1>3, <2>2 DEF FinishOpen, TypeFiles
    <2>4. TypeBuffers' /\ \A b \in Slots : ~Assigned(b)'
      BY <1>3, EmptyOK DEF FinishOpen
    <2>5. BuffersBelong'
      BY <1>3, <2>2, <2>4 DEF FinishOpen, BuffersBelong, TypeFiles
    <2> QED
      BY <2>1, <2>3, <2>4, <2>5 DEF Parts
  <1>4. CASE FinishBye
    <2>1. TypeFiles'
      BY <1>4 DEF FinishBye, TypeFiles, fileVars
    <2>2. TypeBuffers' /\ BuffersBelong'
      BY <1>4, EmptyOK DEF FinishBye, BuffersBelong, fileVars
    <2>3. TypeLoop' /\ LoopInv'
      BY <1>4, BuffersAssumption DEF FinishBye, TypeLoop, LoopInv, Words
    <2>4. ended' \in BOOLEAN
      BY <1>4 DEF FinishBye
    <2>5. input' \in Seq(Frames) /\ fetched' \in BOOLEAN /\ faults' \in Nat
      BY <1>4 DEF FinishBye, TypeInput
    <2> QED
      BY <2>1, <2>2, <2>3, <2>4, <2>5 DEF Parts, LoopTyped
  <1> QED
    BY <1>1, <1>2, <1>3, <1>4 DEF Finish

LEMMA StutterOK == BlocksInv /\ UNCHANGED vars => BlocksInv'
  BY DEF BlocksInv, TypeOK, TypeFiles, TypeBuffers, TypeLoop, TypeInput, BuffersBelong,
         Assigned, LoopInv, vars, fileVars, bufferVars, loopVars, inputVars

(* BlocksInv holds in every reachable state: blocks.fs never assigns a     *)
(* buffer to a file other than the current, open one, and a word that      *)
(* saves buffers leaves only clean ones behind it.                         *)
THEOREM BlocksInvariant == Spec => []BlocksInv
  <1>1. BlocksInv /\ [Next]_vars => BlocksInv'
    BY SaveBufferOK, ReadOK, ClientOK, LoadingOK, FinishOK, StutterOK, PartsOK
       DEF Next, Gone
  <1> QED
    BY InitInv, <1>1, PTL DEF Spec

(* Type correctness. *)
THEOREM TypeCorrect == Spec => []TypeOK
  <1>1. BlocksInv => TypeOK
    BY DEF BlocksInv
  <1> QED
    BY BlocksInvariant, <1>1, PTL

(* An assigned buffer belongs to the current blocks file, and that file is *)
(* open (open-blocks, save-buffer, block).                                 *)
THEOREM AssignedBelong == Spec => []BuffersBelong
  <1>1. BlocksInv => BuffersBelong
    BY DEF BlocksInv
  <1> QED
    BY BlocksInvariant, <1>1, PTL

-----------------------------------------------------------------------------
(* Coherence.  A step that changes no file keeps the buffers it leaves     *)
(* settled as they were.                                                   *)
LEMMA CoherentFrame ==
  ASSUME Coherent, disk' = disk,
         \A b \in Slots : Settled(b)' =>
            /\ Settled(b) /\ bufferBlock'[b] = bufferBlock[b]
            /\ blockBuffer'[b] = blockBuffer[b]
            /\ handleFile'[bufferFid'[b]] = handleFile[bufferFid[b]]
  PROVE  Coherent'
  BY DEF Coherent, Shows

(* Two assigned buffers hold different blocks. *)
LEMMA DistinctBlocks ==
  ASSUME BlocksInv, NEW b \in Slots, NEW c \in Slots, b # c, Assigned(b), Assigned(c)
  PROVE  bufferBlock[b] - offset # bufferBlock[c] - offset
  BY LimitAssumption DEF BlocksInv, TypeOK, TypeBuffers, BuffersBelong

(* Writing place p shows at place q at most as a hole. *)
LEMMA WrittenElsewhere ==
  ASSUME NEW image \in [Places -> Content \cup {Absent}],
         NEW p \in Places, NEW q \in Places, p # q, NEW v
  PROVE  \/ Written(image, p, v)[q] = image[q]
         \/ image[q] = Absent /\ Written(image, p, v)[q] = Nul
  BY DEF Written

(* A write-back keeps the other buffers coherent. *)
LEMMA CoherentWrite ==
  ASSUME BlocksInv, Coherent, NEW h \in CurrentFid, CanSave(h), NEW v,
         disk' = [disk EXCEPT ![FileNow(WriteFid(h))] = Written(@, WritePlace(h), v)],
         handleFile' = handleFile, bufferFid' = bufferFid, bufferBlock' = bufferBlock,
         blockBuffer' = blockBuffer,
         \A b \in Slots : Settled(b)' => Settled(b) \/ (b = i /\ v = blockBuffer[i])
  PROVE  Coherent'
  <1> USE DEF BlocksInv, TypeOK
  <1> DEFINE f == handleFile[h]
  <1>1. /\ i \in Slots /\ Assigned(i) /\ bufferDirty[i] /\ h = blockFid /\ bufferFid[i] = h
        /\ WritePlace(h) = bufferBlock[i] - offset /\ WritePlace(h) \in Places
        /\ f \in Files /\ FileNow(WriteFid(h)) = f
    BY SaveTarget
  <1>2. disk'[f] = Written(disk[f], WritePlace(h), v)
    BY <1>1 DEF TypeFiles
  <1> SUFFICES ASSUME NEW b \in Slots, Settled(b)' PROVE Shows(b)'
    BY DEF Coherent
  <1>3. Assigned(b) /\ bufferFid[b] = h
    BY <1>1 DEF Settled, Assigned, BuffersBelong
  <1>4. CASE b = i
    <2>1. ~Settled(b)
      BY <1>1, <1>4 DEF Settled
    <2>2. v = blockBuffer[i] /\ v \in Content
      BY <1>1, <2>1, <1>4 DEF TypeBuffers
    <2>3. disk'[f][WritePlace(h)] = v
      BY <1>1, <1>2 DEF Written
    <2> QED
      BY <1>1, <1>4, <2>2, <2>3, ContentAssumption DEF Shows, Shown, Content
  <1>5. CASE b # i
    <2> DEFINE q == bufferBlock[b] - offset
    <2>1. q \in Places
      BY <1>3, LimitAssumption DEF BuffersBelong, Assigned, Places, TypeBuffers
    <2>2. q # WritePlace(h)
      BY <1>1, <1>3, <1>5, DistinctBlocks
    <2>3. \/ disk'[f][q] = disk[f][q]
          \/ disk[f][q] = Absent /\ disk'[f][q] = Nul
      BY <1>1, <1>2, <2>1, <2>2, WrittenElsewhere DEF TypeFiles
    <2>4. Shows(b)
      BY <1>5 DEF Coherent
    <2> QED
      BY <1>1, <1>3, <2>3, <2>4, ContentAssumption DEF Shows, Shown
  <1> QED
    BY <1>4, <1>5

LEMMA CoherentSave == BlocksInv /\ Coherent /\ SaveBuffer => Coherent'
  <1> SUFFICES ASSUME BlocksInv, Coherent, SaveBuffer PROVE Coherent'
    OBVIOUS
  <1> USE DEF BlocksInv, TypeOK
  <1>1. CASE SaveClean
    BY <1>1, CoherentFrame DEF SaveClean, Settled, Assigned, fileVars, bufferVars
  <1>2. CASE SaveLimit
    <2>1. i \in Slots
      BY <1>2, BuffersAssumption DEF SaveLimit, Saving, TypeLoop, Slots
    <2>2. PICK h \in IF bufferFid[i] = NoFid THEN CurrentFid ELSE {blockFid} :
            /\ IF bufferFid[i] = NoFid THEN GetBlockFid(h)
                                       ELSE UNCHANGED <<blockFid, handleFile>>
            /\ bufferFid' = [bufferFid EXCEPT ![i] = WriteFid(h)]
      BY <1>2 DEF SaveLimit
    <2>3. ASSUME NEW b \in Slots, Settled(b)'
          PROVE  Settled(b) /\ bufferFid'[b] = bufferFid[b] /\ handleFile' = handleFile
      <3>1. Settled(b) /\ b # i
        BY <1>2, <2>1, <2>3, LimitAssumption
           DEF SaveLimit, Settled, Assigned, TypeBuffers
      <3>2. blockFid # NoFid
        BY <3>1 DEF Settled, BuffersBelong
      <3> QED
        BY <2>2, <3>1, <3>2, GetFidOK DEF TypeBuffers
    <2> QED
      BY <1>2, <2>3, CoherentFrame DEF SaveLimit
  <1>3. CASE SaveDirty
    <2>1. PICK h \in CurrentFid :
            /\ CanSave(h) /\ GetBlockFid(h)
            /\ disk' = [disk EXCEPT ![FileNow(WriteFid(h))] =
                          Written(@, WritePlace(h), blockBuffer[i])]
            /\ bufferFid' = [bufferFid EXCEPT ![i] = WriteFid(h)]
            /\ bufferDirty' = [bufferDirty EXCEPT ![i] = FALSE]
            /\ touched' = [touched EXCEPT ![i] = FALSE]
            /\ UNCHANGED <<bufferBlock, blockBuffer>>
      BY <1>3 DEF SaveDirty
    <2>2. bufferFid' = bufferFid /\ handleFile' = handleFile
      BY <2>1, SaveTarget, GetFidOK DEF TypeBuffers
    <2>3. \A b \in Slots : Settled(b)' => Settled(b) \/ b = i
      BY <2>1 DEF Settled, Assigned, TypeBuffers
    <2> QED
      BY <2>1, <2>2, <2>3, CoherentWrite
  <1>4. CASE SaveSeekFails
    <2>1. PICK h \in CurrentFid :
            /\ CanSave(h) /\ GetBlockFid(h)
            /\ bufferFid' = [bufferFid EXCEPT ![i] = WriteFid(h)]
            /\ UNCHANGED <<disk, bufferBlock, bufferDirty, blockBuffer, touched>>
      BY <1>4 DEF SaveSeekFails
    <2>2. bufferFid' = bufferFid /\ handleFile' = handleFile
      BY <2>1, SaveTarget, GetFidOK DEF TypeBuffers
    <2> QED
      BY <2>1, <2>2, CoherentFrame DEF Settled, Assigned
  <1>5. CASE SaveWriteFails
    <2>1. PICK h \in CurrentFid, v \in {Torn, blockBuffer[i]} :
            /\ CanSave(h) /\ GetBlockFid(h)
            /\ disk' = [disk EXCEPT ![FileNow(WriteFid(h))] =
                          Written(@, WritePlace(h), v)]
            /\ bufferFid' = [bufferFid EXCEPT ![i] = WriteFid(h)]
            /\ UNCHANGED <<bufferBlock, bufferDirty, blockBuffer, touched>>
      BY <1>5 DEF SaveWriteFails
    <2>2. bufferFid' = bufferFid /\ handleFile' = handleFile
      BY <2>1, SaveTarget, GetFidOK DEF TypeBuffers
    <2>3. \A b \in Slots : Settled(b)' => Settled(b)
      BY <2>1 DEF Settled, Assigned
    <2> QED
      BY <2>1, <2>2, <2>3, CoherentWrite
  <1> QED
    BY <1>1, <1>2, <1>3, <1>4, <1>5 DEF SaveBuffer

LEMMA CoherentRead ==
  "read" \notin Faults /\ BlocksInv /\ Coherent /\ Read => Coherent'
  <1> SUFFICES ASSUME "read" \notin Faults, BlocksInv, Coherent, Read PROVE Coherent'
    OBVIOUS
  <1> USE DEF BlocksInv, TypeOK
  <1>1. CASE ReadLimit
    BY <1>1, CoherentFrame DEF ReadLimit, Settled, Assigned, fileVars, bufferVars
  <1>2. CASE ReadBlock
    <2> DEFINE s == Slot(want)
               p == want - offset
    <2>1. PICK h \in CurrentFid :
            /\ GetBlockFid(h)
            /\ blockBuffer' = [blockBuffer EXCEPT ![s] = Shown(disk[FileNow(h)][p])]
            /\ touched' = [touched EXCEPT ![s] = FALSE]
            /\ bufferBlock' = [bufferBlock EXCEPT ![s] = want]
            /\ bufferFid' = [bufferFid EXCEPT ![s] = h]
            /\ UNCHANGED <<disk, bufferDirty>>
      BY <1>2 DEF ReadBlock
    <2>2. s \in Slots /\ h \in Fids
      BY <2>1, SlotType, CurrentOpen DEF TypeLoop
    <2> SUFFICES ASSUME NEW b \in Slots, Settled(b)' PROVE Shows(b)'
      BY DEF Coherent
    <2>3. CASE b = s
      <3>1. bufferFid'[b] = h /\ bufferBlock'[b] = want
            /\ blockBuffer'[b] = Shown(disk[FileNow(h)][p])
        BY <2>1, <2>2, <2>3 DEF TypeBuffers
      <3>2. handleFile'[h] = FileNow(h)
        BY <2>1, <2>2 DEF GetBlockFid, TypeFiles
      <3> QED
        BY <2>1, <3>1, <3>2 DEF Shows
    <2>4. CASE b # s
      <3>1. /\ bufferFid'[b] = bufferFid[b] /\ bufferBlock'[b] = bufferBlock[b]
            /\ blockBuffer'[b] = blockBuffer[b] /\ touched'[b] = touched[b]
        BY <2>1, <2>2, <2>4 DEF TypeBuffers
      <3>2. Settled(b)
        BY <2>1, <3>1 DEF Settled, Assigned
      <3>3. handleFile' = handleFile
        BY <2>1, <3>2, GetFidOK DEF Settled, BuffersBelong
      <3> QED
        BY <2>1, <3>1, <3>2, <3>3 DEF Coherent, Shows
    <2> QED
      BY <2>3, <2>4
  <1>3. CASE ReadSeekFails
    <2>1. ASSUME NEW b \in Slots, Settled(b) PROVE handleFile' = handleFile
      <3>1. blockFid # NoFid
        BY <2>1 DEF Settled, BuffersBelong
      <3> QED
        BY <1>3, <3>1, GetFidOK DEF ReadSeekFails
    <2> QED
      BY <1>3, <2>1, CoherentFrame DEF ReadSeekFails, Settled, Assigned, bufferVars
  <1>4. CASE ReadFails
    BY <1>4 DEF ReadFails, Fault
  <1> QED
    BY <1>1, <1>2, <1>3, <1>4 DEF Read

LEMMA CoherentClient == BlocksInv /\ Coherent /\ (Client \/ Loading \/ Finish) => Coherent'
  <1> SUFFICES ASSUME BlocksInv, Coherent, Client \/ Loading \/ Finish PROVE Coherent'
    OBVIOUS
  <1> USE DEF BlocksInv, TypeOK
  <1>1. ASSUME UNCHANGED <<fileVars, bufferVars>> PROVE Coherent'
    BY <1>1, CoherentFrame DEF Settled, Assigned, fileVars, bufferVars
  <1>2. ASSUME NEW S \in SUBSET Slots, EmptyBuffer(S), UNCHANGED <<lastBlock, disk>>,
               handleFile' = handleFile \/ S = Slots
        PROVE  Coherent'
    <2>1. ASSUME NEW b \in Slots, Settled(b)'
          PROVE  Settled(b) /\ bufferBlock'[b] = bufferBlock[b]
                 /\ bufferFid'[b] = bufferFid[b] /\ handleFile' = handleFile
                 /\ blockBuffer'[b] = blockBuffer[b]
      BY <1>2, <2>1, EmptyOK DEF Settled, EmptyBuffer
    <2> QED
      BY <1>2, <2>1, CoherentFrame
  <1>3. CASE Update
    <2>1. \A b \in Slots : Settled(b)' => Settled(b)
      BY <1>3 DEF Update, Settled, Assigned, TypeBuffers
    <2> QED
      BY <1>3, <2>1, CoherentFrame DEF Update, fileVars
  <1>4. ASSUME NEW v \in Values, Edit(v) PROVE Coherent'
    <2>1. \A b \in Slots : Settled(b)' => Settled(b) /\ blockBuffer'[b] = blockBuffer[b]
      BY <1>4 DEF Edit, Settled, Assigned, TypeBuffers
    <2> QED
      BY <1>4, <2>1, CoherentFrame DEF Edit, fileVars
  <1>5. CASE EmptyBuffers
    <2>1. PICK S \in SUBSET Slots : EmptyBuffer(S)
      BY <1>5 DEF EmptyBuffers
    <2> QED
      BY <1>2, <1>5, <2>1 DEF EmptyBuffers, fileVars
  <1>6. ASSUME NEW f \in Files, OpenBlocks(f) PROVE Coherent'
    <2>1. PICK h \in Closed : handleFile' = [handleFile EXCEPT ![h] = f]
      BY <1>6 DEF OpenBlocks
    <2>2. UNCHANGED <<disk, bufferVars>>
      BY <1>6 DEF OpenBlocks
    <2>3. ASSUME NEW b \in Slots, Settled(b)
          PROVE  handleFile'[bufferFid[b]] = handleFile[bufferFid[b]]
      <3>1. bufferFid[b] = blockFid /\ blockFid \in Fids /\ handleFile[blockFid] \in Files
        BY <2>3 DEF Settled, BuffersBelong, TypeFiles
      <3> QED
        BY <2>1, <3>1, FileAssumption DEF Closed, TypeFiles
    <2> QED
      BY <2>2, <2>3, CoherentFrame DEF Settled, Assigned, bufferVars
  <1>7. CASE FinishFlush \/ FinishBye \/ FinishOpen
    BY <1>2, <1>7 DEF FinishFlush, FinishBye, FinishOpen, fileVars
  <1>8. CASE OpenBlocksFails \/ (\E w \in {"save", "flush", "bye"} : SaveBuffers(w))
    BY <1>1, <1>8 DEF OpenBlocksFails, SaveBuffers
  <1>9. CASE (\E u \in Requests : Block(u)) \/ Fetch
    BY <1>1, <1>9 DEF Block, Fetch, BlockLow, BlockHit, BlockMiss
  <1>10. CASE (\E u \in Requests : Load(u)) \/ EndOfBlock \/ Refill \/ FinishSave
    BY <1>1, <1>10 DEF Load, EndOfBlock, Refill, FinishSave
  <1> QED
    BY <1>3, <1>4, <1>5, <1>6, <1>7, <1>8, <1>9, <1>10 DEF Client, Loading, Finish

(* As long as no read fails, a buffer the program has not changed shows    *)
(* what its file holds: block may return it without reading (blocks.fs     *)
(* block, save-buffer, open-blocks).                                       *)
THEOREM CoherentBuffers ==
  ASSUME "read" \notin Faults
  PROVE  Spec => []Coherent
  <1>1. Init => Coherent
    BY LimitAssumption DEF Init, Coherent, Settled, Assigned
  <1>2. BlocksInv /\ Coherent /\ UNCHANGED vars => Coherent'
    BY CoherentFrame DEF vars, fileVars, bufferVars, Settled, Assigned
  <1>3. BlocksInv /\ Coherent /\ [Next]_vars => Coherent'
    BY <1>2, CoherentSave, CoherentRead, CoherentClient DEF Next, Gone
  <1> QED
    BY <1>1, <1>3, BlocksInvariant, PTL DEF Spec

-----------------------------------------------------------------------------
(* Refinement.  A buffer holds a pending change when it is assigned and    *)
(* dirty; a step that changes no such buffer and no file is a Proceed of   *)
(* the abstract store.                                                     *)
Held(b) == Assigned(b) /\ bufferDirty[b]

LEMMA PendingFrame ==
  ASSUME \A b \in Slots : Held(b)' <=> Held(b),
         \A b \in Slots : Held(b) =>
            /\ bufferBlock'[b] = bufferBlock[b] /\ bufferFid'[b] = bufferFid[b]
            /\ blockBuffer'[b] = blockBuffer[b]
            /\ handleFile'[bufferFid[b]] = handleFile[bufferFid[b]]
  PROVE  \A f \in Files, p \in Places : Pending(f, p)' = Pending(f, p)
  <1> SUFFICES ASSUME NEW f \in Files, NEW p \in Places
               PROVE  Pending(f, p)' = Pending(f, p)
    OBVIOUS
  <1> DEFINE b == Slot(p + offset)
  <1>1. b \in Slots
    BY SlotType, LimitAssumption DEF Places
  <1>2. CASE Held(b)
    BY <1>1, <1>2 DEF Pending, Held
  <1>3. CASE ~Held(b)
    BY <1>1, <1>3 DEF Pending, Held
  <1> QED
    BY <1>2, <1>3

LEMMA ProceedFrame ==
  ASSUME disk' = disk,
         \A f \in Files, p \in Places : Pending(f, p)' = Pending(f, p)
  PROVE  Store!StoreNext
  <1>1. [f \in Files |-> [p \in Places |-> Pending(f, p)]]'
          = [f \in Files |-> [p \in Places |-> Pending(f, p)]]
    OBVIOUS
  <1>2. (word # "idle")' \in BOOLEAN
    OBVIOUS
  <1>3. Store!Proceed
    BY <1>1, <1>2 DEF Store!Proceed
  <1> QED
    BY <1>3 DEF Store!StoreNext

LEMMA StoreInitOK == Init => Store!StoreInit
  <1> SUFFICES ASSUME Init PROVE Store!StoreInit
    OBVIOUS
  <1>1. TypeFiles
    BY InitInv DEF BlocksInv, TypeOK
  <1>2. disk \in [Files -> [Places -> Store!Content \cup {Absent}]]
    BY <1>1 DEF TypeFiles, Content, Store!Content
  <1>3. \A f \in Files, p \in Places : Pending(f, p) = NoData
    BY SlotType, LimitAssumption DEF Init, Pending, Places
  <1>4. (word # "idle") = FALSE
    BY DEF Init
  <1> QED
    BY <1>2, <1>3, <1>4 DEF Store!StoreInit

(* The pending changes, as the refinement mapping shows them. *)
Pend == [f \in Files |-> [p \in Places |-> Pending(f, p)]]

(* An assigned buffer stands for one place of one file, and changing it    *)
(* changes what is pending there and nowhere else.                         *)
LEMMA PendingOne ==
  ASSUME BlocksInv, NEW b \in Slots, Assigned(b),
         bufferBlock' = bufferBlock, bufferFid' = bufferFid, handleFile' = handleFile,
         \A c \in Slots : c # b => /\ bufferDirty'[c] <=> bufferDirty[c]
                                   /\ blockBuffer'[c] = blockBuffer[c],
         NEW f, f = handleFile[blockFid], NEW p, p = bufferBlock[b] - offset
  PROVE  /\ f \in Files /\ p \in Places
         /\ Pending(f, p) = IF bufferDirty[b] THEN blockBuffer[b] ELSE NoData
         /\ Pending(f, p)' = IF bufferDirty'[b] THEN blockBuffer'[b] ELSE NoData
         /\ Pend' = [Pend EXCEPT ![f][p] = Pending(f, p)']
  <1> USE DEF BlocksInv, TypeOK
  <1>1. /\ bufferFid[b] = blockFid /\ blockFid # NoFid /\ f \in Files
        /\ bufferBlock[b] >= offset /\ bufferBlock[b] \in Nat /\ Slot(bufferBlock[b]) = b
        /\ bufferBlock[b] < blockLimit
    BY DEF BuffersBelong, TypeBuffers, Assigned
  <1>2. p \in Places /\ p + offset = bufferBlock[b]
    BY <1>1, LimitAssumption DEF Places
  <1>3. /\ Pending(f, p) = IF bufferDirty[b] THEN blockBuffer[b] ELSE NoData
        /\ Pending(f, p)' = IF bufferDirty'[b] THEN blockBuffer'[b] ELSE NoData
    BY <1>1, <1>2 DEF Pending, Assigned
  <1>4. ASSUME NEW g \in Files, NEW q \in Places, g # f \/ q # p
        PROVE  Pending(g, q)' = Pending(g, q)
    <2> DEFINE c == Slot(q + offset)
    <2>1. c \in Slots
      BY SlotType, LimitAssumption DEF Places
    <2>2. CASE c # b
      BY <2>1, <2>2 DEF Pending, Assigned
    <2>3. CASE c = b /\ q # p
      <3>1. bufferBlock[c] # q + offset
        BY <1>2, <2>3, LimitAssumption DEF Places
      <3> QED
        BY <3>1 DEF Pending
    <2>4. CASE c = b /\ g # f
      BY <1>1, <2>4 DEF Pending
    <2> QED
      BY <1>4, <2>2, <2>3, <2>4
  <1>5. Pend' = [Pend EXCEPT ![f][p] = Pending(f, p)']
    <2>1. Pend' = [g \in Files |-> [q \in Places |-> Pending(g, q)']]
      BY DEF Pend
    <2>2. ASSUME NEW g \in Files
          PROVE  [q \in Places |-> Pending(g, q)']
                   = IF g = f THEN [Pend[g] EXCEPT ![p] = Pending(f, p)'] ELSE Pend[g]
      BY <1>1, <1>2, <1>4 DEF Pend
    <2>3. [Pend EXCEPT ![f][p] = Pending(f, p)']
            = [g \in Files |-> IF g = f THEN [Pend[g] EXCEPT ![p] = Pending(f, p)']
                                         ELSE Pend[g]]
      <3>1. Pend = [g \in Files |-> Pend[g]]
        BY DEF Pend
      <3> QED
        BY <1>1, <3>1
    <2> QED
      BY <2>1, <2>2, <2>3
  <1> QED
    BY <1>1, <1>2, <1>3, <1>5

(* A write-back, complete or failed, is the abstract one.                  *)
LEMMA StoreSave == BlocksInv /\ SaveBuffer => Store!StoreNext
  <1> SUFFICES ASSUME BlocksInv, SaveBuffer PROVE Store!StoreNext
    OBVIOUS
  <1> USE DEF BlocksInv, TypeOK
  <1>0. (word # "idle")' \in BOOLEAN
    OBVIOUS
  <1>1. CASE SaveClean
    BY <1>1, PendingFrame, ProceedFrame
       DEF SaveClean, Held, Assigned, fileVars, bufferVars
  <1>2. CASE SaveLimit
    <2>1. i \in Slots
      BY <1>2, BuffersAssumption DEF SaveLimit, Saving, TypeLoop, Slots
    <2>2. PICK h \in IF bufferFid[i] = NoFid THEN CurrentFid ELSE {blockFid} :
            /\ IF bufferFid[i] = NoFid THEN GetBlockFid(h)
                                       ELSE UNCHANGED <<blockFid, handleFile>>
            /\ bufferFid' = [bufferFid EXCEPT ![i] = WriteFid(h)]
      BY <1>2 DEF SaveLimit
    <2>3. ASSUME NEW b \in Slots, Held(b)
          PROVE  bufferFid'[b] = bufferFid[b] /\ handleFile' = handleFile
      <3>1. b # i
        BY <1>2, <2>1, <2>3, LimitAssumption DEF SaveLimit, Held, Assigned, TypeBuffers
      <3>2. blockFid # NoFid
        BY <2>3 DEF Held, BuffersBelong
      <3> QED
        BY <2>2, <3>1, <3>2, GetFidOK DEF TypeBuffers
    <2> QED
      BY <1>2, <2>3, PendingFrame, ProceedFrame DEF SaveLimit, Held, Assigned
  <1>3. CASE SaveDirty
    <2>1. PICK h \in CurrentFid :
            /\ CanSave(h) /\ GetBlockFid(h)
            /\ disk' = [disk EXCEPT ![FileNow(WriteFid(h))] =
                          Written(@, WritePlace(h), blockBuffer[i])]
            /\ bufferFid' = [bufferFid EXCEPT ![i] = WriteFid(h)]
            /\ bufferDirty' = [bufferDirty EXCEPT ![i] = FALSE]
            /\ UNCHANGED <<bufferBlock, blockBuffer>>
      BY <1>3 DEF SaveDirty
    <2> DEFINE f == handleFile[blockFid]
               p == bufferBlock[i] - offset
    <2>2. /\ i \in Slots /\ Assigned(i) /\ bufferDirty[i] /\ FileNow(WriteFid(h)) = f
          /\ WritePlace(h) = p /\ bufferFid' = bufferFid /\ handleFile' = handleFile
      BY <2>1, SaveTarget, GetFidOK DEF TypeBuffers
    <2>3. \A c \in Slots : c # i => bufferDirty'[c] = bufferDirty[c]
      BY <2>1, <2>2 DEF TypeBuffers
    <2>4. ~bufferDirty'[i]
      BY <2>1, <2>2 DEF TypeBuffers
    <2>5. /\ f \in Files /\ p \in Places /\ Pending(f, p) = blockBuffer[i]
          /\ Pend' = [Pend EXCEPT ![f][p] = NoData]
      BY <2>1, <2>2, <2>3, <2>4, PendingOne
    <2>6. Pend[f][p] = blockBuffer[i] /\ Pend[f][p] # NoData
      BY <2>2, <2>5, ContentAssumption DEF Pend, TypeBuffers, Content
    <2>7. disk' = [disk EXCEPT ![f] = Store!Written(@, p, Pend[f][p])]
      BY <2>1, <2>2, <2>6 DEF Written, Store!Written
    <2>8. Store!WriteBack(f, p)
      BY <1>0, <2>5, <2>6, <2>7 DEF Store!WriteBack, Pend
    <2> QED
      BY <2>5, <2>8 DEF Store!StoreNext
  <1>4. CASE SaveSeekFails
    <2>1. PICK h \in CurrentFid :
            /\ CanSave(h) /\ GetBlockFid(h)
            /\ bufferFid' = [bufferFid EXCEPT ![i] = WriteFid(h)]
            /\ UNCHANGED <<disk, bufferBlock, bufferDirty, blockBuffer>>
      BY <1>4 DEF SaveSeekFails
    <2>2. bufferFid' = bufferFid /\ handleFile' = handleFile
      BY <2>1, SaveTarget, GetFidOK DEF TypeBuffers
    <2> QED
      BY <2>1, <2>2, PendingFrame, ProceedFrame DEF Held, Assigned
  <1>5. CASE SaveWriteFails
    <2>1. PICK h \in CurrentFid, v \in {Torn, blockBuffer[i]} :
            /\ CanSave(h) /\ GetBlockFid(h)
            /\ disk' = [disk EXCEPT ![FileNow(WriteFid(h))] =
                          Written(@, WritePlace(h), v)]
            /\ bufferFid' = [bufferFid EXCEPT ![i] = WriteFid(h)]
            /\ UNCHANGED <<bufferBlock, bufferDirty, blockBuffer>>
      BY <1>5 DEF SaveWriteFails
    <2> DEFINE f == handleFile[blockFid]
               p == bufferBlock[i] - offset
    <2>2. /\ i \in Slots /\ Assigned(i) /\ bufferDirty[i] /\ FileNow(WriteFid(h)) = f
          /\ WritePlace(h) = p /\ bufferFid' = bufferFid /\ handleFile' = handleFile
      BY <2>1, SaveTarget, GetFidOK DEF TypeBuffers
    <2>3. /\ f \in Files /\ p \in Places /\ Pending(f, p) = blockBuffer[i]
      BY <2>1, <2>2, PendingOne
    <2>4. Pend[f][p] = blockBuffer[i] /\ Pend[f][p] # NoData
      BY <2>2, <2>3, ContentAssumption DEF Pend, TypeBuffers, Content
    <2>5. \A g \in Files, q \in Places : Pending(g, q)' = Pending(g, q)
      BY <2>1, <2>2, PendingFrame DEF Held, Assigned
    <2>6. Pend' = Pend
      BY <2>5 DEF Pend
    <2>7. disk' = [disk EXCEPT ![f] = Store!Written(@, p, v)]
      BY <2>1, <2>2 DEF Written, Store!Written
    <2>8. Store!Tear(f, p)
      BY <1>0, <2>1, <2>4, <2>6, <2>7 DEF Store!Tear, Pend
    <2> QED
      BY <2>3, <2>8 DEF Store!StoreNext
  <1> QED
    BY <1>1, <1>2, <1>3, <1>4, <1>5 DEF SaveBuffer

(* A read changes nothing that is pending: its buffer has been saved. *)
LEMMA StoreRead == BlocksInv /\ Read => Store!StoreNext
  <1> SUFFICES ASSUME BlocksInv, Read PROVE Store!StoreNext
    OBVIOUS
  <1> USE DEF BlocksInv, TypeOK
  <1>0. Slot(want) \in Slots /\ (Reading => ~bufferDirty[Slot(want)])
    BY SlotType DEF Reading, LoopInv, TypeLoop
  <1>1. CASE ReadLimit
    BY <1>1, PendingFrame, ProceedFrame
       DEF ReadLimit, Held, Assigned, fileVars, bufferVars
  <1>2. CASE ReadBlock \/ ReadFails
    <2>1. PICK h \in CurrentFid :
            /\ Reading /\ GetBlockFid(h) /\ UNCHANGED <<disk, bufferDirty>>
            /\ \A b \in Slots : b # Slot(want) =>
                 /\ bufferBlock'[b] = bufferBlock[b] /\ bufferFid'[b] = bufferFid[b]
                 /\ blockBuffer'[b] = blockBuffer[b]
      BY <1>0, <1>2 DEF ReadBlock, ReadFails, TypeBuffers
    <2>2. ASSUME NEW b \in Slots, Held(b)
          PROVE  b # Slot(want) /\ handleFile' = handleFile
      <3>1. b # Slot(want) /\ blockFid # NoFid
        BY <1>0, <2>1, <2>2 DEF Held, BuffersBelong
      <3> QED
        BY <2>1, <3>1, GetFidOK
    <2>3. \A b \in Slots : Held(b)' <=> Held(b)
      BY <1>0, <2>1 DEF Held, Assigned
    <2> QED
      BY <2>1, <2>2, <2>3, PendingFrame, ProceedFrame
  <1>3. CASE ReadSeekFails
    <2>1. ASSUME NEW b \in Slots, Held(b) PROVE handleFile' = handleFile
      <3>1. blockFid # NoFid
        BY <2>1 DEF Held, BuffersBelong
      <3> QED
        BY <1>3, <3>1, GetFidOK DEF ReadSeekFails
    <2> QED
      BY <1>3, <2>1, PendingFrame, ProceedFrame
         DEF ReadSeekFails, Held, Assigned, bufferVars
  <1> QED
    BY <1>1, <1>2, <1>3 DEF Read

(* Client words change, discard or keep what is pending. *)
LEMMA StoreClient ==
  BlocksInv /\ (Client \/ Loading \/ Finish) => Store!StoreNext
  <1> SUFFICES ASSUME BlocksInv, Client \/ Loading \/ Finish PROVE Store!StoreNext
    OBVIOUS
  <1> USE DEF BlocksInv, TypeOK
  <1>1. ASSUME UNCHANGED <<fileVars, bufferVars>> PROVE Store!StoreNext
    BY <1>1, PendingFrame, ProceedFrame DEF Held, Assigned, fileVars, bufferVars
  (* update and a store into the last buffer. *)
  <1>2. ASSUME Ready, lastBlock \in Slots, Stepped,
               UNCHANGED <<fileVars, bufferBlock, bufferFid>>,
               \A c \in Slots : c # lastBlock => /\ bufferDirty'[c] <=> bufferDirty[c]
                                                /\ blockBuffer'[c] = blockBuffer[c],
               bufferDirty[lastBlock] => bufferDirty'[lastBlock],
               blockBuffer'[lastBlock] \in Content
        PROVE  Store!StoreNext
    <2> DEFINE b == lastBlock
               f == handleFile[blockFid]
               p == bufferBlock[b] - offset
    <2>1. CASE ~Assigned(b)
      <3>1. \A c \in Slots : Held(c)' <=> Held(c)
        BY <1>2, <2>1 DEF Held, Assigned
      <3>2. \A c \in Slots : Held(c) => c # b
        BY <2>1 DEF Held
      <3> QED
        BY <1>2, <3>1, <3>2, PendingFrame, ProceedFrame DEF fileVars
    <2>2. CASE Assigned(b) /\ ~bufferDirty'[b]
      <3>1. \A c \in Slots : Held(c)' <=> Held(c)
        BY <1>2, <2>2 DEF Held, Assigned
      <3>2. \A c \in Slots : Held(c) => c # b
        BY <1>2, <2>2 DEF Held
      <3> QED
        BY <1>2, <3>1, <3>2, PendingFrame, ProceedFrame DEF fileVars
    <2>3. CASE Assigned(b) /\ bufferDirty'[b]
      <3>1. /\ f \in Files /\ p \in Places
            /\ Pend' = [Pend EXCEPT ![f][p] = blockBuffer'[b]]
        BY <1>2, <2>3, PendingOne DEF fileVars
      <3>2. word = "idle" /\ word' = "idle"
        BY <1>2 DEF Ready, Stepped, loopVars
      <3>3. blockBuffer'[b] \in Store!Content
        BY <1>2 DEF Content, Store!Content
      <3>4. Store!Change(f, p, blockBuffer'[b])
        BY <1>2, <3>1, <3>2 DEF Store!Change, Pend, fileVars
      <3> QED
        BY <3>1, <3>3, <3>4 DEF Store!StoreNext
    <2> QED
      BY <2>1, <2>2, <2>3
  <1>3. CASE Update
    <2>1. lastBlock \in Slots
      BY <1>3 DEF Update, TypeBuffers
    <2> QED
      BY <1>2, <1>3, <2>1 DEF Update, TypeBuffers
  <1>4. ASSUME NEW v \in Values, Edit(v) PROVE Store!StoreNext
    <2>1. lastBlock \in Slots
      BY <1>4 DEF Edit, TypeBuffers
    <2> QED
      BY <1>2, <1>4, <2>1 DEF Edit, TypeBuffers, Content
  <1>5. CASE EmptyBuffers
    <2>1. PICK S \in SUBSET Slots : EmptyBuffer(S)
      BY <1>5 DEF EmptyBuffers
    <2>2. ASSUME NEW f \in Files, NEW p \in Places
          PROVE  Pending(f, p)' \in {Pending(f, p), NoData}
      <3>1. Slot(p + offset) \in Slots
        BY SlotType, LimitAssumption DEF Places
      <3> QED
        BY <1>5, <2>1, <3>1, LimitAssumption
           DEF EmptyBuffers, EmptyBuffer, Pending, Assigned, fileVars, TypeBuffers
    <2>3. ASSUME NEW f \in Files, NEW p \in Places
          PROVE  Pending(f, p) \in Store!Content \cup {NoData}
      <3>1. Slot(p + offset) \in Slots
        BY SlotType, LimitAssumption DEF Places
      <3> QED
        BY <3>1 DEF Pending, TypeBuffers, Content, Store!Content
    <2>4. Pend' \in [Files -> [Places -> Store!Content \cup {NoData}]]
      BY <2>2, <2>3 DEF Pend
    <2>5. \A f \in Files, p \in Places : Pend'[f][p] \in {Pend[f][p], NoData}
      BY <2>2 DEF Pend
    <2>6. word = "idle" /\ word' = "idle" /\ disk' = disk
      BY <1>5 DEF EmptyBuffers, Ready, Stepped, loopVars, fileVars
    <2>7. Store!Discard
      BY <2>4, <2>5, <2>6 DEF Store!Discard, Pend
    <2> QED
      BY <2>7 DEF Store!StoreNext
  <1>6. ASSUME NEW f \in Files, OpenBlocks(f) PROVE Store!StoreNext
    <2>1. PICK h \in Closed : handleFile' = [handleFile EXCEPT ![h] = f]
      BY <1>6 DEF OpenBlocks
    <2>2. UNCHANGED <<disk, bufferVars>>
      BY <1>6 DEF OpenBlocks
    <2>3. ASSUME NEW b \in Slots, Held(b)
          PROVE  handleFile'[bufferFid[b]] = handleFile[bufferFid[b]]
      <3>1. bufferFid[b] = blockFid /\ blockFid \in Fids /\ handleFile[blockFid] \in Files
        BY <2>3 DEF Held, BuffersBelong, TypeFiles
      <3> QED
        BY <2>1, <3>1, FileAssumption DEF Closed, TypeFiles
    <2> QED
      BY <2>2, <2>3, PendingFrame, ProceedFrame DEF Held, Assigned, bufferVars
  <1>7. CASE FinishFlush \/ FinishBye \/ FinishOpen
    <2>1. \A b \in Slots : ~Held(b)
      BY <1>7, BuffersAssumption
         DEF FinishFlush, FinishBye, FinishOpen, Saved, LoopInv, Held, Slots
    <2>2. \A b \in Slots : ~Held(b)'
      BY <1>7 DEF FinishFlush, FinishBye, FinishOpen, EmptyBuffer, Held
    <2> QED
      BY <1>7, <2>1, <2>2, PendingFrame, ProceedFrame
         DEF FinishFlush, FinishBye, FinishOpen, fileVars
  <1>8. CASE OpenBlocksFails \/ (\E w \in {"save", "flush", "bye"} : SaveBuffers(w))
    BY <1>1, <1>8 DEF OpenBlocksFails, SaveBuffers
  <1>9. CASE (\E u \in Requests : Block(u)) \/ Fetch
    BY <1>1, <1>9 DEF Block, Fetch, BlockLow, BlockHit, BlockMiss
  <1>10. CASE (\E u \in Requests : Load(u)) \/ EndOfBlock \/ Refill \/ FinishSave
    BY <1>1, <1>10 DEF Load, EndOfBlock, Refill, FinishSave
  <1> QED
    BY <1>3, <1>4, <1>5, <1>6, <1>7, <1>8, <1>9, <1>10 DEF Client, Loading, Finish

(* blocks.fs implements the abstract store, I/O failures included: every   *)
(* updated block reaches its own place of its own file or stays pending.   *)
THEOREM BlocksImplementStore == Spec => StoreSpec
  <1>1. BlocksInv /\ UNCHANGED vars => Store!StoreNext
    BY PendingFrame, ProceedFrame
       DEF Held, Assigned, vars, fileVars, bufferVars
  <1>2. BlocksInv /\ [Next]_vars => [Store!StoreNext]_(Store!storeVars)
    BY <1>1, StoreSave, StoreRead, StoreClient DEF Next, Gone
  <1>3. Spec => Store!StoreSpec
    BY <1>2, StoreInitOK, BlocksInvariant, PTL DEF Spec, Store!StoreSpec
  <1> QED
    BY <1>3 DEF StoreSpec

=============================================================================
