-------------------------- MODULE BlockIncluded --------------------------
(***************************************************************************)
(* block-included (blocks.fs): the only word that changes block-fid while  *)
(* buffers of the old file stay assigned.  It forgets the current file id, *)
(* opens another blocks file, loads its block 1, closes it, flushes and    *)
(* puts the old file id back.                                              *)
(***************************************************************************)
EXTENDS Blocks

(* block-fid off makes open-blocks skip its flush.  When the file cannot   *)
(* be opened the throw leaves block-fid at 0.                              *)
Included(f) ==
  /\ Ready /\ Len(input) < MaxNest
  /\ \E h \in Closed :
       /\ handleFile' = [handleFile EXCEPT ![h] = f]
       /\ handlePos' = [handlePos EXCEPT ![h] = 0]
       /\ blockFid' = h
  /\ input' = Append(input, [blk |-> 1, outer |-> blockFid])
  /\ fetched' = FALSE
  /\ UNCHANGED <<disk, lastBlock, bufferVars, loopVars, ended, faults>>

IncludedFails ==
  /\ Ready /\ OpenFails
  /\ blockFid' = NoFid
  /\ Throw
  /\ UNCHANGED <<fileVars, lastBlock, bufferVars>>

(* load has returned: the file is closed first, then flush is called.      *)
EndIncluded ==
  /\ Ready /\ input # <<>> /\ Top.outer # NotIncluded
  /\ handleFile' = [handleFile EXCEPT ![blockFid] = NoFile]
  /\ SaveAll("restore", NoFid)
  /\ UNCHANGED <<disk, handlePos, blockFid, lastBlock, bufferVars, input, faults>>

FinishRestore ==
  /\ Saved("restore")
  /\ EmptyBuffer(Slots)
  /\ blockFid' = Top.outer
  /\ input' = SubSeq(input, 1, Len(input) - 1)
  /\ Return
  /\ UNCHANGED <<fileVars, lastBlock, faults>>

(* After a failed block-included no file is current; save-buffer then      *)
(* opens blocks.fb for the seek, which may fail.                           *)
SaveOpenFails ==
  /\ Saving /\ bufferDirty[i] /\ Assigned(i) /\ blockFid = NoFid /\ OpenFails
  /\ Throw
  /\ UNCHANGED <<fileVars, blockFid, lastBlock, bufferVars>>

(* A seek, read or write on a closed FILE* is undefined: the call fails    *)
(* and throws, Gforth crashes, or a save appears to succeed, written       *)
(* where the handle of the buffer stands if that one is open, and lost if  *)
(* it is not.                                                              *)
UseClosed ==
  /\ blockFid \in Closed
  /\ (Saving /\ bufferDirty[i] /\ Assigned(i)) \/ (Reading /\ want < blockLimit)
  /\ \/ Throw /\ UNCHANGED <<fileVars, bufferVars>>
     \/ ended' = TRUE /\ UNCHANGED <<fileVars, bufferVars, loopVars, input, fetched>>
     \/ /\ Saving
        /\ i' = i + 1
        /\ bufferDirty' = [bufferDirty EXCEPT ![i] = FALSE]
        /\ touched' = [touched EXCEPT ![i] = FALSE]
        /\ IF handlePos[bufferFid[i]] \in Places /\ bufferFid[i] \notin Closed
           THEN disk' = [disk EXCEPT ![handleFile[bufferFid[i]]] =
                           Written(@, handlePos[bufferFid[i]], blockBuffer[i])]
           ELSE disk' = disk
        /\ UNCHANGED <<handleFile, handlePos, bufferBlock, bufferFid,
                       blockBuffer, word, last, want, newFid, inputVars>>
  /\ UNCHANGED <<blockFid, lastBlock, faults>>

IncludeNext ==
  \/ Next
  \/ \E f \in Files : Included(f)
  \/ IncludedFails \/ EndIncluded \/ FinishRestore
  \/ SaveOpenFails \/ UseClosed

IncludeSpec == Init /\ [][IncludeNext]_vars

-----------------------------------------------------------------------------
(* Properties *)

(* A write-back never changes a block that is not pending: what            *)
(* save-buffers and block transfer to mass storage goes to the block the   *)
(* buffer is assigned to, also while another file is being included.       *)
WritesToItsBlock ==
  [][\A f \in Files, p \in Places :
       disk'[f][p] \notin {disk[f][p], Nul} => Pending(f, p) # NoData]_vars

=============================================================================
