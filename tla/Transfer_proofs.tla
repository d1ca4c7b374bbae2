--------------------------- MODULE Transfer_proofs ---------------------------
(***************************************************************************)
(* Proofs about Transfer, for all sizes of files, buffers and bounds.  The *)
(* argument: the stream is open exactly as long as one of the two          *)
(* references is there, only the callback gives up the reference the C     *)
(* library uses, and whenever it does the library does not call back: an   *)
(* upload stops at a read of no bytes, a download at its last byte, either *)
(* at an error.                                                            *)
(***************************************************************************)
EXTENDS Transfer, TLAPS

Ended == {"success", "failure", "returned", "threw"}
EmptyDownload == direction = "download" /\ size = 0

\* Who holds the helper at each point of the call.
OwnershipInv ==
    /\ Alive <=> stream = "open"
    /\ pc \in {"start", "hand"} => ~handed
    /\ pc = "hand" => local
    /\ pc \in {"command", "callback"} => handed
    /\ pc = "send" => (handed <=> moved > stored)
    /\ pc \in Ended /\ ~cut /\ ~EmptyDownload => ~handed
    /\ pc \in {"start", "returned", "threw"} => ~local

\* How the counters agree at each point of the call.
CounterInv ==
    /\ pc \in {"start", "hand", "command"} => moved = 0 /\ stored = 0 /\ reported = 0
    /\ pc \in {"callback", "success", "returned"} => stored = moved
    /\ pc \in {"callback", "send", "success", "returned"} => reported = moved
    /\ pc = "send" => direction = "upload"
    /\ direction = "upload" /\ resizes = 0 =>
         /\ pc \in {"hand", "command", "callback", "send", "success", "returned"}
              => size = file
         /\ moved <= file
         /\ pc = "send" /\ ~handed => moved = file
    /\ direction = "download" /\ pc \in {"callback", "success", "returned"}
         => size = file
    /\ pc \in {"success", "returned"} /\ resizes = 0 => moved = size

\* The inductive invariant of a transfer.
TransferInv == TypeOK /\ OwnershipInv /\ CounterInv

-----------------------------------------------------------------------------

\* Nobody holds a helper before the call.
LEMMA TransferInit == Init => TransferInv
<1> SUFFICES ASSUME Init PROVE TransferInv
  OBVIOUS
<1>1. TypeOK
  <2>1. /\ size \in 0 .. MaxSize /\ moved \in 0 .. MaxSize
        /\ stored \in 0 .. moved /\ reported \in 0 .. moved
        /\ faults \in 0 .. MaxFaults /\ resizes \in 0 .. MaxResizes
    BY TransferAssumption DEF Init
  <2>2. local \in BOOLEAN /\ handed \in BOOLEAN /\ cut \in BOOLEAN
    BY Zenon DEF Init
  <2> QED
    BY <2>1, <2>2 DEF Init, TypeOK
<1>2. OwnershipInv
  BY DEF Init, OwnershipInv, Alive, Ended
<1>3. CounterInv
  BY TransferAssumption DEF Init, CounterInv
<1> QED
  BY <1>1, <1>2, <1>3 DEF TransferInv

\* The callback's release: the helper lives on if the local variable still holds it.
LEMMA ReleaseEffect ==
    ASSUME TypeOK, OwnershipInv, pc = "callback", Release
    PROVE  /\ handed' \in BOOLEAN /\ local' \in BOOLEAN
           /\ ~handed' /\ (local' <=> local)
           /\ stream' = IF local THEN "open" ELSE "closed"
           /\ Alive' <=> stream' = "open"
<1>1. handed /\ stream = "open"
  BY DEF OwnershipInv, Alive
<1>2. handed' = FALSE /\ local' = local
  BY DEF Release, Hold
<1>3. CASE local = TRUE
  BY <1>1, <1>2, <1>3 DEF Release, Hold, Alive
<1>4. CASE local = FALSE
  BY <1>1, <1>2, <1>4 DEF Release, Hold, Alive
<1> QED
  BY <1>3, <1>4 DEF TypeOK

\* No step of the call, the C library or another process breaks it.
LEMMA TransferStep == TransferInv /\ [Next]_vars => TransferInv'
<1> SUFFICES ASSUME TransferInv, [Next]_vars PROVE TransferInv'
  OBVIOUS
<1> USE TransferAssumption
        DEF TransferInv, TypeOK, OwnershipInv, CounterInv, Alive, Ended, EmptyDownload,
            Fault
<1>0. CASE UNCHANGED vars
  BY <1>0 DEF vars
<1>1. CASE OpenHelper
  BY <1>1 DEF OpenHelper
<1>2. CASE OpenFails
  BY <1>2 DEF OpenFails
<1>3. CASE HandOver
  BY <1>3 DEF HandOver
<1>4. CASE DropLocal
  BY <1>4 DEF DropLocal, Hold
<1>5. CASE Command
  BY <1>5 DEF Command
<1>6. CASE SendChunk
  BY <1>6 DEF SendChunk
<1>7. CASE NetworkFails
  BY <1>7 DEF NetworkFails
<1>8. CASE ReadChunk
  BY <1>8 DEF ReadChunk
<1>9. CASE ReadNothing
  <2>0. pc = "callback" /\ Release
    BY <1>9 DEF ReadNothing
  <2>1. TypeOK'
    BY <1>9, <2>0, ReleaseEffect DEF ReadNothing
  <2>2. OwnershipInv'
    BY <1>9, <2>0, ReleaseEffect DEF ReadNothing
  <2>3. CounterInv'
    BY <1>9 DEF ReadNothing
  <2> QED
    BY <2>1, <2>2, <2>3
<1>10. CASE ReadFails
  <2>0. pc = "callback" /\ Release
    BY <1>10 DEF ReadFails
  <2>1. TypeOK'
    BY <1>10, <2>0, ReleaseEffect DEF ReadFails
  <2>2. OwnershipInv'
    BY <1>10, <2>0, ReleaseEffect DEF ReadFails
  <2>3. CounterInv'
    BY <1>10 DEF ReadFails
  <2> QED
    BY <2>1, <2>2, <2>3
<1>11. CASE WriteChunk
  <2>0. /\ pc = "callback" /\ direction = "download"
        /\ moved' \in moved .. size /\ stored' = moved' /\ reported' = moved'
        /\ pc' = IF moved' = size THEN "success" ELSE "callback"
        /\ UNCHANGED <<direction, file, size, faults, cut, resizes>>
    BY <1>11 DEF WriteChunk
  <2>1. CASE Completed(moved')
    <3>1. Release
      BY <1>11, <2>1 DEF WriteChunk
    <3>2. TypeOK'
      BY <2>0, <3>1, ReleaseEffect
    <3>3. OwnershipInv'
      BY <2>0, <2>1, <3>1, ReleaseEffect DEF Completed
    <3>4. CounterInv'
      BY <2>0
    <3> QED
      BY <3>2, <3>3, <3>4
  <2>2. CASE ~Completed(moved')
    <3>1. UNCHANGED <<local, handed, stream>>
      BY <1>11, <2>2 DEF WriteChunk
    <3>2. TypeOK'
      BY <2>0, <3>1
    <3>3. OwnershipInv'
      BY <2>0, <2>2, <3>1 DEF Completed
    <3>4. CounterInv'
      BY <2>0
    <3> QED
      BY <3>2, <3>3, <3>4
  <2> QED
    BY <2>1, <2>2
<1>12. CASE WriteFails
  <2>0. pc = "callback" /\ Release
    BY <1>12 DEF WriteFails, ShortWrite
  <2>1. TypeOK'
    BY <1>12, <2>0, ReleaseEffect DEF WriteFails, ShortWrite
  <2>2. OwnershipInv'
    BY <1>12, <2>0, ReleaseEffect DEF WriteFails, ShortWrite
  <2>3. CounterInv'
    BY <1>12 DEF WriteFails, ShortWrite
  <2> QED
    BY <2>1, <2>2, <2>3
<1>13. CASE Return
  BY <1>13 DEF Return, Hold
<1>14. CASE Throw
  BY <1>14 DEF Throw, Hold
<1>15. CASE Resize
  BY <1>15 DEF Resize
<1>16. CASE BufferMissing
  BY <1>16 DEF BufferMissing
<1> QED
  BY <1>0, <1>1, <1>2, <1>3, <1>4, <1>5, <1>6, <1>7, <1>8, <1>9, <1>10, <1>11, <1>12,
     <1>13, <1>14, <1>15, <1>16
     DEF Next, Setup, Library, Callback, Outcome

\* Types, ownership and counters agree at every point of a call.
THEOREM TransferInvariant == Spec => []TransferInv
BY TransferInit, TransferStep, PTL DEF Spec

-----------------------------------------------------------------------------
(* What holds of a transfer *)

\* The type invariant, for files of any size.
THEOREM TransferTypeCorrect == Spec => []TypeOK
BY TransferInvariant, PTL DEF TransferInv

\* No callback uses a helper that was freed (UploadHelper, DownloadHelper).
THEOREM NoUseAfterFree == Spec => []HelperAliveInCallback
<1>1. TransferInv => HelperAliveInCallback
  BY DEF TransferInv, OwnershipInv, HelperAliveInCallback, Alive
<1> QED
  BY <1>1, TransferInvariant, PTL

\* The helper and its stream are gone after the call, the two cases of the property
\* aside.
THEOREM NoLeak == Spec => []HelperFreed
<1>1. TransferInv => HelperFreed
  BY DEF TransferInv, OwnershipInv, HelperFreed, Alive, Ended, EmptyDownload
<1> QED
  BY <1>1, TransferInvariant, PTL

\* A success is complete, whatever the buffers and short reads on the way.
THEOREM SuccessMeansAll == Spec => []SuccessIsComplete
<1>1. TransferInv => SuccessIsComplete
  BY DEF TransferInv, TypeOK, CounterInv, SuccessIsComplete
<1> QED
  BY <1>1, TransferInvariant, PTL
=============================================================================
