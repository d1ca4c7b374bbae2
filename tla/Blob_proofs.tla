----------------------------- MODULE Blob_proofs -----------------------------
(***************************************************************************)
(* Proofs about Blob, for every call, every content of the rows, any       *)
(* lengths, chunks and bounds.  The argument: a handle that is still valid *)
(* names a row that nobody changed since the handle was moved to it, so    *)
(* what a read puts together from chunks are pieces of one version; and a  *)
(* call that has opened its handle ends in Close only.                     *)
(***************************************************************************)
EXTENDS Blob, SequenceTheorems, TLAPS

\* The bytes of rows and files.
Byte == Int \X Int
RowRequest == [id : RowIds, len : Nat, url : BOOLEAN]
Handle == [open : BOOLEAN, id : RowIds, size : Nat, valid : BOOLEAN]
Locations == {"open", "row", "size", "read", "update", "expand", "acknowledge",
              "write", "closing", "done", "failed"}
Updating == {"update", "expand", "acknowledge", "write"}
InRow == {"size", "read"} \cup Updating

\* What the variables range over.
DataInv ==
    /\ req \in Requests
    /\ store \in [Keys -> Seq(Stored)]
    /\ missing \subseteq Keys
    /\ handle \in Handle
    /\ opened \in [DOMAIN req.rows -> Seq(Stored)]
    /\ faults \in 0 .. MaxFaults
    /\ others \subseteq Keys
    /\ skipped \subseteq DOMAIN req.rows

\* Where a call can be, and what is done there.
ControlInv ==
    /\ pc \in Locations
    /\ index \in 1 .. Len(req.rows) + 1
    /\ offset \in Nat
    /\ pc \in InRow => index \in DOMAIN req.rows
    /\ pc \in {"size", "read"} => req.op = pc
    /\ pc \in Updating => req.op = "update"
    /\ pc \in {"open", "row", "size", "update", "expand", "acknowledge"} => offset = 0
    /\ pc = "open" => index = 1
    /\ pc = "row" => req.rows # <<>>
    /\ pc = "write" => offset <= Total
    /\ pc \in {"open", "row"} \cup InRow => reason = "none"
    /\ pc \in {"closing", "done"} /\ reason = "none" => index = Len(req.rows) + 1
    /\ pc = "done" => reason = "none"
    /\ pc = "failed" => reason # "none"
    /\ pc \in {"open", "done", "failed"} => ~handle.open

\* What read and sizeInBytes return for the i-th row.
Result(i) == IF req.op = "read" THEN target[i] \o opened[i] ELSE <<Len(opened[i])>>

\* The handle points to the row that is being read and has seen its size.
OnRow == pc \in {"size", "read"} \/ (pc = "row" /\ index = 1)

\* While a row is read its size is known, and a valid handle still sees what it saw.
HandleSees ==
    /\ OnRow => handle.size = Len(opened[index])
    /\ OnRow /\ handle.valid => store[Key(handle.id)] = opened[index]
    /\ pc = "read" => offset <= handle.size

\* What a row's buffer holds before, while and after the row is read.
Buffer(i) ==
    /\ i < index => sink[i] = Result(i)
    /\ i > index => sink[i] = target[i]
    /\ i = index /\ pc \in {"open", "row", "size"} => sink[i] = target[i]
    /\ i = index /\ pc = "read"
         => sink[i] = target[i] \o SubSeq(opened[i], 1, offset)

SnapshotInv ==
    /\ DOMAIN sink = DOMAIN req.rows
    /\ \A i \in DOMAIN req.rows : target[i] \in Seq(Byte)
    /\ req.op # "update" =>
         HandleSees /\ \A i \in DOMAIN req.rows \ skipped : Buffer(i)

\* The inductive invariant of a call.
BlobInv == DataInv /\ ControlInv /\ SnapshotInv

-----------------------------------------------------------------------------
(* Facts about requests, rows and handles *)

\* The parts of a request.
LEMMA RequestType ==
    ASSUME req \in Requests
    PROVE  /\ req.op \in {"size", "read", "update"} /\ req.schema \in Schemas
           /\ req.rows \in Seq(RowRequest)
           /\ Len(req.rows) \in Nat /\ DOMAIN req.rows = 1 .. Len(req.rows)
           /\ req.threshold \in Nat /\ req.chunk \in Nat
           /\ \A i \in DOMAIN req.rows :
                /\ req.rows[i].id \in RowIds /\ req.rows[i].len \in Nat
                /\ Key(req.rows[i].id) \in Keys
<1>1. /\ req.op \in {"size", "read", "update"} /\ req.schema \in Schemas
      /\ req.rows \in Seq(RowRequest)
      /\ req.threshold \in Nat /\ req.chunk \in Nat
  BY BlobAssumption DEF RowRequest
<1>2. Len(req.rows) \in Nat /\ DOMAIN req.rows = 1 .. Len(req.rows)
  BY <1>1, LenProperties
<1>3. \A i \in DOMAIN req.rows : req.rows[i] \in RowRequest
  BY <1>1, <1>2, ElementOfSeq
<1> QED
  BY <1>1, <1>2, <1>3 DEF RowRequest, Key, Keys

\* Moving the handle: it is open, valid, and knows the size of the row's BLOB.
LEMMA MoveEffect ==
    ASSUME DataInv, NEW id \in RowIds, index \in DOMAIN req.rows, MoveHandle(id)
    PROVE  /\ handle' \in Handle /\ handle'.id = id
           /\ handle'.size = Len(store[Key(id)])
           /\ opened' \in [DOMAIN req.rows -> Seq(Stored)]
           /\ opened'[index] = store[Key(id)]
           /\ \A i \in DOMAIN req.rows : i # index => opened'[i] = opened[i]
<1>1. Key(id) \in Keys
  BY RequestType DEF DataInv, Key, Keys
<1>2. store[Key(id)] \in Seq(Stored)
  BY <1>1 DEF DataInv
<1>3. Len(store[Key(id)]) \in Nat
  BY <1>2, LenProperties
<1> QED
  BY <1>2, <1>3 DEF MoveHandle, DataInv, Handle

\* The length of the next chunk: a chunk never passes the end of the data.
LEMMA ChunkBounds ==
    ASSUME req \in Requests, Total \in Nat, offset \in Nat, offset <= Total
    PROVE  NextChunk \in Nat /\ NextChunk <= Total - offset
<1>1. ChunkSize(Total) \in Nat
  BY RequestType DEF ChunkSize
<1> QED
  BY <1>1 DEF NextChunk, Smaller

\* The number of bytes to transfer is a number.
LEMMA TotalType ==
    ASSUME req \in Requests, handle \in Handle, index \in DOMAIN req.rows
    PROVE  Total \in Nat
BY RequestType DEF Total, Row, Handle

\* Bytes over bytes: a store stays a store.
LEMMA WrittenType ==
    ASSUME DataInv, ControlInv, pc = "write", Accepts
    PROVE  WrittenStore \in [Keys -> Seq(Stored)]
<1> DEFINE key == Key(handle.id)
           d == SubSeq(Given(index), offset + 1, offset + NextChunk)
<1>1. key \in Keys
  BY RequestType DEF DataInv, Handle, Key, Keys
<1>2. store[key] \in Seq(Stored)
  BY <1>1 DEF DataInv
<1>3. index \in DOMAIN req.rows /\ req.op = "update" /\ offset \in Nat
      /\ offset <= Total /\ Total \in Nat /\ index \in Nat
  BY TotalType, RequestType DEF DataInv, ControlInv, InRow, Updating
<1>4. NextChunk \in Nat /\ offset + NextChunk <= Total
  BY <1>3, ChunkBounds DEF DataInv
<1>5. Total = req.rows[index].len
  BY <1>3 DEF Total, Row
<1>6. \A j \in 1 .. Total : Given(index)[j] \in Stored
  BY <1>3, <1>5 DEF Given, Stored
<1>7. \A j \in offset + 1 .. offset + NextChunk : Given(index)[j] \in Stored
  BY <1>3, <1>4, <1>6
<1>8. d \in Seq(Stored)
  BY <1>3, <1>4, <1>7, SubSeqProperties
<1>9. Overwritten(store[key], offset, d) \in Seq(Stored)
  <2> HIDE DEF d
  <2>1. Len(d) \in Nat /\ \A j \in 1 .. Len(d) : d[j] \in Stored
    BY <1>8, LenProperties, ElementOfSeq
  <2>2. /\ Len(store[key]) \in Nat /\ DOMAIN store[key] = 1 .. Len(store[key])
        /\ \A k \in 1 .. Len(store[key]) : store[key][k] \in Stored
    BY <1>2, LenProperties, ElementOfSeq
  <2>3. \A k \in 1 .. Len(store[key]) :
          (IF k \in offset + 1 .. offset + Len(d) THEN d[k - offset]
                                                  ELSE store[key][k]) \in Stored
    BY <2>1, <2>2, <1>3
  <2> QED
    BY <2>2, <2>3 DEF Overwritten
<1> QED
  BY <1>1, <1>9 DEF WrittenStore, DataInv

\* The expansion of a BLOB leaves stores and handles what they are.
LEMMA ZeroedType ==
    ASSUME DataInv, index \in DOMAIN req.rows, Zeroed
    PROVE  /\ store' \in [Keys -> Seq(Stored)]
           /\ handle' \in Handle /\ handle'.open = handle.open
           /\ handle'.id = handle.id /\ (handle'.valid => handle.valid)
<1>1. Row.len \in Nat
  BY RequestType DEF DataInv, Row
<1>2. [k \in 1 .. Row.len |-> Zero] \in Seq(Stored)
  BY <1>1 DEF Zero, Stored
<1>3. store' \in [Keys -> Seq(Stored)]
  BY <1>2 DEF Zeroed, DataInv
<1>4. handle' = [handle EXCEPT !.valid = handle.valid /\ Key(handle.id) # ExpandedKey]
  BY DEF Zeroed
<1>5. /\ handle' \in Handle /\ handle'.open = handle.open
      /\ handle'.id = handle.id /\ (handle'.valid => handle.valid)
  BY <1>4, Zenon DEF DataInv, Handle
<1> QED
  BY <1>3, <1>5

\* Another client's BLOB is one the server can hold.
LEMMA OthersType ==
    ASSUME NEW x \in Contents
    PROVE  [k \in DOMAIN x |-> Others(k)] \in Seq(Stored)
<1>1. Len(x) \in Nat /\ DOMAIN x = 1 .. Len(x)
  BY BlobAssumption, LenProperties
<1>2. \A k \in 1 .. Len(x) : Others(k) \in Stored
  BY <1>1 DEF Others, Stored
<1> QED
  BY <1>1, <1>2

-----------------------------------------------------------------------------
(* The invariant holds before the call *)

\* A call that begins (getBlobHandler) satisfies the invariant.
LEMMA BlobInit == Init => BlobInv
<1> SUFFICES ASSUME Init PROVE BlobInv
  OBVIOUS
<1>1. /\ req \in Requests /\ req.rows \in Seq(RowRequest)
      /\ Len(req.rows) \in Nat /\ DOMAIN req.rows = 1 .. Len(req.rows)
  BY RequestType DEF Init
<1>2. DataInv
  <2>1. store \in [Keys -> Seq(Stored)]
    BY BlobAssumption DEF Init
  <2>2. handle \in Handle
    BY BlobAssumption, Zenon DEF Init, Handle
  <2>3. opened \in [DOMAIN req.rows -> Seq(Stored)]
    BY EmptySeq DEF Init
  <2>4. missing \subseteq Keys
    BY DEF Init
  <2> QED
    BY <1>1, <2>1, <2>2, <2>3, <2>4, BlobAssumption DEF Init, DataInv
<1>3. ControlInv
  BY <1>1 DEF Init, ControlInv, Locations, InRow, Updating
<1>4. SnapshotInv
  <2>1. /\ DOMAIN sink = DOMAIN req.rows /\ target = sink
        /\ \A i \in DOMAIN req.rows : sink[i] \in {<<>>, <<Found(1)>>}
    BY DEF Init
  <2>2. <<>> \in Seq(Byte) /\ <<Found(1)>> \in Seq(Byte)
    BY DEF Found, Byte
  <2>3. \A i \in DOMAIN req.rows : target[i] \in Seq(Byte)
    <3> TAKE i \in DOMAIN req.rows
    <3>1. target[i] = <<>> \/ target[i] = <<Found(1)>>
      BY <2>1
    <3> QED
      BY <2>2, <3>1, Zenon
  <2>4. pc = "open" /\ index = 1
    BY DEF Init
  <2> QED
    BY <1>1, <2>1, <2>3, <2>4 DEF SnapshotInv, HandleSees, Buffer, OnRow
<1> QED
  BY <1>2, <1>3, <1>4 DEF BlobInv

-----------------------------------------------------------------------------
(* Every step keeps it *)

\* Every step keeps the types of the data and the history of the rows.
LEMMA DataStep == BlobInv /\ [Next]_vars => DataInv'
<1> SUFFICES ASSUME DataInv, ControlInv, [Next]_vars PROVE DataInv'
  BY DEF BlobInv
<1> USE DEF DataInv
<1>0. /\ index \in DOMAIN req.rows => Row.id \in RowIds
      /\ req.rows # <<>> => 1 \in DOMAIN req.rows
      /\ Len(req.rows) \in Nat /\ DOMAIN req.rows = 1 .. Len(req.rows)
  BY RequestType DEF Row
<1>1. CASE Open \/ Reopen
  <2>1. index \in DOMAIN req.rows
    BY <1>0, <1>1 DEF Open, Reopen, ControlInv
  <2>2. handle' \in Handle /\ opened' \in [DOMAIN req.rows -> Seq(Stored)]
    BY <1>0, <1>1, <2>1, MoveEffect DEF Open, Reopen
  <2> QED
    BY <1>1, <2>2 DEF Open, Reopen, envVars, constVars
<1>2. CASE NoRows \/ OpenFails \/ Finish
  BY <1>2, BlobAssumption DEF NoRows, OpenFails, Finish, Fault, envVars, constVars
<1>3. CASE Close
  BY <1>3 DEF Close, envVars, constVars, Handle
<1>4. CASE ReopenFails
  <2>1. handle' = [handle EXCEPT !.valid = FALSE] /\ faults' \in 0 .. MaxFaults
    BY <1>4, BlobAssumption DEF ReopenFails, Fault
  <2>2. handle' \in Handle
    BY <2>1 DEF Handle
  <2> QED
    BY <1>4, <2>1, <2>2 DEF ReopenFails, envVars, constVars
<1>5. CASE BlobBytes \/ ReadChunk \/ ReadRowDone \/ CheckSize \/ WriteNothing
           \/ WriteRowDone
  BY <1>5 DEF BlobBytes, ReadChunk, ReadRowDone, CheckSize, WriteNothing, WriteRowDone,
              envVars, constVars
<1>6. CASE ReadShort \/ StreamEndsEarly
  <2>1. index \in DOMAIN req.rows
    BY <1>6 DEF ReadShort, StreamEndsEarly, ControlInv, InRow, Updating
  <2> QED
    BY <1>6, <2>1, BlobAssumption
    DEF ReadShort, StreamEndsEarly, Fault, envVars, constVars
<1>7. CASE ReadFails \/ WriteRowFails \/ FileFails
  BY <1>7, BlobAssumption DEF ReadFails, WriteRowFails, FileFails, Fault, envVars, constVars
<1>8. CASE Expand \/ ExpandFails
  <2>1. index \in DOMAIN req.rows
    BY <1>8 DEF Expand, ExpandFails, ControlInv, InRow, Updating
  <2>2. store' \in [Keys -> Seq(Stored)] /\ handle' \in Handle
    BY <1>8, <2>1, ZeroedType DEF Expand, ExpandFails
  <2> QED
    BY <1>8, <2>2, BlobAssumption DEF Expand, ExpandFails, Fault, envVars, constVars
<1>9. CASE Acknowledge
  <2>1. index \in DOMAIN req.rows
    BY <1>9 DEF Acknowledge, ControlInv, InRow, Updating
  <2>2. CASE MoveHandle(Row.id) /\ UNCHANGED faults
    <3>1. handle' \in Handle /\ opened' \in [DOMAIN req.rows -> Seq(Stored)]
      BY <1>0, <2>1, <2>2, MoveEffect
    <3> QED
      BY <1>9, <2>2, <3>1 DEF Acknowledge, envVars, constVars
  <2>3. CASE ~(MoveHandle(Row.id) /\ UNCHANGED faults)
    <3>1. handle' = [handle EXCEPT !.valid = FALSE] /\ faults' \in 0 .. MaxFaults
      BY <1>9, <2>3, BlobAssumption DEF Acknowledge, Fault
    <3>2. handle' \in Handle
      BY <3>1 DEF Handle
    <3> QED
      BY <1>9, <2>3, <3>1, <3>2 DEF Acknowledge, envVars, constVars
  <2> QED
    BY <2>2, <2>3
<1>10. CASE WriteChunk \/ WriteFails
  <2>1. store' \in [Keys -> Seq(Stored)]
    BY <1>10, WrittenType DEF WriteChunk, WriteFails
  <2> QED
    BY <1>10, <2>1, BlobAssumption DEF WriteChunk, WriteFails, Fault, envVars, constVars
<1>11. ASSUME NEW key \in Keys, OtherChange(key) PROVE DataInv'
  <2>1. store' \in [Keys -> Seq(Stored)]
    BY <1>11, OthersType DEF OtherChange
  <2>2. handle' = [handle EXCEPT !.valid = handle.valid /\ Key(handle.id) # key]
    BY <1>11 DEF OtherChange
  <2>3. handle' \in Handle
    BY <2>2, Zenon DEF Handle
  <2> QED
    BY <1>11, <2>1, <2>3 DEF OtherChange, constVars
<1>12. CASE UNCHANGED vars
  BY <1>12 DEF vars
<1> QED
  BY <1>1, <1>2, <1>3, <1>4, <1>5, <1>6, <1>7, <1>8, <1>9, <1>10, <1>11, <1>12
  DEF Next, Call, HandleStep, ReadStep, UpdateStep, FileStep

\* Another client's change: the handle stays what it is, valid only if it was.
LEMMA OtherChangeEffect ==
    ASSUME DataInv, NEW key \in Keys, OtherChange(key)
    PROVE  /\ handle'.open = handle.open /\ handle'.id = handle.id
           /\ handle'.size = handle.size
           /\ handle'.valid <=> handle.valid /\ Key(handle.id) # key
           /\ \A k \in Keys \ {key} : store'[k] = store[k]
<1>1. handle' = [handle EXCEPT !.valid = handle.valid /\ Key(handle.id) # key]
  BY DEF OtherChange
<1>2. /\ handle'.open = handle.open /\ handle'.id = handle.id
      /\ handle'.size = handle.size
      /\ handle'.valid <=> handle.valid /\ Key(handle.id) # key
  BY <1>1, Zenon DEF DataInv, Handle
<1>3. \A k \in Keys \ {key} : store'[k] = store[k]
  BY DEF OtherChange, DataInv
<1> QED
  BY <1>2, <1>3

\* Every step keeps the control invariant: the handle, the position and the program counter.
LEMMA ControlStep == BlobInv /\ [Next]_vars => ControlInv'
<1> SUFFICES ASSUME DataInv, ControlInv, [Next]_vars PROVE ControlInv'
  BY DEF BlobInv
<1>0. /\ req \in Requests /\ handle \in Handle /\ req.op \in {"size", "read", "update"}
      /\ index \in Nat /\ Len(req.rows) \in Nat
      /\ DOMAIN req.rows = 1 .. Len(req.rows)
      /\ index \in DOMAIN req.rows => Row.len \in Nat /\ Total \in Nat
      /\ req.rows # <<>> => Len(req.rows) > 0
  BY RequestType, TotalType, EmptySeq DEF DataInv, ControlInv, Row
<1> USE DEF ControlInv, Locations, InRow, Updating
<1>1. CASE NoRows \/ Open \/ OpenFails \/ Finish
  BY <1>0, <1>1 DEF NoRows, Open, OpenFails, Finish, MoveHandle, envVars, constVars
<1>2. CASE Reopen
  BY <1>0, <1>2 DEF Reopen, envVars, constVars
<1>3. CASE ReopenFails \/ ReadFails \/ WriteFails \/ WriteNothing \/ WriteRowFails
           \/ FileFails
  BY <1>0, <1>3 DEF ReopenFails, ReadFails, WriteFails, WriteNothing, WriteRowFails,
                    FileFails, Throw, envVars, constVars
<1>4. CASE Close
  <2>1. handle'.open = FALSE
    BY <1>0, <1>4 DEF Close, Handle
  <2> QED
    BY <1>0, <1>4, <2>1 DEF Close, envVars, constVars
<1>5. CASE BlobBytes \/ ReadRowDone \/ WriteRowDone \/ StreamEndsEarly
  BY <1>0, <1>5 DEF BlobBytes, ReadRowDone, WriteRowDone, StreamEndsEarly, NextRow,
                    envVars, constVars
<1>6. CASE ReadChunk \/ ReadShort
  <2>1. /\ pc = "read" /\ offset < Total /\ offset' = offset + NextChunk
        /\ UNCHANGED <<req, handle, pc, index, reason>>
    BY <1>6 DEF ReadChunk, ReadShort, envVars, constVars
  <2>2. Total \in Nat
    BY <1>0, <2>1
  <2>3. NextChunk \in Nat
    BY <1>0, <2>1, <2>2, ChunkBounds
  <2> QED
    BY <1>0, <2>1, <2>3
<1>7. CASE CheckSize \/ Expand \/ ExpandFails \/ Acknowledge
  <2>1. pc' = "write" => Total' = Row.len /\ offset' = 0
    BY <1>0, <1>7
    DEF CheckSize, Expand, ExpandFails, Acknowledge, Throw, Total, Row, envVars, constVars
  <2> QED
    BY <1>0, <1>7, <2>1
    DEF CheckSize, Expand, ExpandFails, Acknowledge, Throw, envVars, constVars
<1>8. CASE WriteChunk
  <2>1. NextChunk \in Nat /\ offset + NextChunk <= Total
    BY <1>0, <1>8, ChunkBounds DEF WriteChunk
  <2>2. Total' = Total
    BY <1>8 DEF WriteChunk, Total, Row, envVars, constVars
  <2> QED
    BY <1>0, <1>8, <2>1, <2>2 DEF WriteChunk, envVars, constVars
<1>9. ASSUME NEW key \in Keys, OtherChange(key) PROVE ControlInv'
  <2>1. handle'.open = handle.open /\ Total' = Total
    BY <1>9, OtherChangeEffect DEF OtherChange, Total, Row, constVars
  <2> QED
    BY <1>0, <1>9, <2>1 DEF OtherChange, constVars
<1>10. CASE UNCHANGED vars
  BY <1>10 DEF vars, Total, Row
<1> QED
  BY <1>1, <1>2, <1>3, <1>4, <1>5, <1>6, <1>7, <1>8, <1>9, <1>10
  DEF Next, Call, HandleStep, ReadStep, UpdateStep, FileStep

\* The next chunk goes behind the chunks before it.
LEMMA ChunkAppended ==
    ASSUME NEW before0 \in Seq(Byte), NEW o \in Seq(Stored),
           NEW m \in Nat, NEW n \in Nat, m + n <= Len(o)
    PROVE  (before0 \o SubSeq(o, 1, m)) \o SubSeq(o, m + 1, m + n)
             = before0 \o SubSeq(o, 1, m + n)
<1>1. Len(o) \in Nat /\ \A i \in 1 .. Len(o) : o[i] \in Byte
  <2>1. Len(o) \in Nat /\ \A i \in 1 .. Len(o) : o[i] \in Stored
    BY LenProperties, ElementOfSeq
  <2>2. Stored \subseteq Byte
    BY DEF Stored, Byte
  <2> QED
    BY <2>1, <2>2
<1>2. SubSeq(o, 1, m) \in Seq(Byte)
  BY <1>1, SubSeqProperties
<1>3. SubSeq(o, m + 1, m + n) \in Seq(Byte)
  BY <1>1, SubSeqProperties
<1>4. SubSeq(o, 1, m) \o SubSeq(o, m + 1, m + n) = SubSeq(o, 1, m + n)
  BY <1>1, ConcatAdjacentSubSeq
<1>5. (before0 \o SubSeq(o, 1, m)) \o SubSeq(o, m + 1, m + n)
        = before0 \o (SubSeq(o, 1, m) \o SubSeq(o, m + 1, m + n))
  <2> DEFINE x == SubSeq(o, 1, m)
             y == SubSeq(o, m + 1, m + n)
  <2> HIDE DEF x, y
  <2>1. x \in Seq(Byte) /\ y \in Seq(Byte)
    BY <1>2, <1>3 DEF x, y
  <2>2. (before0 \o x) \o y = before0 \o (x \o y)
    BY <2>1, ConcatAssociative
  <2> QED
    BY <2>2 DEF x, y
<1> QED
  BY <1>4, <1>5

\* Reading no bytes, and reading all of them.
LEMMA ChunkEnds ==
    ASSUME NEW before0 \in Seq(Byte), NEW o \in Seq(Stored)
    PROVE  /\ before0 \o SubSeq(o, 1, 0) = before0
           /\ SubSeq(o, 1, Len(o)) = o
<1>1. SubSeq(o, 1, 0) = <<>>
  BY SubSeqEmpty
<1> QED
  BY <1>1, ConcatEmptySeq, SubSeqFull

\* What a read or size call keeps when the call moves on.
LEMMA ReadStepKeeps ==
    ASSUME BlobInv, Next, req.op # "update" PROVE SnapshotInv'
<1> DEFINE rows == DOMAIN req.rows
<1>0. /\ rows = 1 .. Len(req.rows) /\ Len(req.rows) \in Nat /\ index \in Nat
      /\ pc \notin Updating /\ req.op \in {"size", "read"}
      /\ pc \in {"size", "read"} => index \in rows /\ req.op = pc
      /\ pc = "open" => index = 1
      /\ index \in rows => Row.id \in RowIds
      /\ \A i \in rows : target[i] \in Seq(Byte) /\ opened[i] \in Seq(Stored)
      /\ handle.size \in Nat /\ handle.id \in RowIds /\ DataInv
  BY RequestType DEF BlobInv, DataInv, ControlInv, SnapshotInv, InRow, Handle, Row
<1>i. /\ DOMAIN sink = rows
      /\ HandleSees /\ \A i \in rows \ skipped : Buffer(i)
  BY DEF BlobInv, SnapshotInv
<1>q. SUFFICES /\ UNCHANGED <<req, target>> /\ DOMAIN sink' = rows
               /\ HandleSees' /\ \A i \in rows \ skipped' : Buffer(i)'
  BY <1>0 DEF SnapshotInv
<1>1. CASE Open
  <2>1. req.rows # <<>> /\ pc = "open" /\ index \in rows
    BY <1>0, <1>1, EmptySeq, RequestType DEF Open, BlobInv, ControlInv, DataInv
  <2>2. MoveHandle(Row.id) /\ pc' = "row" /\ UNCHANGED <<req, target, skipped>>
        /\ UNCHANGED <<store, index, offset, sink>>
    BY <1>1 DEF Open, envVars, constVars
  <2>3. /\ handle'.id = Row.id /\ handle'.size = Len(opened'[index])
        /\ opened'[index] = store[Key(Row.id)]
    BY <1>0, <2>1, <2>2, MoveEffect
  <2>4. HandleSees'
    BY <2>2, <2>3 DEF HandleSees, Key
  <2>5. \A i \in rows \ skipped' : Buffer(i)'
    BY <1>0, <1>i, <2>1, <2>2 DEF Buffer
  <2> QED
    BY <1>i, <2>2, <2>4, <2>5
<1>2. CASE NoRows \/ OpenFails \/ ReopenFails \/ Finish \/ Close \/ ReadFails
           \/ (FileFails /\ pc # "write")
  <2>1. /\ pc' \notin {"open", "row", "size", "read"}
        /\ UNCHANGED <<req, target, skipped, index, offset, sink, opened>>
    BY <1>2 DEF NoRows, OpenFails, ReopenFails, Finish, Close, ReadFails, FileFails,
                Throw, envVars, constVars
  <2>2. HandleSees'
    BY <2>1 DEF HandleSees, OnRow
  <2>3. \A i \in rows \ skipped' : Buffer(i)'
    BY <1>i, <2>1 DEF Buffer, Result
  <2> QED
    BY <1>i, <2>1, <2>2, <2>3
<1>3. CASE Reopen
  <2>1. /\ pc = "row" /\ pc' = req.op /\ index \in rows /\ offset = 0
        /\ UNCHANGED <<req, target, skipped, store, index, offset, sink>>
    BY <1>0, <1>3 DEF Reopen, envVars, constVars, BlobInv, ControlInv
  <2>2. CASE index = 1
    <3>1. UNCHANGED <<handle, opened>>
      BY <1>3, <2>2 DEF Reopen
    <3>2. handle.size \in Nat
          /\ target[index] \o SubSeq(opened[index], 1, 0) = target[index]
      BY <1>0, <2>1, ChunkEnds
    <3>3. HandleSees'
      BY <1>0, <1>i, <2>1, <2>2, <3>1, <3>2 DEF HandleSees, OnRow, Key
    <3>4. \A i \in rows \ skipped' : Buffer(i)'
      BY <1>0, <1>i, <2>1, <2>2, <3>1, <3>2 DEF Buffer
    <3> QED
      BY <1>i, <2>1, <3>3, <3>4
  <2>3. CASE index > 1
    <3>1. MoveHandle(Row.id)
      BY <1>3, <2>3 DEF Reopen
    <3>2. /\ handle'.id = Row.id /\ handle'.size = Len(opened'[index])
          /\ handle'.size \in Nat
          /\ opened'[index] = store[Key(Row.id)] /\ opened'[index] \in Seq(Stored)
          /\ \A i \in rows : i # index => opened'[i] = opened[i]
      BY <1>0, <2>1, <3>1, MoveEffect DEF Handle
    <3>3. target[index] \o SubSeq(opened'[index], 1, 0) = target[index]
      BY <1>0, <2>1, <3>2, ChunkEnds
    <3>4. HandleSees'
      BY <1>0, <2>1, <3>2 DEF HandleSees, Key
    <3>5. \A i \in rows \ skipped' : Buffer(i)'
      <4> SUFFICES ASSUME NEW i \in rows \ skipped' PROVE Buffer(i)'
        OBVIOUS
      <4>1. CASE i = index
        BY <1>0, <1>i, <2>1, <3>3, <4>1 DEF Buffer
      <4>2. CASE i # index
        BY <1>0, <1>i, <2>1, <3>2, <4>2 DEF Buffer, Result
      <4> QED
        BY <4>1, <4>2
    <3> QED
      BY <1>i, <2>1, <3>4, <3>5
  <2> QED
    BY <1>0, <2>1, <2>2, <2>3
<1>4. CASE BlobBytes
  <2>1. /\ pc = "size" /\ index \in rows /\ req.op = "size"
        /\ sink' = [sink EXCEPT ![index] = <<handle.size>>]
        /\ pc' = "row" /\ index' = index + 1
        /\ UNCHANGED <<req, target, skipped, opened>>
    BY <1>0, <1>4 DEF BlobBytes, NextRow, envVars, constVars
  <2>2. /\ DOMAIN sink' = rows /\ sink'[index] = <<Len(opened[index])>>
        /\ \A i \in rows : i # index => sink'[i] = sink[i]
    BY <1>i, <2>1 DEF HandleSees, OnRow
  <2>3. HandleSees'
    BY <1>0, <2>1 DEF HandleSees, OnRow
  <2>4. \A i \in rows \ skipped' : Buffer(i)'
    <3> SUFFICES ASSUME NEW i \in rows \ skipped' PROVE Buffer(i)'
      OBVIOUS
    <3>1. CASE i = index
      BY <1>0, <2>1, <2>2, <3>1 DEF Buffer, Result
    <3>2. CASE i # index
      BY <1>0, <1>i, <2>1, <2>2, <3>2 DEF Buffer, Result
    <3> QED
      BY <3>1, <3>2
  <2> QED
    BY <2>1, <2>2, <2>3, <2>4
<1>5. CASE ReadChunk
  <2>1. /\ pc = "read" /\ index \in rows /\ req.op = "read" /\ handle.valid
        /\ offset < Total /\ offset' = offset + NextChunk
        /\ sink' = [sink EXCEPT ![index] =
             @ \o SubSeq(store[Key(handle.id)], offset + 1, offset + NextChunk)]
        /\ UNCHANGED <<req, target, skipped, opened, pc, index, handle, store>>
    BY <1>0, <1>5 DEF ReadChunk, envVars, constVars
  <2>2. Total = handle.size /\ offset \in Nat /\ handle.size = Len(opened[index])
        /\ store[Key(handle.id)] = opened[index]
    BY <1>i, <2>1 DEF Total, BlobInv, ControlInv, HandleSees, OnRow
  <2>3. NextChunk \in Nat /\ offset + NextChunk <= handle.size
    BY <1>0, <2>1, <2>2, ChunkBounds DEF DataInv
  <2>4. DOMAIN sink' = rows /\ \A i \in rows : i # index => sink'[i] = sink[i]
    BY <1>i, <2>1
  <2>5. HandleSees'
    BY <1>i, <2>1, <2>2, <2>3 DEF HandleSees, OnRow, Key
  <2>6. \A i \in rows \ skipped' : Buffer(i)'
    <3> SUFFICES ASSUME NEW i \in rows \ skipped' PROVE Buffer(i)'
      OBVIOUS
    <3>1. CASE i = index
      <4>1. sink[i] = target[i] \o SubSeq(opened[i], 1, offset)
        BY <1>i, <2>1, <3>1 DEF Buffer
      <4>2. sink'[i] = sink[i] \o SubSeq(opened[i], offset + 1, offset + NextChunk)
        BY <1>i, <2>1, <2>2, <3>1
      <4>3. target[i] \in Seq(Byte) /\ opened[i] \in Seq(Stored)
            /\ offset + NextChunk <= Len(opened[i])
        BY <1>0, <2>2, <2>3, <3>1
      <4>4. (target[i] \o SubSeq(opened[i], 1, offset))
              \o SubSeq(opened[i], offset + 1, offset + NextChunk)
              = target[i] \o SubSeq(opened[i], 1, offset + NextChunk)
        BY <2>2, <2>3, <4>3, ChunkAppended
      <4>5. sink'[i] = target[i] \o SubSeq(opened[i], 1, offset + NextChunk)
        BY <4>1, <4>2, <4>4, Zenon
      <4>6. ~(i < index) /\ ~(i > index) /\ pc' = "read" /\ index' = index
        BY <1>0, <2>1, <3>1
      <4>7. offset' = offset + NextChunk /\ target' = target /\ opened' = opened
        BY <2>1
      <4> QED
        BY <4>5, <4>6, <4>7 DEF Buffer
    <3>2. CASE i # index
      BY <1>0, <1>i, <2>1, <2>4, <3>2 DEF Buffer, Result
    <3> QED
      BY <3>1, <3>2
  <2> QED
    BY <2>1, <2>4, <2>5, <2>6
<1>6. CASE ReadShort
  <2>1. /\ pc = "read" /\ index \in rows /\ req.op = "read"
        /\ offset < Total /\ offset' = offset + NextChunk
        /\ \E n \in 0 .. NextChunk - 1 :
             sink' = [sink EXCEPT ![index] =
               @ \o SubSeq(store[Key(handle.id)], offset + 1, offset + n)]
        /\ skipped' = skipped \cup {index}
        /\ UNCHANGED <<req, target, opened, pc, index, handle, store>>
    BY <1>0, <1>6 DEF ReadShort, constVars
  <2>2. Total = handle.size /\ offset \in Nat
    BY <2>1 DEF Total, BlobInv, ControlInv
  <2>3. NextChunk \in Nat /\ offset + NextChunk <= handle.size
    BY <1>0, <2>1, <2>2, ChunkBounds DEF DataInv
  <2>4. DOMAIN sink' = rows /\ \A i \in rows : i # index => sink'[i] = sink[i]
    BY <1>i, <2>1
  <2>5. HandleSees'
    BY <1>i, <2>1, <2>3 DEF HandleSees, OnRow, Key
  <2>6. \A i \in rows \ skipped' : Buffer(i)'
    BY <1>0, <1>i, <2>1, <2>4 DEF Buffer, Result
  <2> QED
    BY <2>1, <2>4, <2>5, <2>6
<1>7. CASE ReadRowDone
  <2>1. /\ pc = "read" /\ index \in rows /\ req.op = "read" /\ offset >= Total
        /\ pc' = "row" /\ index' = index + 1
        /\ UNCHANGED <<req, target, skipped, opened, sink>>
    BY <1>0, <1>7 DEF ReadRowDone, NextRow, envVars, constVars
  <2>2. offset = Len(opened[index])
    BY <1>0, <1>i, <2>1 DEF Total, BlobInv, ControlInv, HandleSees, OnRow
  <2>3. SubSeq(opened[index], 1, offset) = opened[index]
    BY <1>0, <2>1, <2>2, SubSeqFull
  <2>4. HandleSees'
    BY <1>0, <2>1 DEF HandleSees, OnRow
  <2>5. \A i \in rows \ skipped' : Buffer(i)'
    <3> SUFFICES ASSUME NEW i \in rows \ skipped' PROVE Buffer(i)'
      OBVIOUS
    <3>1. CASE i = index
      <4>1. sink[i] = target[i] \o opened[i]
        BY <1>i, <2>1, <2>3, <3>1 DEF Buffer
      <4>2. i < index' /\ i # index' /\ ~(i > index')
        BY <1>0, <2>1, <3>1
      <4>3. sink' = sink /\ Result(i)' = target[i] \o opened[i]
        BY <2>1 DEF Result
      <4> QED
        BY <4>1, <4>2, <4>3 DEF Buffer
    <3>2. CASE i # index
      <4>1. /\ i < index' => i < index
            /\ i > index' \/ i = index' => i > index
            /\ pc' # "read"
        BY <1>0, <2>1, <3>2
      <4>2. i \in rows \ skipped /\ sink' = sink /\ target' = target
            /\ Result(i)' = Result(i)
        BY <2>1 DEF Result
      <4>3. Buffer(i)
        BY <1>i, <4>2
      <4> QED
        BY <4>1, <4>2, <4>3 DEF Buffer
    <3> QED
      BY <3>1, <3>2
  <2> QED
    BY <1>i, <2>1, <2>4, <2>5
<1>8. ASSUME NEW key \in Keys, OtherChange(key)
      PROVE  /\ UNCHANGED <<req, target>> /\ DOMAIN sink' = rows
             /\ HandleSees' /\ \A i \in rows \ skipped' : Buffer(i)'
  <2>1. UNCHANGED <<req, target, skipped, opened, pc, index, offset, sink>>
    BY <1>8 DEF OtherChange, constVars
  <2>2. Key(handle.id) \in Keys
    BY <1>0, RequestType DEF DataInv, Key, Keys
  <2>3. /\ handle'.size = handle.size /\ handle'.id = handle.id
        /\ handle'.valid
             => handle.valid /\ store'[Key(handle.id)] = store[Key(handle.id)]
    BY <1>0, <1>8, <2>2, OtherChangeEffect
  <2>4. HandleSees'
    BY <1>i, <2>1, <2>3 DEF HandleSees, OnRow, Key
  <2>5. \A i \in rows \ skipped' : Buffer(i)'
    BY <1>i, <2>1 DEF Buffer, Result
  <2> QED
    BY <1>i, <2>1, <2>4, <2>5
<1>9. CASE \/ CheckSize \/ Expand \/ ExpandFails \/ Acknowledge
           \/ WriteChunk \/ WriteFails \/ WriteNothing \/ WriteRowDone \/ WriteRowFails
           \/ StreamEndsEarly \/ (FileFails /\ pc = "write")
  BY <1>0, <1>9
  DEF Updating, CheckSize, Expand, ExpandFails, Acknowledge, WriteChunk, WriteFails,
      WriteNothing, WriteRowDone, WriteRowFails, StreamEndsEarly
<1> QED
  BY <1>1, <1>2, <1>3, <1>4, <1>5, <1>6, <1>7, <1>8, <1>9
  DEF Next, Call, HandleStep, ReadStep, UpdateStep, FileStep

\* Every step of read keeps what its buffer and destination hold of the handle's version.
LEMMA SnapshotStep == BlobInv /\ [Next]_vars => SnapshotInv'
<1> SUFFICES ASSUME BlobInv, [Next]_vars PROVE SnapshotInv'
  OBVIOUS
<1>1. CASE UNCHANGED vars
  BY <1>1 DEF vars, BlobInv, SnapshotInv, HandleSees, Buffer, OnRow, Result, Key
<1>2. CASE Next /\ req.op # "update"
  BY <1>2, ReadStepKeeps
<1>3. CASE Next /\ req.op = "update"
  <2>1. UNCHANGED <<req, target>> /\ DOMAIN sink' = DOMAIN sink
    BY <1>3
    DEF Next, Call, HandleStep, ReadStep, UpdateStep, FileStep, envVars, constVars,
        NoRows, Open, OpenFails, Reopen, ReopenFails, Finish, Close, BlobBytes, ReadChunk,
        ReadShort, ReadFails, ReadRowDone, CheckSize, Expand, ExpandFails, Acknowledge,
        WriteChunk, WriteFails, WriteNothing, WriteRowDone, WriteRowFails, FileFails,
        StreamEndsEarly, OtherChange
  <2> QED
    BY <1>3, <2>1 DEF BlobInv, SnapshotInv
<1> QED
  BY <1>1, <1>2, <1>3

-----------------------------------------------------------------------------
(* The theorems *)

\* A call keeps its data typed, its steps in order, and its buffers whole.
THEOREM BlobInvariant == Spec => []BlobInv
<1>1. BlobInv /\ [Next]_vars => BlobInv'
  BY DataStep, ControlStep, SnapshotStep DEF BlobInv
<1> QED
  BY BlobInit, <1>1, PTL DEF Spec

\* The type invariant of Blob: an update never hands on bytes past its data.
THEOREM BlobTypeCorrect == Spec => []TypeOK
<1>1. BlobInv => TypeOK
  BY RequestType
  DEF BlobInv, DataInv, ControlInv, TypeOK, Handle, Locations, InRow, Updating
<1> QED
  BY BlobInvariant, <1>1, PTL

\* The defer of read and update: no way out of a call leaves the handle open.
THEOREM HandleNeverLeaks == Spec => []HandleIsClosed
<1>1. BlobInv => HandleIsClosed
  BY DEF BlobInv, ControlInv, HandleIsClosed
<1> QED
  BY BlobInvariant, <1>1, PTL

\* A read that succeeds returns, for every row, one version of its BLOB.
THEOREM ReadsAreSnapshots == Spec => []ReadIsSnapshot
<1>1. BlobInv => ReadIsSnapshot
  <2> SUFFICES ASSUME BlobInv, pc = "done", req.op \in {"read", "size"},
                      NEW i \in DOMAIN req.rows \ skipped
               PROVE  sink[i] = Result(i)
    BY DEF ReadIsSnapshot, Result
  <2>1. index = Len(req.rows) + 1
    BY DEF BlobInv, ControlInv
  <2>2. i < index
    BY <2>1, RequestType DEF BlobInv, DataInv
  <2> QED
    BY <2>2 DEF BlobInv, SnapshotInv, Buffer
<1> QED
  BY BlobInvariant, <1>1, PTL

-----------------------------------------------------------------------------
(* Every step of a call takes it on *)

\* What buffers and files hold, and sizes.
Anything == Byte \cup Nat
SinkInv == sink \in [DOMAIN req.rows -> Seq(Anything)]

\* A piece of a stored BLOB can be put behind what is there; an empty piece adds nothing.
LEMMA PieceAppended ==
    ASSUME NEW x \in Seq(Anything), NEW o \in Seq(Stored), NEW m \in Nat, NEW n \in Nat,
           m + n <= Len(o)
    PROVE  /\ x \o SubSeq(o, m + 1, m + n) \in Seq(Anything)
           /\ n = 0 => x \o SubSeq(o, m + 1, m + n) = x
<1>1. Stored \subseteq Anything
  BY DEF Stored, Anything, Byte
<1>2. Len(o) \in Nat /\ \A k \in 1 .. Len(o) : o[k] \in Anything
  BY <1>1, LenProperties, ElementOfSeq
<1>3. SubSeq(o, m + 1, m + n) \in Seq(Anything)
  <2>1. \A k \in m + 1 .. m + n : o[k] \in Anything
    BY <1>2
  <2> QED
    BY <2>1, SubSeqProperties
<1>4. n = 0 => SubSeq(o, m + 1, m + n) = <<>>
  BY SubSeqEmpty
<1> QED
  BY <1>3, <1>4, ConcatProperties, ConcatEmptySeq

\* A chunk that is read lies in the BLOB the handle has seen (SQLiteCloudBlobReader.read).
LEMMA ChunkInBlob ==
    ASSUME BlobInv, pc = "read", offset < Total, handle.valid
    PROVE  /\ store[Key(handle.id)] \in Seq(Stored)
           /\ NextChunk \in Nat /\ offset \in Nat
           /\ offset + NextChunk <= Len(store[Key(handle.id)])
<1>1. /\ req \in Requests /\ req.op = "read" /\ index \in DOMAIN req.rows
      /\ handle \in Handle /\ offset \in Nat /\ handle.size \in Nat
  BY DEF BlobInv, DataInv, ControlInv, InRow, Handle
<1>2. /\ handle.size = Len(opened[index]) /\ store[Key(handle.id)] = opened[index]
      /\ opened[index] \in Seq(Stored)
  BY <1>1 DEF BlobInv, DataInv, SnapshotInv, HandleSees, OnRow
<1>3. Total = handle.size
  BY <1>1 DEF Total
<1>4. NextChunk \in Nat /\ NextChunk <= Total - offset
  BY <1>1, <1>3, ChunkBounds
<1> QED
  BY <1>1, <1>2, <1>3, <1>4

\* Buffers, files and sizes stay sequences.
LEMMA SinkStep == BlobInv /\ SinkInv /\ [Next]_vars => SinkInv'
<1> SUFFICES ASSUME BlobInv, SinkInv, [Next]_vars PROVE SinkInv'
  OBVIOUS
<1>1. CASE BlobBytes
  <2>1. handle.size \in Anything
    BY DEF BlobInv, DataInv, Handle, Anything
  <2>2. <<handle.size>> \in Seq(Anything)
    BY <2>1
  <2> QED
    BY <1>1, <2>2 DEF BlobBytes, SinkInv, envVars, constVars
<1>2. CASE ReadChunk \/ ReadShort
  <2>1. /\ pc = "read" /\ offset < Total /\ handle.valid /\ index \in DOMAIN req.rows
        /\ req' = req
    BY <1>2 DEF ReadChunk, ReadShort, envVars, constVars, BlobInv, ControlInv, InRow
  <2>2. /\ store[Key(handle.id)] \in Seq(Stored)
        /\ NextChunk \in Nat /\ offset \in Nat
        /\ offset + NextChunk <= Len(store[Key(handle.id)])
    BY <2>1, ChunkInBlob
  <2>3. Len(store[Key(handle.id)]) \in Nat
    BY <2>2, LenProperties
  <2>4. sink[index] \in Seq(Anything)
    BY <2>1 DEF SinkInv
  <2>5. PICK n \in 0 .. NextChunk :
          sink' = [sink EXCEPT ![index] =
                     @ \o SubSeq(store[Key(handle.id)], offset + 1, offset + n)]
    <3>1. NextChunk \in 0 .. NextChunk /\ 0 .. NextChunk - 1 \subseteq 0 .. NextChunk
      BY <2>2
    <3>2. CASE ReadChunk
      BY <3>1, <3>2 DEF ReadChunk
    <3>3. CASE ReadShort
      <4>1. PICK n \in 0 .. NextChunk - 1 :
              sink' = [sink EXCEPT ![index] =
                         @ \o SubSeq(store[Key(handle.id)], offset + 1, offset + n)]
        BY <3>3 DEF ReadShort
      <4>2. n \in 0 .. NextChunk
        BY <3>1
      <4> QED
        BY <4>1, <4>2
    <3> QED
      BY <1>2, <3>2, <3>3
  <2>6. offset + n <= Len(store[Key(handle.id)]) /\ n \in Nat
    BY <2>2, <2>3
  <2>7. sink[index] \o SubSeq(store[Key(handle.id)], offset + 1, offset + n)
          \in Seq(Anything)
    BY <2>2, <2>4, <2>6, PieceAppended
  <2> QED
    BY <2>1, <2>5, <2>7 DEF SinkInv
<1>3. CASE UNCHANGED <<req, sink>>
  BY <1>3 DEF SinkInv
<1>4. CASE HandleStep \/ FileStep \/ (\E key \in Keys : OtherChange(key)) \/ UNCHANGED vars
  BY <1>3, <1>4
  DEF HandleStep, FileStep, envVars, constVars, vars, NoRows, Open, OpenFails, Reopen,
      ReopenFails, Finish, Close, FileFails, StreamEndsEarly, OtherChange
<1>5. CASE ReadStep
  BY <1>1, <1>2, <1>3, <1>5 DEF ReadStep, ReadFails, ReadRowDone, envVars, constVars
<1>6. CASE UpdateStep
  BY <1>3, <1>6
  DEF UpdateStep, envVars, constVars, CheckSize, Expand, ExpandFails, Acknowledge,
      WriteChunk, WriteFails, WriteNothing, WriteRowDone, WriteRowFails
<1> QED
  BY <1>4, <1>5, <1>6 DEF Next, Call

\* A step of a call (SQLiteCloud.read, update) goes on to another row, stage or byte, or
\* reads a chunk of no bytes and changes nothing.
LEMMA StepAdvances ==
    ASSUME BlobInv, SinkInv, Call
    PROVE  Advances \/ UNCHANGED vars
<1>0. /\ index \in Nat /\ offset \in Nat
      /\ req \in Requests /\ handle \in Handle
      /\ pc \in InRow => index \in DOMAIN req.rows
  BY RequestType DEF BlobInv, DataInv, ControlInv
<1>1. CASE BlobBytes \/ ReadRowDone \/ WriteRowDone \/ StreamEndsEarly
  BY <1>0, <1>1
  DEF BlobBytes, ReadRowDone, WriteRowDone, StreamEndsEarly, NextRow, Advances
<1>2. CASE NoRows \/ Open \/ OpenFails \/ Reopen \/ ReopenFails \/ Finish \/ Close
  <2>1. /\ pc \in {"open", "row", "closing"} /\ index' = index
        /\ pc = "open" => pc' \in {"row", "failed"}
        /\ pc = "row" => pc' \in {"size", "read", "update", "closing"}
        /\ pc = "closing" => pc' \in {"done", "failed"}
    BY <1>0, <1>2, RequestType
    DEF NoRows, Open, OpenFails, Reopen, ReopenFails, Finish, Close, Throw
  <2> QED
    BY <1>0, <2>1 DEF Advances, Stage
<1>3. CASE CheckSize \/ Expand \/ ExpandFails \/ Acknowledge
  <2>1. /\ pc \in {"update", "expand", "acknowledge"} /\ index' = index
        /\ pc = "update" => pc' \in {"expand", "write"}
        /\ pc = "expand" => pc' \in {"acknowledge", "closing"}
        /\ pc = "acknowledge" => pc' = "write"
    BY <1>3 DEF CheckSize, Expand, ExpandFails, Acknowledge, Throw
  <2> QED
    BY <1>0, <2>1 DEF Advances, Stage
<1>4. CASE ReadFails \/ WriteFails \/ WriteNothing \/ WriteRowFails \/ FileFails
  <2>1. pc \in {"read", "update", "write"} /\ index' = index /\ pc' = "closing"
    BY <1>4 DEF ReadFails, WriteFails, WriteNothing, WriteRowFails, FileFails, Throw
  <2> QED
    BY <1>0, <2>1 DEF Advances, Stage
<1>5. CASE WriteChunk
  <2>1. NextChunk > 0 /\ pc = "write" /\ Total \in Nat /\ offset <= Total
    BY <1>0, <1>5, TotalType DEF WriteChunk, Accepts, InRow, Updating
  <2>2. NextChunk \in Nat
    BY <1>0, <2>1, ChunkBounds
  <2>3. offset' = offset + NextChunk /\ index' = index /\ pc' = pc
    BY <1>5 DEF WriteChunk
  <2> QED
    BY <1>0, <2>1, <2>2, <2>3 DEF Advances, Stage
<1>6. CASE ReadChunk \/ ReadShort
  <2>1. /\ pc = "read" /\ offset < Total /\ handle.valid /\ index \in DOMAIN req.rows
        /\ offset' = offset + NextChunk /\ index' = index /\ pc' = pc
    BY <1>0, <1>6 DEF ReadChunk, ReadShort, InRow
  <2>2. /\ store[Key(handle.id)] \in Seq(Stored) /\ NextChunk \in Nat
        /\ offset + NextChunk <= Len(store[Key(handle.id)])
    BY <2>1, ChunkInBlob
  <2>3. CASE NextChunk > 0
    BY <1>0, <2>1, <2>2, <2>3 DEF Advances, Stage
  <2>4. CASE NextChunk = 0
    <3>1. ReadChunk
      BY <1>6, <2>4 DEF ReadShort
    <3>2. sink[index] \in Seq(Anything)
      BY <2>1 DEF SinkInv
    <3>3. sink[index] \o SubSeq(store[Key(handle.id)], offset + 1, offset + NextChunk)
            = sink[index]
      BY <1>0, <2>2, <2>4, <3>2, PieceAppended
    <3>4. sink' = sink
      BY <2>1, <3>1, <3>3 DEF ReadChunk, SinkInv
    <3>5. offset' = offset
      BY <1>0, <2>1, <2>4
    <3> QED
      BY <3>1, <3>4, <3>5 DEF ReadChunk, vars, envVars, constVars
  <2> QED
    BY <2>2, <2>3, <2>4
<1> QED
  BY <1>1, <1>2, <1>3, <1>4, <1>5, <1>6
  DEF Call, HandleStep, ReadStep, UpdateStep, FileStep

\* The safety half of Returns, for any rows and chunk sizes: no call does anything twice,
\* so it has a bounded number of steps to make.
THEOREM CallsGoOn == Spec => NoStepBack
<1>1. Init => SinkInv
  <2>1. <<>> \in Seq(Anything) /\ <<Found(1)>> \in Seq(Anything)
    BY DEF Found, Anything, Byte
  <2> QED
    BY <2>1 DEF Init, SinkInv
<1>2. BlobInv /\ SinkInv /\ [Next]_vars
        => [Advances \/ (others' # others /\ UNCHANGED <<index, pc, offset>>)]_vars
  <2> SUFFICES ASSUME BlobInv, SinkInv, Next
               PROVE  \/ Advances \/ UNCHANGED vars
                      \/ others' # others /\ UNCHANGED <<index, pc, offset>>
    OBVIOUS
  <2>1. CASE \E key \in Keys : OtherChange(key)
    BY <2>1 DEF OtherChange
  <2>2. CASE Call
    BY <2>2, StepAdvances
  <2> QED
    BY <2>1, <2>2 DEF Next
<1> QED
  BY <1>1, <1>2, SinkStep, BlobInvariant, PTL DEF Spec, NoStepBack
=============================================================================
