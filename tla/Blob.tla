-------------------------------- MODULE Blob --------------------------------
(***************************************************************************)
(* The incremental BLOB operations sizeInBytes, read and update of the     *)
(* actor SQLiteCloud, with SQLiteCloudBlobReader and SQLiteCloudBlobWriter.*)
(*                                                                         *)
(* One call is one behaviour.  The actor blocks for the whole call, but    *)
(* every C call is a round trip to the server: between two of them other   *)
(* clients change the same rows, and each of them can fail.  The server's  *)
(* part follows SQLite's incremental I/O as the code's comments use it: a  *)
(* handle cannot change the size of its BLOB, it does not see a new size   *)
(* before it is reopened, and it is aborted when its row is modified.      *)
(*                                                                         *)
(* Abstracted: a byte is a pair of its origin and its position; the       *)
(* values given to progress handlers.  The client is connected, the row    *)
(* ids of a call are distinct, and so are its files.                       *)
(***************************************************************************)
EXTENDS Integers, Sequences, FiniteSets

CONSTANTS
    Schemas,        \* databases of the connection that hold the table
    DefaultSchema,  \* the one an unqualified table name refers to
    RowIds,         \* row ids of the table
    Requests,       \* the calls: op, schema, rows, auto (automaticallyIncreases-
                    \* BlobSize), threshold (blobSizeThreshold) and chunk (what
                    \* blobChunkHandler answers)
    Contents,       \* what a row's BLOB may hold before the call
    MaxFaults,      \* bound: C calls that fail
    MaxOthers       \* bound: changes by other clients

\* The bytes of a BLOB: the j-th byte given for the i-th row of an update is <<i, j>>;
\* of the BLOB before the call, of another client's BLOB, of a file that was there
\* before the call, of a zeroed BLOB:
Old(j) == <<0, j>>
Others(j) == <<-1, j>>
Found(j) == <<-2, j>>
Zero == <<0, 0>>
\* The bytes a row of the server can hold.
Stored == (Nat \cup {-1}) \X Nat

ASSUME BlobAssumption ==
    /\ DefaultSchema \in Schemas /\ RowIds # {}
    /\ MaxFaults \in Nat /\ MaxOthers \in Nat
    /\ \A q \in Requests :
         /\ q.op \in {"size", "read", "update"}
         /\ q.schema \in Schemas /\ q.auto \in BOOLEAN
         /\ q.rows \in Seq([id : RowIds, len : Nat, url : BOOLEAN])
         /\ q.threshold \in Nat /\ q.chunk \in Nat
         /\ \A i, j \in DOMAIN q.rows : q.rows[i].id = q.rows[j].id => i = j
    /\ \A x \in Contents : x \in Seq(Stored) /\ \A k \in DOMAIN x : x[k] = Old(k)

Keys == Schemas \X RowIds

VARIABLES
    req,      \* the call's parameters
    store,    \* the BLOB of each row
    missing,  \* rows that do not exist
    handle,   \* the SQCloudBlob: open, its row id, its size, valid (not aborted)
    pc,       \* what the call does next
    index,    \* position in rows
    offset,   \* bytes of the row already transferred
    sink,     \* per row: the buffer or file read goes to, or the size for sizeInBytes
    faults,   \* C calls that failed
    others,   \* rows other clients changed during the call
    before,   \* history: store at the time of the call
    target,   \* history: per row, what sink held before the call
    opened,   \* history: per row, the BLOB when the handle was moved to it
    skipped,  \* history: rows whose local file failed without an error
    reason    \* history: why the call threw

vars == <<req, store, missing, handle, pc, index, offset, sink, faults, others,
          before, target, opened, skipped, reason>>
constVars == <<req, before, target>>
envVars == <<constVars, missing, others, skipped>>

-----------------------------------------------------------------------------

Row == req.rows[index]
Key(id) == <<req.schema, id>>
Given(i) == [j \in 1 .. req.rows[i].len |-> <<i, j>>]
Smaller(m, n) == IF m <= n THEN m ELSE n

\* The number of bytes to transfer for the current row.
Total == IF req.op = "update" THEN Row.len ELSE handle.size

\* Defective variant of ChunkSize: the default chunk, a twentieth, of any BLOB.
DefaultChunk(total) == IF total > req.threshold THEN total \div 20 ELSE total

\* calculateChunkSize, and the same expression in SQLiteCloudBlobReader.read.
ChunkSize(total) == IF total > req.threshold THEN req.chunk ELSE total

\* The length of the next read or write.
NextChunk == Smaller(ChunkSize(Total), Total - offset)

\* x with the bytes of d over those from offset o on.
Overwritten(x, o, d) ==
    [k \in DOMAIN x |-> IF k \in o + 1 .. o + Len(d) THEN d[k - o] ELSE x[k]]

\* The data are read from a file stream, not all at once.
Streamed == Row.url /\ Total > ChunkSize(Total)

Fault == faults < MaxFaults /\ faults' = faults + 1
Throw(why) == pc' = "closing" /\ reason' = why

\* The handle points to the row id and knows its BLOB's size.
MoveHandle(id) ==
    /\ Key(id) \notin missing
    /\ handle' = [open |-> TRUE, id |-> id, size |-> Len(store[Key(id)]), valid |-> TRUE]
    /\ opened' = [opened EXCEPT ![index] = store[Key(id)]]

Init ==
    /\ req \in Requests
    /\ store \in [Keys -> Contents]
    /\ missing \in SUBSET Keys
    /\ handle = [open |-> FALSE, id |-> CHOOSE r \in RowIds : TRUE, size |-> 0,
                 valid |-> FALSE]
    /\ pc = "open"
    /\ index = 1 /\ offset = 0
    /\ sink \in [DOMAIN req.rows -> {<<>>, <<Found(1)>>}]
    /\ \A i \in DOMAIN req.rows :
         sink[i] # <<>> => req.op = "read" /\ req.rows[i].url
    /\ target = sink
    /\ faults = 0 /\ others = {}
    /\ before = store
    /\ opened = [i \in DOMAIN req.rows |-> <<>>]
    /\ skipped = {}
    /\ reason = "none"

-----------------------------------------------------------------------------
(* Opening the handle and moving it from row to row *)

\* rows.first is nil: the call throws before it opens a handle.
NoRows ==
    /\ pc = "open" /\ req.rows = <<>>
    /\ pc' = "failed" /\ reason' = "norows"
    /\ UNCHANGED <<envVars, store, handle, index, offset, sink, faults, opened>>

\* getBlobHandler
Open ==
    /\ pc = "open" /\ req.rows # <<>>
    /\ MoveHandle(Row.id)
    /\ pc' = "row"
    /\ UNCHANGED <<envVars, store, index, offset, sink, faults, reason>>

OpenFails ==
    /\ pc = "open" /\ req.rows # <<>>
    /\ \/ Key(Row.id) \in missing /\ UNCHANGED faults
       \/ Fault
    /\ pc' = "failed" /\ reason' = "open"
    /\ UNCHANGED <<envVars, store, handle, index, offset, sink, opened>>

\* Defective variant of Reopen: the handle stays on the first row.
ReopenNever ==
    /\ pc = "row" /\ index <= Len(req.rows)
    /\ pc' = req.op
    /\ UNCHANGED <<envVars, store, handle, index, offset, sink, faults, opened, reason>>

\* reopen(handler:atRowId:ifNecessary:)
Reopen ==
    /\ pc = "row" /\ index <= Len(req.rows)
    /\ IF index > 1 THEN MoveHandle(Row.id) ELSE UNCHANGED <<handle, opened>>
    /\ pc' = req.op
    /\ UNCHANGED <<envVars, store, index, offset, sink, faults, reason>>

ReopenFails ==
    /\ pc = "row" /\ index <= Len(req.rows) /\ index > 1
    /\ \/ Key(Row.id) \in missing /\ UNCHANGED faults
       \/ Fault
    /\ handle' = [handle EXCEPT !.valid = FALSE]
    /\ Throw("reopen")
    /\ UNCHANGED <<envVars, store, index, offset, sink, opened>>

\* Every row is done.
Finish ==
    /\ pc = "row" /\ index > Len(req.rows)
    /\ pc' = "closing"
    /\ UNCHANGED <<envVars, store, handle, index, offset, sink, faults, opened, reason>>

\* Defective variant of Close: the handle is only closed when the call succeeds.
CloseOnSuccess ==
    /\ pc = "closing"
    /\ handle' = [handle EXCEPT !.open = (reason # "none")]
    /\ pc' = IF reason = "none" THEN "done" ELSE "failed"
    /\ UNCHANGED <<envVars, store, index, offset, sink, faults, opened, reason>>

\* defer { SQCloudBlobClose(handler) }
Close ==
    /\ pc = "closing"
    /\ handle' = [handle EXCEPT !.open = FALSE]
    /\ pc' = IF reason = "none" THEN "done" ELSE "failed"
    /\ UNCHANGED <<envVars, store, index, offset, sink, faults, opened, reason>>

\* Defective variant of NextRow: the offset of the row before is kept.
NextRowContinues == pc' = "row" /\ index' = index + 1 /\ UNCHANGED offset

\* The next row starts at its first byte.
NextRow == pc' = "row" /\ index' = index + 1 /\ offset' = 0

-----------------------------------------------------------------------------
(* sizeInBytes and read *)

BlobBytes ==
    /\ pc = "size"
    /\ sink' = [sink EXCEPT ![index] = <<handle.size>>]
    /\ NextRow
    /\ UNCHANGED <<envVars, store, handle, faults, opened, reason>>

\* Defective variant of ReadChunk: the bytes are always read from the start.
ReadFirstChunk ==
    /\ pc = "read" /\ offset < Total
    /\ handle.valid
    /\ sink' = [sink EXCEPT ![index] = @ \o SubSeq(store[Key(handle.id)], 1, NextChunk)]
    /\ offset' = offset + NextChunk
    /\ UNCHANGED <<envVars, store, handle, pc, index, faults, opened, reason>>

\* SQCloudBlobRead of the next chunk; it is put behind what the file holds.
ReadChunk ==
    /\ pc = "read" /\ offset < Total
    /\ handle.valid
    /\ sink' = [sink EXCEPT ![index] =
                   @ \o SubSeq(store[Key(handle.id)], offset + 1, offset + NextChunk)]
    /\ offset' = offset + NextChunk
    /\ UNCHANGED <<envVars, store, handle, pc, index, faults, opened, reason>>

\* The file takes fewer bytes than it is given: only an error of the stream is noticed,
\* and the next chunk follows behind the gap.
ReadShort ==
    /\ pc = "read" /\ offset < Total
    /\ handle.valid
    /\ Row.url
    /\ Fault
    /\ \E n \in 0 .. NextChunk - 1 :
         sink' = [sink EXCEPT ![index] =
                     @ \o SubSeq(store[Key(handle.id)], offset + 1, offset + n)]
    /\ offset' = offset + NextChunk
    /\ skipped' = skipped \cup {index}
    /\ UNCHANGED <<constVars, missing, others, store, handle, pc, index, opened, reason>>

ReadFails ==
    /\ pc = "read" /\ offset < Total
    /\ \/ ~handle.valid /\ UNCHANGED faults
       \/ Fault
    /\ Throw("read")
    /\ UNCHANGED <<envVars, store, handle, index, offset, sink, opened>>

ReadRowDone ==
    /\ pc = "read" /\ offset >= Total
    /\ NextRow
    /\ UNCHANGED <<envVars, store, handle, sink, faults, opened, reason>>

-----------------------------------------------------------------------------
(* update *)

\* Defective variant of CheckSize: every BLOB that may be made larger is.
CheckAutoOnly ==
    /\ pc = "update"
    /\ pc' = IF req.auto THEN "expand" ELSE "write"
    /\ UNCHANGED <<envVars, store, handle, index, offset, sink, faults, opened, reason>>

\* currentLen < dataBytesCount && blob.automaticallyIncreasesBlobSize
CheckSize ==
    /\ pc = "update"
    /\ pc' = IF handle.size < Row.len /\ req.auto THEN "expand" ELSE "write"
    /\ UNCHANGED <<envVars, store, handle, index, offset, sink, faults, opened, reason>>

\* The statement names the table without its schema.
ExpandedKey == <<DefaultSchema, Row.id>>

\* UPDATE ... SET column = zeroblob(size): the content is lost, a handle on the row
\* aborted.  No row of that id is no error.
Zeroed ==
    /\ store' = IF ExpandedKey \in missing THEN store
                ELSE [store EXCEPT ![ExpandedKey] = [k \in 1 .. Row.len |-> Zero]]
    /\ handle' = [handle EXCEPT !.valid = @ /\ Key(handle.id) # ExpandedKey]

\* exec(.expandBlob)
Expand ==
    /\ pc = "expand"
    /\ Zeroed
    /\ pc' = "acknowledge"
    /\ UNCHANGED <<envVars, index, offset, sink, faults, opened, reason>>

\* It fails, before or after the server ran it.
ExpandFails ==
    /\ pc = "expand"
    /\ Fault
    /\ Zeroed \/ UNCHANGED <<store, handle>>
    /\ Throw("expand")
    /\ UNCHANGED <<envVars, index, offset, sink, opened>>

\* Defective variant of Acknowledge: the handle is not reopened.
NotAcknowledged ==
    /\ pc = "acknowledge"
    /\ pc' = "write"
    /\ UNCHANGED <<envVars, store, handle, index, offset, sink, faults, opened, reason>>

\* Defective variant of Acknowledge: the reopened handle's size is checked once more.
AcknowledgeAndCheck ==
    /\ pc = "acknowledge"
    /\ MoveHandle(Row.id)
    /\ pc' = "update"
    /\ UNCHANGED <<envVars, store, index, offset, sink, faults, reason>>

\* SQCloudBlobReOpen after the expansion; its result is not looked at.
Acknowledge ==
    /\ pc = "acknowledge"
    /\ \/ MoveHandle(Row.id) /\ UNCHANGED faults
       \/ /\ \/ Key(Row.id) \in missing /\ UNCHANGED faults
             \/ Fault
          /\ handle' = [handle EXCEPT !.valid = FALSE]
          /\ UNCHANGED opened
    /\ pc' = "write"
    /\ UNCHANGED <<envVars, store, index, offset, sink, reason>>

\* What SQCloudBlobWrite of the next chunk stores.
WrittenStore ==
    [store EXCEPT ![Key(handle.id)] =
        Overwritten(@, offset, SubSeq(Given(index), offset + 1, offset + NextChunk))]

\* The handle accepts the next chunk and some bytes are written: a BLOB cannot grow.
Accepts == handle.valid /\ NextChunk > 0 /\ offset + NextChunk <= handle.size

WriteChunk ==
    /\ pc = "write" /\ offset < Total
    /\ Accepts
    /\ store' = WrittenStore
    /\ offset' = offset + NextChunk
    /\ UNCHANGED <<envVars, handle, pc, index, sink, faults, opened, reason>>

\* It returns less than 1: refused, or failed before or after the server ran it.
WriteFails ==
    /\ pc = "write" /\ offset < Total
    /\ \/ ~Accepts /\ UNCHANGED <<store, faults>>
       \/ Fault /\ UNCHANGED store
       \/ Fault /\ Accepts /\ store' = WrittenStore
    /\ Throw("write")
    /\ UNCHANGED <<envVars, handle, index, offset, sink, opened>>

\* A file stream at its end reports more bytes, reads none, and the callback takes the
\* write of no bytes for a failure.
WriteNothing ==
    /\ pc = "write" /\ offset >= Total
    /\ Streamed
    /\ Throw("eof")
    /\ UNCHANGED <<envVars, store, handle, index, offset, sink, faults, opened>>

\* SQCloudIsError after the last write of the row.
WriteRowDone ==
    /\ pc = "write" /\ offset >= Total
    /\ NextRow
    /\ UNCHANGED <<envVars, store, handle, sink, faults, opened, reason>>

WriteRowFails ==
    /\ pc = "write" /\ offset >= Total
    /\ Fault
    /\ Throw("error")
    /\ UNCHANGED <<envVars, store, handle, index, offset, sink, opened>>

-----------------------------------------------------------------------------
(* The local files rows are read from and written to *)

\* The length of the file, its data, or a read or write of its stream fails.
FileFails ==
    /\ \/ pc \in {"update", "read"}
       \/ pc = "write" /\ (offset = 0 \/ Streamed)
    /\ Row.url
    /\ Fault
    /\ Throw("file")
    /\ UNCHANGED <<envVars, store, handle, index, offset, sink, opened>>

\* A file stream that did not open, or whose file was truncated, reports no more bytes:
\* the loop ends as if all were written.
StreamEndsEarly ==
    /\ pc = "write" /\ Streamed /\ offset < Total
    /\ Fault
    /\ NextRow
    /\ skipped' = skipped \cup {index}
    /\ UNCHANGED <<constVars, missing, others, store, handle, sink, opened, reason>>

-----------------------------------------------------------------------------
(* Other clients *)

\* Another client replaces or deletes a row: a handle on it is aborted.
OtherChange(key) ==
    /\ pc \notin {"done", "failed"}
    /\ key \notin others /\ Cardinality(others) < MaxOthers
    /\ \E x \in Contents :
         store' = [store EXCEPT ![key] = [k \in DOMAIN x |-> Others(k)]]
    /\ missing' \in {missing \ {key}, missing \cup {key}}
    /\ others' = others \cup {key}
    /\ handle' = [handle EXCEPT !.valid = @ /\ Key(handle.id) # key]
    /\ UNCHANGED <<constVars, pc, index, offset, sink, faults, opened, skipped, reason>>

-----------------------------------------------------------------------------

HandleStep == Open \/ OpenFails \/ NoRows \/ Reopen \/ ReopenFails \/ Finish \/ Close
ReadStep   == BlobBytes \/ ReadChunk \/ ReadShort \/ ReadFails \/ ReadRowDone
UpdateStep ==
    \/ CheckSize \/ Expand \/ ExpandFails \/ Acknowledge
    \/ WriteChunk \/ WriteFails \/ WriteNothing \/ WriteRowDone \/ WriteRowFails

FileStep == FileFails \/ StreamEndsEarly
Call == HandleStep \/ ReadStep \/ UpdateStep \/ FileStep
Next == Call \/ \E key \in Keys : OtherChange(key)

Spec == Init /\ [][Next]_vars
\* The call runs on: its C calls return.  None of them has to fail.
FairSpec == Spec /\ WF_vars(Call /\ UNCHANGED faults)

-----------------------------------------------------------------------------
(* Properties *)

\* The type invariant; an update never hands SQCloudBlobWrite bytes past its data.
TypeOK ==
    /\ req \in Requests
    /\ store \in [Keys -> Seq(Stored)]
    /\ missing \subseteq Keys
    /\ handle \in [open : BOOLEAN, id : RowIds, size : Nat, valid : BOOLEAN]
    /\ pc \in {"open", "row", "size", "read", "update", "expand", "acknowledge",
               "write", "closing", "done", "failed"}
    /\ index \in 1 .. Len(req.rows) + 1
    /\ offset \in Nat
    /\ index <= Len(req.rows) /\ pc = "write" => offset <= Total
    /\ faults \in 0 .. MaxFaults
    /\ others \subseteq Keys
    /\ skipped \subseteq DOMAIN req.rows

\* The BLOB of the i-th row after n bytes of an update that no one disturbs: the old
\* one, or zeros where it had to grow, with n bytes over its beginning.
Updated(i, n) ==
    LET old  == before[Key(req.rows[i].id)]
        len  == req.rows[i].len
        grew == Len(old) < len /\ req.auto /\ req.schema = DefaultSchema
    IN Overwritten(IF grew THEN [k \in 1 .. len |-> Zero] ELSE old, 0,
                   SubSeq(Given(i), 1, n))

\* An update goes through its rows in order, whichever call fails and whatever other
\* clients do to other rows: a row before the current one holds all its data (some of
\* them, if its file's stream ended early), the current one exactly what was written so
\* far, or is untouched, and a later one is as before the call.
RowsInOrder ==
    req.op = "update" =>
        \A i \in DOMAIN req.rows :
            LET key == Key(req.rows[i].id)
                part == {Updated(i, n) : n \in 0 .. req.rows[i].len}
            IN key \notin others =>
                /\ i < index =>
                     IF i \in skipped THEN store[key] \in part
                                     ELSE store[key] = Updated(i, req.rows[i].len)
                /\ i = index => store[key] \in part \cup {before[key]}
                /\ i = index /\ pc = "write" /\ handle.valid
                     => store[key] = Updated(i, offset)
                /\ i > index => store[key] = before[key]

\* A read returns every BLOB as it was when the handle was moved to it, never parts of
\* two versions, and sizeInBytes its length.  A file that is there is appended to; one
\* that takes fewer bytes than it is given is excepted.
ReadIsSnapshot ==
    pc = "done" /\ req.op \in {"read", "size"} =>
        \A i \in DOMAIN req.rows \ skipped :
            sink[i] = IF req.op = "read" THEN target[i] \o opened[i]
                                         ELSE <<Len(opened[i])>>

\* An update that no C call and no other client disturbs only throws when there is
\* nothing to update, when the data do not fit and may not be made to fit, or when a
\* file stream reports bytes past its end.
UpdateThrowsForACause ==
    req.op = "update" /\ pc = "failed" /\ faults = 0 /\ others = {} =>
        \/ reason \in {"norows", "eof"}
        \/ reason \in {"open", "reopen"} /\ Key(Row.id) \in missing
        \/ reason = "write" /\ ~req.auto /\ Len(before[Key(Row.id)]) < Row.len

\* The rows of a call as RowUpdates has them: a read or a size is an update without data.
Updates == req.op = "update"
RowData == [i \in DOMAIN req.rows |-> IF Updates THEN Given(i) ELSE <<>>]
RowContent == [i \in DOMAIN req.rows |-> store[Key(req.rows[i].id)]]
Outcome ==
    IF reason # "none" THEN "threw" ELSE IF pc = "done" THEN "returned" ELSE "running"

\* A call implements RowUpdates, whatever fails and whatever other clients do to its rows
\* meanwhile: it never stores a byte in another row, at another place, behind the end of
\* the BLOB, before an earlier byte of the row, or after it threw, and it returns behind
\* the last row only.
Rows ==
    INSTANCE RowUpdates WITH
        Bytes    <- Stored,
        data     <- RowData,
        mayGrow  <- Updates /\ req.auto,
        content  <- RowContent,
        replaced <- {i \in DOMAIN req.rows : Key(req.rows[i].id) \in others},
        current  <- index,
        written  <- IF Updates THEN offset ELSE 0,
        short    <- IF Updates THEN skipped ELSE {},
        outcome  <- Outcome

UpdateSpec == Rows!Spec

\* How far the call is with a row.
Stage ==
    CASE pc = "open" -> 0
      [] pc = "row"  -> 1
      [] pc \in {"size", "read", "update"} -> 2
      [] pc = "expand"      -> 3
      [] pc = "acknowledge" -> 4
      [] pc = "write"       -> 5
      [] pc = "closing"     -> 6
      [] OTHER -> 7

Advances ==
    \/ index' > index
    \/ index' = index /\ Stage' > Stage
    \/ index' = index /\ Stage' = Stage /\ offset' > offset

\* Each step of a call takes it to a later row, to a later stage of the row, or to a later
\* byte: no row, no expansion and no byte twice, whatever fails.  Rows, stages and bytes
\* are bounded, so a call that runs on ends; a chunk of no bytes is no step.
NoStepBack == [][Advances \/ (others' # others /\ UNCHANGED <<index, pc, offset>>)]_vars

\* A handle is closed on every way out of the call.
HandleIsClosed == pc \in {"done", "failed"} => ~handle.open

\* Every call returns or throws.
Returns == <>(pc \in {"done", "failed"})

-----------------------------------------------------------------------------
(* Claims of the documentation that the code does not keep *)

\* "Throws: SQLiteCloudError.taskError if the blob upload failed" (update): when it does
\* not throw, and no other client interferes, every row begins with its new data.
FailureThrows ==
    pc = "done" /\ req.op = "update" /\ others = {} =>
        \A i \in DOMAIN req.rows :
            LET new == store[Key(req.rows[i].id)]
            IN SubSeq(new, 1, Smaller(req.rows[i].len, Len(new))) = Given(i)

\* "a handle to the BLOB located in row rowid, column colname, table tablename in
\* database dbname" (getBlobHandler): an update leaves the other databases alone.
OtherSchemasUntouched ==
    \A key \in Keys : key[1] # req.schema => store[key] = before[key]
=============================================================================
