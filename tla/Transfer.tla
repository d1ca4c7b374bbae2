------------------------------ MODULE Transfer ------------------------------
(***************************************************************************)
(* The operations upload and download of the actor SQLiteCloud, with their *)
(* helpers UploadHelper and DownloadHelper.                                *)
(*                                                                         *)
(* One call is one behaviour.  The helper owns the file stream; it is      *)
(* handed to the C library as a retained opaque pointer, and only the      *)
(* callback releases that reference, when it thinks that it has been       *)
(* called for the last time.  The local variable holds the helper as well, *)
(* but ARC may drop it any time after its last use, before the C call      *)
(* ends.  The callback loop is the C library's: it goes on until the       *)
(* callback fails, until an upload gives no bytes or a download has them   *)
(* all, or until a round trip to the server fails between two callbacks;   *)
(* and it decides whether a callback gets a buffer.                        *)
(*                                                                         *)
(* Abstracted: bytes are counted, the streams and the connection keep      *)
(* their order; the temporary file of a download is there from the time    *)
(* the helper is, and nothing removes it.  The client is connected.        *)
(***************************************************************************)
EXTENDS Integers

CONSTANTS
    MaxSize,     \* bound: bytes of a file or a database
    Buffer,      \* the most bytes of one callback
    MaxFaults,   \* bound: operations on a file or a connection that fail
    MaxResizes   \* bound: changes of the file by another process

ASSUME TransferAssumption ==
    /\ MaxSize \in Nat /\ Buffer \in Nat \ {0}
    /\ MaxFaults \in Nat /\ MaxResizes \in Nat

VARIABLES
    direction,   \* "upload" or "download"
    file,        \* length of the file to upload, or of the database to download
    size,        \* the total length the C library is told, or learns (ntot)
    pc,          \* what the call does next
    local,       \* the local variable holds the helper
    handed,      \* the reference taken by passRetained is not released
    stream,      \* the helper's stream: "none", "open" or "closed"
    moved,       \* bytes read from the file, or received from the server
    stored,      \* bytes the server received, or written to the temporary file
    reported,    \* last progress given to the handler, times size
    cut,         \* history: a round trip to the server failed, or a buffer was missing
    faults,
    resizes

vars == <<direction, file, size, pc, local, handed, stream, moved, stored, reported,
          cut, faults, resizes>>

-----------------------------------------------------------------------------

Fault == faults < MaxFaults /\ faults' = faults + 1
Alive == local \/ handed

\* The references are l and h from now on; the last one to go closes the stream (deinit).
Hold(l, h) ==
    /\ local' = l /\ handed' = h
    /\ stream' = IF l \/ h \/ stream = "none" THEN stream ELSE "closed"

\* The callback's release of xData.
Release == Hold(local, FALSE)

Init ==
    /\ direction \in {"upload", "download"}
    /\ file \in 0 .. MaxSize
    /\ size = 0
    /\ pc = "start"
    /\ local = FALSE /\ handed = FALSE
    /\ stream = "none"
    /\ moved = 0 /\ stored = 0 /\ reported = 0
    /\ cut = FALSE
    /\ faults = 0 /\ resizes = 0

-----------------------------------------------------------------------------
(* The call, up to the C function *)

\* UploadHelper.init reads the whole file for its length, then opens the stream;
\* DownloadHelper.init creates the temporary file.
OpenHelper ==
    /\ pc = "start"
    /\ local' = TRUE
    /\ stream' = "open"
    /\ size' = IF direction = "upload" THEN file ELSE 0
    /\ pc' = "hand"
    /\ UNCHANGED <<direction, file, handed, moved, stored, reported, cut, faults,
                   resizes>>

\* No stream or no data: nothing was retained.
OpenFails ==
    /\ pc = "start"
    /\ Fault
    /\ pc' = "threw"
    /\ UNCHANGED <<direction, file, size, local, handed, stream, moved, stored, reported,
                   cut, resizes>>

\* Defective variant of HandOver: passUnretained.
HandOverUnretained ==
    /\ pc = "hand"
    /\ pc' = "command"
    /\ UNCHANGED <<direction, file, size, local, handed, stream, moved, stored, reported,
                   faults, cut, resizes>>

\* Unmanaged.passRetained(dataHandler)
HandOver ==
    /\ pc = "hand"
    /\ handed' = TRUE
    /\ pc' = "command"
    /\ UNCHANGED <<direction, file, size, local, stream, moved, stored, reported,
                   faults, cut, resizes>>

\* ARC drops the local variable after its last use.
DropLocal ==
    /\ local /\ pc \notin {"start", "hand"}
    /\ Hold(FALSE, handed)
    /\ UNCHANGED <<direction, file, size, pc, moved, stored, reported, faults,
                   cut, resizes>>

-----------------------------------------------------------------------------
(* The C library *)

\* The UPLOAD DATABASE or DOWNLOAD DATABASE command; the latter answers the length.
\* Nothing is left to do for an empty database, with or without a callback.
Command ==
    /\ pc = "command"
    /\ size' = IF direction = "download" THEN file ELSE size
    /\ pc' \in IF direction = "download" /\ file = 0 THEN {"callback", "success"}
               ELSE {"callback"}
    /\ UNCHANGED <<direction, file, local, handed, stream, moved, stored, reported,
                   faults, cut, resizes>>

\* The bytes given by the last read reach the server; no bytes end the upload.
SendChunk ==
    /\ pc = "send"
    /\ stored' = moved
    /\ pc' = IF moved > stored THEN "callback" ELSE "success"
    /\ UNCHANGED <<direction, file, size, local, handed, stream, moved, reported,
                   faults, cut, resizes>>

\* A round trip fails: the function returns false without a further callback.
NetworkFails ==
    /\ pc \in {"command", "send", "callback"}
    /\ pc = "callback" => direction = "download"
    /\ Fault
    /\ cut' = TRUE
    /\ pc' = "failure"
    /\ UNCHANGED <<direction, file, size, local, handed, stream, moved, stored, reported,
                   resizes>>

-----------------------------------------------------------------------------
(* The callbacks *)

\* Defective variant of ReadChunk: the C library is not told how many bytes were read.
ReadWholeBuffer ==
    /\ pc = "callback" /\ direction = "upload" /\ Alive
    /\ moved < file
    /\ moved' = moved + Buffer
    /\ reported' = moved'
    /\ pc' = "send"
    /\ UNCHANGED <<direction, file, size, local, handed, stream, stored, cut,
                   faults, resizes>>

\* UploadHelper.result: some bytes.
ReadChunk ==
    /\ pc = "callback" /\ direction = "upload" /\ Alive
    /\ \E n \in 1 .. Buffer :
         /\ moved + n <= file
         /\ moved' = moved + n
    /\ reported' = moved'
    /\ pc' = "send"
    /\ UNCHANGED <<direction, file, size, local, handed, stream, stored, faults,
                   cut, resizes>>

\* It is at the end of the file: completed.
ReadNothing ==
    /\ pc = "callback" /\ direction = "upload" /\ Alive
    /\ moved >= file
    /\ Release
    /\ pc' = "send"
    /\ UNCHANGED <<direction, file, size, moved, stored, reported, faults,
                   cut, resizes>>

\* Defective variant of ReadFails: completed only at the end of the file.
ReadFailsHeld ==
    /\ pc = "callback" /\ direction = "upload" /\ Alive
    /\ Fault
    /\ pc' = "failure"
    /\ UNCHANGED <<direction, file, size, local, handed, stream, moved, stored, reported,
                   cut, resizes>>

\* The stream reports -1, or there is no buffer: completed, and the C library stops.
ReadFails ==
    /\ pc = "callback" /\ direction = "upload" /\ Alive
    /\ Fault
    /\ Release
    /\ pc' = "failure"
    /\ UNCHANGED <<direction, file, size, moved, stored, reported, cut,
                   resizes>>

\* DownloadHelper.result: the next bytes of the database are written.  The progress is
\* 0 / 0, which is no number, for an empty database.
Completed(progress) == size > 0 /\ progress = size

WriteChunk ==
    /\ pc = "callback" /\ direction = "download" /\ Alive
    /\ \E n \in 0 .. Buffer :
         /\ n = 0 => size = 0
         /\ moved + n <= size
         /\ moved' = moved + n
         /\ stored' = stored + n
    /\ reported' = moved'
    /\ IF Completed(moved') THEN Release ELSE UNCHANGED <<local, handed, stream>>
    /\ pc' = IF moved' = size THEN "success" ELSE "callback"
    /\ UNCHANGED <<direction, file, size, faults, cut, resizes>>

\* Some bytes of a chunk that was received are not written.
ShortWrite ==
    /\ pc = "callback" /\ direction = "download" /\ Alive
    /\ Fault
    /\ \E n \in 1 .. Buffer, k \in 0 .. Buffer :
         /\ moved + n <= size /\ k < n
         /\ moved' = moved + n
         /\ stored' = stored + k
    /\ UNCHANGED <<direction, file, size, cut, resizes>>

\* Defective variant of WriteFails: the number of bytes written is not looked at.
WriteUnchecked ==
    /\ ShortWrite
    /\ reported' = moved'
    /\ IF Completed(moved') THEN Release ELSE UNCHANGED <<local, handed, stream>>
    /\ pc' = IF moved' = size THEN "success" ELSE "callback"

\* DownloadHelper.result after a short write: completed, and the C library stops.
WriteFails ==
    /\ ShortWrite
    /\ Release
    /\ pc' = "failure"
    /\ UNCHANGED reported

\* The callback of a download gets no buffer (which may be how the C library passes no
\* bytes): it returns before it looks at the helper, and releases nothing.
BufferMissing ==
    /\ pc = "callback" /\ direction = "download"
    /\ Fault
    /\ cut' = TRUE
    /\ pc' = "failure"
    /\ UNCHANGED <<direction, file, size, local, handed, stream, moved, stored, reported,
                   resizes>>

-----------------------------------------------------------------------------
(* The end of the call *)

\* The local variable is gone when the method returns.
Return ==
    /\ pc = "success"
    /\ Hold(FALSE, handed)
    /\ pc' = "returned"
    /\ UNCHANGED <<direction, file, size, moved, stored, reported, faults,
                   cut, resizes>>

Throw ==
    /\ pc = "failure"
    /\ Hold(FALSE, handed)
    /\ pc' = "threw"
    /\ UNCHANGED <<direction, file, size, moved, stored, reported, faults,
                   cut, resizes>>

-----------------------------------------------------------------------------
(* Other processes *)

\* Another process changes the length of the file that is being uploaded.
Resize ==
    /\ direction = "upload" /\ pc \notin {"returned", "threw"}
    /\ resizes < MaxResizes
    /\ resizes' = resizes + 1
    /\ file' \in 0 .. MaxSize \ {file}
    /\ UNCHANGED <<direction, size, pc, local, handed, stream, moved, stored, reported,
                   cut, faults>>

-----------------------------------------------------------------------------

Setup    == OpenHelper \/ OpenFails \/ HandOver \/ DropLocal
Library  == Command \/ SendChunk \/ NetworkFails
Callback == ReadChunk \/ ReadNothing \/ ReadFails \/ WriteChunk \/ WriteFails
            \/ BufferMissing
Outcome  == Return \/ Throw

Next == Setup \/ Library \/ Callback \/ Outcome \/ Resize

Spec == Init /\ [][Next]_vars

-----------------------------------------------------------------------------
(* Properties *)

\* The type invariant.
TypeOK ==
    /\ direction \in {"upload", "download"}
    /\ file \in 0 .. MaxSize /\ size \in 0 .. MaxSize
    /\ pc \in {"start", "hand", "command", "callback", "send", "success", "failure",
               "returned", "threw"}
    /\ local \in BOOLEAN /\ handed \in BOOLEAN /\ cut \in BOOLEAN
    /\ stream \in {"none", "open", "closed"}
    /\ moved \in 0 .. MaxSize /\ stored \in 0 .. moved /\ reported \in 0 .. moved
    /\ faults \in 0 .. MaxFaults /\ resizes \in 0 .. MaxResizes

\* A callback never meets a helper that was freed, however early ARC drops the local
\* variable and whatever failed before.
HelperAliveInCallback == pc = "callback" => handed /\ stream = "open"

\* Nothing keeps the helper and its open stream after the call, unless the C library
\* stopped between two callbacks, a download's callback got no buffer, or the database is
\* empty: the callback releases its reference once the transfer is complete, and when the
\* file cannot be read or written.
HelperFreed ==
    pc \in {"returned", "threw"} /\ ~cut /\ ~(direction = "download" /\ size = 0)
        => ~Alive /\ stream # "open"

\* A transfer that succeeds has moved every byte that was announced, and has reported
\* all of them; an upload whose file changes meanwhile excepted.
SuccessIsComplete ==
    pc = "returned" /\ resizes = 0 => stored = size /\ reported = size /\ size = file
=============================================================================
