----------------------------- MODULE RowUpdates -----------------------------
(***************************************************************************)
(* What SQLiteCloud.update promises about the rows it is given, without    *)
(* handles, chunks, files or the calls that fail: it goes through its rows *)
(* in order, and changes nothing but the row it is at, by storing the next *)
(* bytes of that row's data at their place, or by making room for them     *)
(* before the first one; it returns behind the last row, and stores        *)
(* nothing after it threw.  Other clients replace rows in between.         *)
(***************************************************************************)
EXTENDS Integers, Sequences

CONSTANTS
    Bytes,  \* what a BLOB consists of
    Zero    \* the byte of a BLOB that was made larger

VARIABLES
    data,      \* the data of each row
    mayGrow,   \* BLOBs that are too small are made larger
    content,   \* the BLOB of each row
    replaced,  \* the rows other clients replaced
    current,   \* the position of the row that is being written
    written,   \* how many of its bytes are
    short,     \* the rows that were left before all their bytes were written
    outcome

vars == <<data, mayGrow, content, replaced, current, written, short, outcome>>

Init ==
    /\ data \in Seq(Seq(Bytes)) /\ mayGrow \in BOOLEAN
    /\ content \in [DOMAIN data -> Seq(Bytes)]
    /\ replaced = {}
    /\ current = 1 /\ written = 0
    /\ short = {}
    /\ outcome = "running"

Running == outcome = "running" /\ current \in DOMAIN data

\* Room for the data of the row, whose old bytes are lost.  The answer may be lost, too.
Grow ==
    /\ Running /\ mayGrow /\ written = 0
    /\ current \in replaced \/ Len(content[current]) < Len(data[current])
    /\ content' = [content EXCEPT ![current] = [k \in 1 .. Len(data[current]) |-> Zero]]
    /\ outcome' \in {"running", "threw"}
    /\ UNCHANGED <<data, mayGrow, replaced, current, written, short>>

\* Some more bytes, within the BLOB.  If the answer is lost, the update throws.
Write ==
    /\ Running
    /\ \E n \in 1 .. Len(data[current]) - written :
         /\ written + n <= Len(content[current])
         /\ content' = [content EXCEPT ![current] =
                           [k \in DOMAIN @ |-> IF k \in written + 1 .. written + n
                                               THEN data[current][k] ELSE @[k]]]
         /\ \/ written' = written + n /\ UNCHANGED outcome
            \/ outcome' = "threw" /\ UNCHANGED written
    /\ UNCHANGED <<data, mayGrow, replaced, current, short>>

NextRow ==
    /\ Running
    /\ current' = current + 1 /\ written' = 0
    /\ short' = IF written = Len(data[current]) THEN short ELSE short \cup {current}
    /\ UNCHANGED <<data, mayGrow, content, replaced, outcome>>

Return ==
    /\ outcome = "running" /\ current = Len(data) + 1
    /\ outcome' = "returned"
    /\ UNCHANGED <<data, mayGrow, content, replaced, current, written, short>>

Throw ==
    /\ outcome = "running"
    /\ outcome' = "threw"
    /\ UNCHANGED <<data, mayGrow, content, replaced, current, written, short>>

Replace(i) ==
    /\ replaced' = replaced \cup {i}
    /\ i \notin replaced
    /\ content' \in [DOMAIN data -> Seq(Bytes)]
    /\ \A j \in DOMAIN data \ {i} : content'[j] = content[j]
    /\ UNCHANGED <<data, mayGrow, current, written, short, outcome>>

Next ==
    \/ Grow \/ Write \/ NextRow \/ Return \/ Throw
    \/ \E i \in DOMAIN data : Replace(i)

Spec == Init /\ [][Next]_vars
=============================================================================
