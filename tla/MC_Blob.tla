------------------------------- MODULE MC_Blob -------------------------------
(***************************************************************************)
(* Instances of Blob: BLOBs of a few lengths, calls of at most MaxRows    *)
(* rows.                                                                   *)
(***************************************************************************)
EXTENDS Blob

CONSTANTS r1, r2, main, other, Lengths, MaxRows, Threshold, Chunk

\* What BLOBs hold before the call.
SmallContents == {[k \in 1 .. n |-> Old(k)] : n \in Lengths}

RowRequests == [id : RowIds, len : Lengths \cup {0}, url : BOOLEAN]

\* Row lists of distinct ids, up to their names.  Only an update gives data, and a size
\* needs no file.
RowLists(op) ==
    {rows \in UNION {[1 .. n -> RowRequests] : n \in 0 .. MaxRows} :
        /\ \A i \in DOMAIN rows : rows[i].id = IF i = 1 THEN r1 ELSE r2
        /\ op # "update" => \A i \in DOMAIN rows : rows[i].len = 0
        /\ op = "size" => \A i \in DOMAIN rows : ~rows[i].url}

Calls(ops) ==
    UNION {[op : {op}, schema : Schemas, rows : RowLists(op), auto : BOOLEAN,
            threshold : {Threshold}, chunk : {Chunk}] : op \in ops}

ReadCalls == {q \in Calls({"read", "size"}) : q.auto}
UpdateCalls == Calls({"update"})
\* Updates of one row with some data.
DataCalls == {q \in UpdateCalls : Len(q.rows) = 1 /\ q.rows[1].len > 0}
AllCalls == ReadCalls \cup UpdateCalls
=============================================================================
