-------------------------- MODULE BlobUpdate_proofs --------------------------
(***************************************************************************)
(* Proofs about the updates of Blob, on top of Blob_proofs.  The argument: *)
(* a row that no other client changes is the row the handle has seen, so   *)
(* at each point of the loop its BLOB is a function of the BLOB before the *)
(* call and of the bytes written so far, whichever calls fail.             *)
(***************************************************************************)
EXTENDS Blob_proofs

RowKey(i) == Key(req.rows[i].id)
Part(i) == {Updated(i, n) : n \in 0 .. req.rows[i].len}
Quiet == RowKey(index) \notin others

\* The row's loop has begun and its BLOB has not been changed.
Fresh == pc = "update" \/ (pc = "row" /\ index = 1)

\* What the handle knows of a row that no other client changes.
HandleKnows ==
    /\ (pc \in Updating \/ Fresh) /\ handle.valid => handle.id = Row.id
    /\ Fresh /\ Quiet =>
         handle.valid /\ handle.id = Row.id /\ handle.size = Len(before[RowKey(index)])
    /\ (pc \in Updating \/ Fresh) /\ Quiet => RowKey(index) \notin missing
    /\ pc \in {"expand", "acknowledge"} /\ Quiet =>
         Len(before[RowKey(index)]) < Row.len /\ req.auto

\* The BLOB of the i-th row at each point of the call.
RowState(i) ==
    LET blob == store[RowKey(i)]
        old  == before[RowKey(i)]
    IN /\ i < index => IF i \in skipped THEN blob \in Part(i)
                                        ELSE blob = Updated(i, req.rows[i].len)
       /\ i > index => blob = old
       /\ i = index =>
            /\ pc \in {"open", "row", "update", "expand"} => blob = old
            /\ pc = "acknowledge" => blob = Updated(i, 0)
            /\ pc = "write" => blob = Updated(i, offset)
            /\ pc \in {"closing", "failed"} => blob \in Part(i) \cup {old}

RowStates == \A i \in DOMAIN req.rows : RowKey(i) \notin others => RowState(i)

\* The inductive invariant of an update.
UpdateInv ==
    /\ before \in [Keys -> Seq(Stored)]
    /\ req.op = "update" => HandleKnows /\ RowStates

-----------------------------------------------------------------------------
(* Bytes over bytes *)

\* The data of a row are as many bytes as it says.
LEMMA GivenType ==
    ASSUME req \in Requests, NEW i \in DOMAIN req.rows
    PROVE  /\ Given(i) \in Seq(Stored) /\ Len(Given(i)) = req.rows[i].len
           /\ req.rows[i].len \in Nat
<1>1. req.rows[i].len \in Nat /\ i \in Nat
  BY RequestType
<1>2. \A j \in 1 .. req.rows[i].len : <<i, j>> \in Stored
  BY <1>1 DEF Stored
<1> QED
  BY <1>1, <1>2 DEF Given

\* Writing no bytes changes nothing; writing the next n behind the first m is writing
\* the first m + n.
LEMMA OverwrittenInParts ==
    ASSUME NEW x \in Seq(Stored), NEW g \in Seq(Stored),
           NEW m \in Nat, NEW n \in Nat, m + n <= Len(g)
    PROVE  /\ Overwritten(x, 0, SubSeq(g, 1, 0)) = x
           /\ Overwritten(Overwritten(x, 0, SubSeq(g, 1, m)), m, SubSeq(g, m + 1, m + n))
                = Overwritten(x, 0, SubSeq(g, 1, m + n))
<1>1. Len(g) \in Nat /\ \A k \in 1 .. Len(g) : g[k] \in Stored
  BY LenProperties, ElementOfSeq
<1>2. Len(x) \in Nat /\ DOMAIN x = 1 .. Len(x) /\ x = [k \in DOMAIN x |-> x[k]]
  BY LenProperties
<1>3. Overwritten(x, 0, SubSeq(g, 1, 0)) = x
  <2>1. SubSeq(g, 1, 0) = <<>> /\ Len(<<>>) = 0
    BY SubSeqEmpty, EmptySeq
  <2>2. \A k \in DOMAIN x : k \notin 0 + 1 .. 0 + Len(SubSeq(g, 1, 0))
    BY <1>2, <2>1
  <2>3. Overwritten(x, 0, SubSeq(g, 1, 0)) = [k \in DOMAIN x |-> x[k]]
    BY <2>2 DEF Overwritten
  <2> QED
    BY <1>2, <2>3
<1>4. Overwritten(Overwritten(x, 0, SubSeq(g, 1, m)), m, SubSeq(g, m + 1, m + n))
        = Overwritten(x, 0, SubSeq(g, 1, m + n))
  <2> DEFINE a == SubSeq(g, 1, m)
             b == SubSeq(g, m + 1, m + n)
             c == SubSeq(g, 1, m + n)
  <2>1. Len(a) = m /\ \A k \in 1 .. m : a[k] = g[k]
    BY <1>1, SubSeqProperties
  <2>2. Len(b) = n /\ \A k \in 1 .. n : b[k] = g[m + k]
    BY <1>1, SubSeqProperties
  <2>3. Len(c) = m + n /\ \A k \in 1 .. m + n : c[k] = g[k]
    BY <1>1, SubSeqProperties
  <2> HIDE DEF a, b, c
  <2> DEFINE y == Overwritten(x, 0, a)
  <2>4. DOMAIN y = DOMAIN x
        /\ \A k \in DOMAIN x : y[k] = IF k \in 1 .. m THEN g[k] ELSE x[k]
    BY <1>2, <2>1 DEF Overwritten
  <2>5. DOMAIN Overwritten(y, m, b) = DOMAIN x
        /\ \A k \in DOMAIN x :
             Overwritten(y, m, b)[k] = IF k \in 1 .. m + n THEN g[k] ELSE x[k]
    <3> HIDE DEF y
    <3>1. \A k \in DOMAIN x : k \in m + 1 .. m + n => b[k - m] = g[k]
      BY <1>2, <2>2
    <3> QED
      BY <1>2, <2>2, <2>4, <3>1 DEF Overwritten
  <2>6. Overwritten(x, 0, c) = [k \in DOMAIN x |-> IF k \in 1 .. m + n THEN g[k] ELSE x[k]]
    BY <1>2, <2>3 DEF Overwritten
  <2>7. Overwritten(y, m, b) = [k \in DOMAIN x |-> IF k \in 1 .. m + n THEN g[k] ELSE x[k]]
    BY <2>5 DEF Overwritten
  <2> QED
    BY <2>6, <2>7 DEF a, b, c
<1> QED
  BY <1>3, <1>4

-----------------------------------------------------------------------------
(* A row that is written in parts *)

Grows(i) ==
    Len(before[RowKey(i)]) < req.rows[i].len /\ req.auto /\ req.schema = DefaultSchema
\* What the data of the i-th row are written over.
Base(i) == IF Grows(i) THEN [k \in 1 .. req.rows[i].len |-> Zero] ELSE before[RowKey(i)]

\* What Updated says of a BLOB (SQLiteCloud.update), in parts: each byte is the new one, the
\* old one or a zero, by its position.
LEMMA UpdatedInParts ==
    ASSUME req \in Requests, before \in [Keys -> Seq(Stored)], NEW i \in DOMAIN req.rows
    PROVE  /\ Updated(i, 0) = Base(i)
           /\ \A m, n \in Nat : m + n <= req.rows[i].len =>
                Overwritten(Updated(i, m), m, SubSeq(Given(i), m + 1, m + n))
                  = Updated(i, m + n)
<1>1. req.rows[i].len \in Nat /\ RowKey(i) \in Keys
  BY RequestType DEF RowKey
<1>2. [k \in 1 .. req.rows[i].len |-> Zero] \in Seq(Stored)
  <2>1. Zero \in Stored
    BY DEF Zero, Stored
  <2> QED
    BY <1>1, <2>1
<1>3. Base(i) \in Seq(Stored)
  BY <1>1, <1>2 DEF Base
<1>4. \A n : Updated(i, n) = Overwritten(Base(i), 0, SubSeq(Given(i), 1, n))
  BY DEF Updated, Base, Grows, RowKey
<1>5. Given(i) \in Seq(Stored) /\ Len(Given(i)) = req.rows[i].len
  BY GivenType
<1>6. \A m, n \in Nat : m + n <= req.rows[i].len =>
        /\ Overwritten(Base(i), 0, SubSeq(Given(i), 1, 0)) = Base(i)
        /\ Overwritten(Overwritten(Base(i), 0, SubSeq(Given(i), 1, m)), m,
                       SubSeq(Given(i), m + 1, m + n))
             = Overwritten(Base(i), 0, SubSeq(Given(i), 1, m + n))
  <2> TAKE m, n \in Nat
  <2> HAVE m + n <= req.rows[i].len
  <2> DEFINE g == Given(i)
             x == Base(i)
  <2>1. x \in Seq(Stored) /\ g \in Seq(Stored) /\ m + n <= Len(g)
    BY <1>3, <1>5
  <2> HIDE DEF g, x
  <2>2. /\ Overwritten(x, 0, SubSeq(g, 1, 0)) = x
        /\ Overwritten(Overwritten(x, 0, SubSeq(g, 1, m)), m, SubSeq(g, m + 1, m + n))
             = Overwritten(x, 0, SubSeq(g, 1, m + n))
    BY <2>1, OverwrittenInParts
  <2> QED
    BY <2>2 DEF g, x
<1>7. Updated(i, 0) = Base(i)
  <2>1. 0 + 0 <= req.rows[i].len
    BY <1>1
  <2>2. Overwritten(Base(i), 0, SubSeq(Given(i), 1, 0)) = Base(i)
    BY <1>6, <2>1
  <2> QED
    BY <1>4, <2>2
<1> QED
  BY <1>4, <1>6, <1>7

\* Rows of a call are different rows of the server.
LEMMA RowsDiffer ==
    ASSUME req \in Requests
    PROVE  \A i, j \in DOMAIN req.rows : RowKey(i) = RowKey(j) => i = j
BY BlobAssumption DEF RowKey, Key

\* Whatever point the row's loop is at, the row is the old one or partly written.
LEMMA StateIsPart ==
    ASSUME BlobInv, NEW i \in DOMAIN req.rows, RowState(i), i = index,
           pc \in {"open", "row", "closing", "failed"} \cup Updating
    PROVE  store[RowKey(i)] \in Part(i) \cup {before[RowKey(i)]}
<1>1. req.rows[i].len \in Nat /\ 0 \in 0 .. req.rows[i].len
  BY RequestType DEF BlobInv, DataInv
<1>2. CASE pc = "write"
  <2>1. offset \in 0 .. req.rows[i].len
    BY <1>1, <1>2 DEF BlobInv, ControlInv, Total, Row, Updating
  <2> QED
    BY <1>2, <2>1 DEF RowState, Part
<1>3. CASE pc # "write"
  BY <1>1, <1>3 DEF RowState, Part, Updating
<1> QED
  BY <1>2, <1>3

\* A step that ends the call or goes on without another BLOB keeps every row's state.
LEMMA RowsFrame ==
    ASSUME BlobInv, RowStates, UNCHANGED <<req, before, others, store, skipped, index>>,
           \/ pc' = "done" /\ index = Len(req.rows) + 1
           \/ pc' \in {"closing", "failed"} /\ pc # "done"
              /\ pc \notin {"size", "read"}
           \/ pc \in {"open", "row", "update"} /\ pc' \in {"row", "update", "expand"}
    PROVE  RowStates'
<1> SUFFICES ASSUME NEW i \in DOMAIN req.rows, RowKey(i) \notin others
             PROVE  RowState(i)'
  BY DEF RowStates, RowKey, Key
<1>1. RowState(i)
  BY DEF RowStates
<1>2. /\ RowKey(i)' = RowKey(i) /\ Part(i)' = Part(i)
      /\ \A n : Updated(i, n)' = Updated(i, n)
  BY DEF RowKey, Part, Updated, Given, Key
<1>3. i \in Nat /\ Len(req.rows) \in Nat /\ i <= Len(req.rows) /\ index \in Nat
  BY RequestType DEF BlobInv, DataInv, ControlInv
<1>4. pc \in Locations
  BY DEF BlobInv, ControlInv
<1>5. CASE i # index
  BY <1>1, <1>2, <1>5 DEF RowState
<1>6. CASE i = index
  <2>1. pc' # "done"
    BY <1>3, <1>6
  <2>2. pc \in {"open", "row", "closing", "failed"} \cup Updating
    BY <1>4, <2>1 DEF Locations, Updating
  <2>3. store[RowKey(i)] \in Part(i) \cup {before[RowKey(i)]}
    BY <1>1, <1>6, <2>2, StateIsPart
  <2>4. pc \in {"open", "row", "update"} => store[RowKey(i)] = before[RowKey(i)]
    BY <1>1, <1>6 DEF RowState
  <2>5. /\ pc' \in {"closing", "failed", "row", "update", "expand"}
        /\ pc' \in {"row", "update", "expand"} => pc \in {"open", "row", "update"}
    BY <2>1
  <2> QED
    BY <1>2, <1>3, <1>6, <2>3, <2>4, <2>5 DEF RowState
<1> QED
  BY <1>5, <1>6

\* A row whose BLOB and place a step leaves alone keeps its state.
LEMMA OtherRowKept ==
    ASSUME RowStates, UNCHANGED <<req, before, others, skipped, index>>,
           NEW i \in DOMAIN req.rows, i # index, RowKey(i) \notin others,
           store'[RowKey(i)] = store[RowKey(i)]
    PROVE  RowState(i)'
<1>1. RowState(i)
  BY DEF RowStates
<1>2. /\ RowKey(i)' = RowKey(i) /\ Part(i)' = Part(i)
      /\ \A n : Updated(i, n)' = Updated(i, n)
  BY DEF RowKey, Part, Updated, Given, Key
<1> QED
  BY <1>1, <1>2 DEF RowState

\* The expansion: the row is its Base afterwards, and no other row of the call changes.
LEMMA ZeroedRows ==
    ASSUME BlobInv, UpdateInv, req.op = "update", pc = "expand", Zeroed
    PROVE  /\ Quiet => store'[RowKey(index)] = Base(index)
           /\ \A i \in DOMAIN req.rows \ {index} : store'[RowKey(i)] = store[RowKey(i)]
<1>1. index \in DOMAIN req.rows /\ req \in Requests /\ store \in [Keys -> Seq(Stored)]
      /\ DefaultSchema \in Schemas
  BY BlobAssumption DEF BlobInv, ControlInv, DataInv, InRow, Updating
<1>2. \A i \in DOMAIN req.rows : RowKey(i) \in Keys
  BY <1>1, RequestType DEF RowKey
<1>3. \A i \in DOMAIN req.rows : ExpandedKey = RowKey(i) =>
        i = index /\ req.schema = DefaultSchema
  BY <1>1, RowsDiffer DEF ExpandedKey, RowKey, Key, Row
<1>4. req.schema = DefaultSchema => ExpandedKey = RowKey(index)
  BY DEF ExpandedKey, RowKey, Key, Row
<1>5. \A i \in DOMAIN req.rows \ {index} : store'[RowKey(i)] = store[RowKey(i)]
  BY <1>1, <1>2, <1>3 DEF Zeroed
<1>6. ASSUME Quiet PROVE store'[RowKey(index)] = Base(index)
  <2>1. /\ RowKey(index) \notin missing
        /\ Len(before[RowKey(index)]) < Row.len /\ req.auto
        /\ store[RowKey(index)] = before[RowKey(index)]
    BY <1>1, <1>6
    DEF UpdateInv, HandleKnows, RowStates, RowState, Quiet, Updating, Fresh
  <2>2. CASE req.schema = DefaultSchema
    <3>1. Grows(index)
      BY <2>1, <2>2 DEF Grows, Row
    <3> QED
      BY <1>1, <1>2, <1>4, <2>1, <2>2, <3>1 DEF Zeroed, Base, Row
  <2>3. CASE req.schema # DefaultSchema
    <3>1. ~Grows(index) /\ ExpandedKey # RowKey(index)
      BY <1>1, <1>3, <2>3 DEF Grows
    <3> QED
      BY <1>1, <1>2, <2>1, <3>1 DEF Zeroed, Base
  <2> QED
    BY <2>2, <2>3
<1> QED
  BY <1>5, <1>6

\* A chunk: the row holds its bytes as well afterwards, and no other row changes.
LEMMA WrittenRows ==
    ASSUME BlobInv, UpdateInv, req.op = "update", pc = "write", offset < Total, Accepts
    PROVE  /\ NextChunk \in Nat /\ offset \in Nat
           /\ offset + NextChunk <= req.rows[index].len
           /\ Quiet => WrittenStore[RowKey(index)] = Updated(index, offset + NextChunk)
           /\ \A i \in DOMAIN req.rows \ {index} :
                WrittenStore[RowKey(i)] = store[RowKey(i)]
<1>1. index \in DOMAIN req.rows /\ req \in Requests /\ store \in [Keys -> Seq(Stored)]
      /\ offset \in Nat /\ handle \in Handle /\ handle.valid
  BY DEF BlobInv, ControlInv, DataInv, InRow, Updating, Accepts
<1>2. \A i \in DOMAIN req.rows : RowKey(i) \in Keys
  BY <1>1, RequestType DEF RowKey
<1>3. Key(handle.id) = RowKey(index)
  BY <1>1 DEF UpdateInv, HandleKnows, Updating, RowKey, Row
<1>4. Total = req.rows[index].len /\ Total \in Nat
  BY <1>1, TotalType DEF Total, Row
<1>5. NextChunk \in Nat /\ offset + NextChunk <= Total
  BY <1>1, <1>4, ChunkBounds
<1>6. \A i \in DOMAIN req.rows \ {index} : WrittenStore[RowKey(i)] = store[RowKey(i)]
  BY <1>1, <1>2, <1>3, RowsDiffer DEF WrittenStore
<1>7. ASSUME Quiet PROVE WrittenStore[RowKey(index)] = Updated(index, offset + NextChunk)
  <2>1. store[RowKey(index)] = Updated(index, offset)
    BY <1>1, <1>7 DEF UpdateInv, RowStates, RowState, Quiet
  <2>2. WrittenStore[RowKey(index)]
          = Overwritten(store[RowKey(index)], offset,
                        SubSeq(Given(index), offset + 1, offset + NextChunk))
    BY <1>1, <1>2, <1>3 DEF WrittenStore
  <2>3. Overwritten(Updated(index, offset), offset,
                    SubSeq(Given(index), offset + 1, offset + NextChunk))
          = Updated(index, offset + NextChunk)
    BY <1>1, <1>4, <1>5, UpdatedInParts DEF UpdateInv
  <2> QED
    BY <2>1, <2>2, <2>3
<1> QED
  BY <1>1, <1>4, <1>5, <1>6, <1>7

-----------------------------------------------------------------------------
(* The invariant and its steps *)

\* A call that begins (SQLiteCloud.update) satisfies the invariant of the updates.
LEMMA UpdateInit == Init => UpdateInv
<1> SUFFICES ASSUME Init PROVE UpdateInv
  OBVIOUS
<1>1. before = store /\ store \in [Keys -> Seq(Stored)]
  BY BlobInit DEF Init, BlobInv, DataInv
<1>2. pc = "open" /\ index = 1 /\ req \in Requests
  BY DEF Init
<1>3. HandleKnows
  BY <1>2 DEF HandleKnows, Updating, Fresh
<1>4. RowStates
  <2> SUFFICES ASSUME NEW i \in DOMAIN req.rows PROVE RowState(i)
    BY DEF RowStates
  <2>1. i \in Nat /\ ~(i < index)
    BY <1>2, RequestType
  <2> QED
    BY <1>1, <1>2, <2>1 DEF RowState
<1> QED
  BY <1>1, <1>3, <1>4 DEF UpdateInv

\* The steps of an update that move the handle or decide what to do with the row.
LEMMA RowStarts ==
    ASSUME BlobInv, UpdateInv, req.op = "update", Open \/ Reopen \/ CheckSize
    PROVE  HandleKnows' /\ RowStates'
<1> DEFINE key == RowKey(index)
<1>0. /\ req \in Requests /\ DataInv /\ index \in DOMAIN req.rows /\ Row.id \in RowIds
      /\ Row.len \in Nat /\ handle.size \in Nat /\ key = Key(Row.id)
      /\ RowStates /\ HandleKnows /\ pc \in {"open", "row", "update"}
      /\ UNCHANGED <<req, before, others, skipped, missing, index, offset, store>>
  <2>1. pc \in {"open", "row", "update"}
        /\ UNCHANGED <<req, before, others, skipped, missing, index, offset, store>>
    BY DEF Open, Reopen, CheckSize, envVars, constVars
  <2>2. req \in Requests /\ index \in DOMAIN req.rows
    BY RequestType, EmptySeq
    DEF Open, Reopen, CheckSize, BlobInv, DataInv, ControlInv, InRow, Updating
  <2> QED
    BY <2>1, <2>2, RequestType
    DEF BlobInv, DataInv, Handle, UpdateInv, Row, RowKey
<1>1. Quiet => store[key] = before[key]
  BY <1>0 DEF RowStates, RowState, Quiet
<1>2. Quiet' = Quiet /\ key' = key /\ Row' = Row
  BY <1>0 DEF Quiet, RowKey, Key, Row
<1>3. ASSUME MoveHandle(Row.id)
      PROVE  /\ handle'.valid /\ handle'.id = Row.id /\ key \notin missing
             /\ Quiet => handle'.size = Len(before[key])
  <2>1. handle'.id = Row.id /\ handle'.size = Len(store[key])
    BY <1>0, <1>3, MoveEffect
  <2> QED
    BY <1>0, <1>1, <1>3, <2>1 DEF MoveHandle
<1>4. CASE Open
  <2>1. pc = "open" /\ pc' = "row" /\ MoveHandle(Row.id)
    BY <1>4 DEF Open
  <2>2. HandleKnows'
    BY <1>0, <1>2, <1>3, <2>1 DEF HandleKnows, Updating
  <2>3. RowStates'
    BY <1>0, <2>1, RowsFrame
  <2> QED
    BY <2>2, <2>3
<1>5. CASE Reopen
  <2>1. pc = "row" /\ pc' = "update"
    BY <1>5 DEF Reopen
  <2>2. HandleKnows'
    <3>1. CASE index = 1
      <4>1. handle' = handle
        BY <1>5, <3>1 DEF Reopen
      <4>2. Fresh
        BY <2>1, <3>1 DEF Fresh
      <4>3. Quiet => handle.valid /\ handle.id = Row.id /\ key \notin missing
                     /\ handle.size = Len(before[key])
        BY <1>0, <4>2 DEF HandleKnows
      <4>4. handle.valid => handle.id = Row.id
        BY <1>0, <4>2 DEF HandleKnows
      <4> QED
        BY <1>0, <1>2, <2>1, <4>1, <4>3, <4>4 DEF HandleKnows
    <3>2. CASE index # 1
      <4>1. MoveHandle(Row.id)
        BY <1>0, <1>5, <3>2, RequestType DEF Reopen
      <4> QED
        BY <1>0, <1>2, <1>3, <2>1, <4>1 DEF HandleKnows
    <3> QED
      BY <3>1, <3>2
  <2>3. RowStates'
    BY <1>0, <2>1, RowsFrame
  <2> QED
    BY <2>2, <2>3
<1>6. CASE CheckSize
  <2>1. /\ pc = "update" /\ handle' = handle
        /\ pc' = IF handle.size < Row.len /\ req.auto THEN "expand" ELSE "write"
    BY <1>6 DEF CheckSize
  <2>2. Quiet => handle.valid /\ handle.id = Row.id /\ key \notin missing
                 /\ handle.size = Len(before[key])
    BY <1>0, <2>1 DEF HandleKnows, Fresh
  <2>3. HandleKnows'
    BY <1>0, <1>2, <2>1, <2>2 DEF HandleKnows, Updating, Fresh
  <2>4. RowStates'
    <3>1. CASE pc' = "expand"
      BY <1>0, <2>1, <3>1, RowsFrame
    <3>2. CASE pc' = "write"
      <4> SUFFICES ASSUME NEW i \in DOMAIN req.rows, RowKey(i) \notin others
                   PROVE  RowState(i)'
        BY <1>0 DEF RowStates, RowKey, Key
      <4>1. CASE i # index
        BY <1>0, <4>1, OtherRowKept
      <4>2. CASE i = index
        <5>1. ~Grows(index)
          BY <2>1, <2>2, <3>2, <4>2 DEF Grows, Quiet, Row
        <5>2. store[key] = Updated(index, 0)
          BY <1>0, <1>1, <4>2, <5>1, UpdatedInParts DEF Base, Quiet, UpdateInv
        <5>3. offset = 0 /\ index \in Nat
          BY <2>1 DEF BlobInv, ControlInv
        <5>4. store'[RowKey(i)'] = Updated(i, offset)'
          BY <1>0, <4>2, <5>2, <5>3 DEF Updated, RowKey, Key, Given
        <5> QED
          BY <1>0, <3>2, <4>2, <5>3, <5>4 DEF RowState
      <4> QED
        BY <4>1, <4>2
    <3> QED
      BY <2>1, <3>1, <3>2
  <2> QED
    BY <2>3, <2>4
<1> QED
  BY <1>4, <1>5, <1>6

\* The steps that end the call without another BLOB.
LEMMA CallEnds ==
    ASSUME BlobInv, UpdateInv, req.op = "update",
           \/ NoRows \/ OpenFails \/ ReopenFails \/ Finish \/ Close
           \/ WriteNothing \/ WriteRowFails \/ FileFails
    PROVE  HandleKnows' /\ RowStates'
<1>1. /\ pc' \in {"closing", "failed"} \/ (pc' = "done" /\ pc = "closing" /\ reason = "none")
      /\ pc \in {"open", "row", "closing"} \cup Updating \cup {"read"}
      /\ UNCHANGED <<req, before, others, skipped, index, store>>
  BY DEF NoRows, OpenFails, ReopenFails, Finish, Close, WriteNothing, WriteRowFails,
         FileFails, Throw, envVars, constVars, Updating
<1>2. pc \notin {"size", "read"}
  BY DEF BlobInv, ControlInv
<1>3. pc' = "done" => index = Len(req.rows) + 1
  BY <1>1 DEF BlobInv, ControlInv
<1>4. RowStates'
  BY <1>1, <1>2, <1>3, RowsFrame DEF UpdateInv, Updating
<1>5. HandleKnows'
  BY <1>1 DEF HandleKnows, Fresh, Updating
<1> QED
  BY <1>4, <1>5

\* A step within a row: the other rows keep their state, this one gets the given BLOB.
LEMMA RowWritten ==
    ASSUME UpdateInv, req.op = "update", index \in Nat,
           UNCHANGED <<req, before, others, skipped, index>>,
           \A i \in DOMAIN req.rows \ {index} : store'[RowKey(i)] = store[RowKey(i)],
           pc' \in {"acknowledge", "write", "closing"}, offset \in Nat, offset' \in Nat,
           NEW n \in Nat,
           Quiet => store'[RowKey(index)] = Updated(index, n),
           pc' = "acknowledge" => n = 0,
           pc' = "write" => n = offset',
           pc' = "closing" => index \in DOMAIN req.rows /\ n \in 0 .. req.rows[index].len
    PROVE  RowStates'
<1> SUFFICES ASSUME NEW i \in DOMAIN req.rows, RowKey(i) \notin others
             PROVE  RowState(i)'
  BY DEF RowStates, RowKey, Key
<1>1. CASE i # index
  BY <1>1, OtherRowKept DEF UpdateInv
<1>2. CASE i = index
  <2>1. /\ RowKey(i)' = RowKey(i) /\ Part(i)' = Part(i)
        /\ \A m : Updated(i, m)' = Updated(i, m)
    BY DEF RowKey, Part, Updated, Given, Key
  <2>2. store'[RowKey(i)] = Updated(i, n)
    BY <1>2 DEF Quiet
  <2>3. pc' = "closing" => Updated(i, n) \in Part(i)
    BY <1>2 DEF Part
  <2>4. ~(i < index') /\ ~(i > index')
    BY <1>2
  <2> HIDE DEF Part
  <2>5. pc' = "write" => store'[RowKey(i)] = Updated(i, offset')
    BY <2>2
  <2>6. Updated(i, offset)' = Updated(i, offset')
    BY DEF Updated, Given, Key
  <2> QED
    BY <2>1, <2>2, <2>3, <2>4, <2>5, <2>6 DEF RowState
<1> QED
  BY <1>1, <1>2

\* The expansion of a row and the reopening after it.
LEMMA RowExpands ==
    ASSUME BlobInv, UpdateInv, req.op = "update", Expand \/ ExpandFails \/ Acknowledge
    PROVE  HandleKnows' /\ RowStates'
<1>0. /\ req \in Requests /\ DataInv /\ index \in DOMAIN req.rows /\ Row.id \in RowIds
      /\ index \in Nat /\ offset = 0 /\ offset' = 0 /\ 0 \in 0 .. req.rows[index].len
      /\ RowStates /\ HandleKnows /\ pc \in {"expand", "acknowledge"}
      /\ UNCHANGED <<req, before, others, skipped, missing, index, offset>>
  <2>1. pc \in {"expand", "acknowledge"}
        /\ UNCHANGED <<req, before, others, skipped, missing, index, offset>>
    BY DEF Expand, ExpandFails, Acknowledge, envVars, constVars
  <2>2. req \in Requests /\ index \in DOMAIN req.rows /\ offset = 0
    BY <2>1 DEF BlobInv, DataInv, ControlInv, InRow, Updating
  <2> QED
    BY <2>1, <2>2, RequestType DEF BlobInv, UpdateInv, Row
<1>1. Quiet' = Quiet /\ RowKey(index)' = RowKey(index) /\ Row' = Row
  BY <1>0 DEF Quiet, RowKey, Key, Row
<1>2. Base(index) = Updated(index, 0)
  BY <1>0, UpdatedInParts DEF UpdateInv
<1>3. CASE Zeroed /\ pc = "expand" /\ pc' \in {"acknowledge", "closing"}
  <2>1. handle'.id = handle.id /\ (handle'.valid => handle.valid)
    BY <1>0, <1>3, ZeroedType
  <2>2. HandleKnows'
    BY <1>0, <1>1, <1>3, <2>1 DEF HandleKnows, Updating, Fresh
  <2>3. /\ Quiet => store'[RowKey(index)] = Updated(index, 0)
        /\ \A i \in DOMAIN req.rows \ {index} : store'[RowKey(i)] = store[RowKey(i)]
    BY <1>2, <1>3, ZeroedRows
  <2>4. RowStates'
    BY <1>0, <1>3, <2>3, RowWritten
  <2> QED
    BY <2>2, <2>4
<1>4. CASE ExpandFails /\ UNCHANGED <<store, handle>>
  <2>1. pc = "expand" /\ pc' = "closing"
    BY <1>4 DEF ExpandFails, Throw
  <2>2. HandleKnows'
    BY <2>1 DEF HandleKnows, Updating, Fresh
  <2>3. RowStates'
    BY <1>0, <1>4, <2>1, RowsFrame
  <2> QED
    BY <2>2, <2>3
<1>5. CASE Acknowledge
  <2>1. pc = "acknowledge" /\ pc' = "write" /\ store' = store
    BY <1>5 DEF Acknowledge, envVars, constVars
  <2>2. handle'.valid => handle'.id = Row.id
    <3>1. CASE MoveHandle(Row.id)
      BY <1>0, <3>1, MoveEffect
    <3>2. CASE ~MoveHandle(Row.id)
      <4>1. handle' = [handle EXCEPT !.valid = FALSE]
        BY <1>5, <3>2 DEF Acknowledge
      <4>2. handle'.valid = FALSE
        BY <1>0, <4>1 DEF DataInv, Handle
      <4> QED
        BY <4>2
    <3> QED
      BY <3>1, <3>2
  <2>3. HandleKnows'
    BY <1>0, <1>1, <2>1, <2>2 DEF HandleKnows, Updating, Fresh
  <2>4. Quiet => store'[RowKey(index)] = Updated(index, 0)
    BY <1>0, <2>1 DEF RowStates, RowState, Quiet
  <2>5. RowStates'
    BY <1>0, <2>1, <2>4, RowWritten
  <2> QED
    BY <2>3, <2>5
<1>6. ExpandFails => pc = "expand" /\ pc' = "closing" /\
                     (Zeroed \/ UNCHANGED <<store, handle>>)
  BY DEF ExpandFails, Throw
<1>7. Expand => Zeroed /\ pc = "expand" /\ pc' = "acknowledge"
  BY DEF Expand
<1> QED
  BY <1>3, <1>4, <1>5, <1>6, <1>7

\* The chunks of a row.
LEMMA RowGrowsByChunk ==
    ASSUME BlobInv, UpdateInv, req.op = "update", WriteChunk \/ WriteFails
    PROVE  HandleKnows' /\ RowStates'
<1>0. /\ pc = "write" /\ index \in DOMAIN req.rows /\ index \in Nat /\ offset \in Nat
      /\ offset < Total
      /\ UNCHANGED <<req, before, others, skipped, missing, index, handle>>
  BY RequestType
  DEF WriteChunk, WriteFails, envVars, constVars, BlobInv, DataInv, ControlInv, InRow,
      Updating
<1>1. Quiet' = Quiet /\ RowKey(index)' = RowKey(index) /\ Row' = Row
  BY <1>0 DEF Quiet, RowKey, Key, Row
<1>2. CASE store' = WrittenStore /\ Accepts
           /\ (\/ pc' = "write" /\ offset' = offset + NextChunk
               \/ pc' = "closing" /\ offset' = offset)
  <2>1. /\ NextChunk \in Nat /\ offset + NextChunk <= req.rows[index].len
        /\ Quiet => store'[RowKey(index)] = Updated(index, offset + NextChunk)
        /\ \A i \in DOMAIN req.rows \ {index} : store'[RowKey(i)] = store[RowKey(i)]
    BY <1>0, <1>2, WrittenRows
  <2>2. offset + NextChunk \in 0 .. req.rows[index].len /\ offset' \in Nat
    BY <1>0, <1>2, <2>1, RequestType DEF BlobInv, DataInv
  <2>3. RowStates'
    <3> DEFINE n == offset + NextChunk
    <3>1. n \in Nat /\ n \in 0 .. req.rows[index].len
          /\ (Quiet => store'[RowKey(index)] = Updated(index, n))
          /\ (pc' = "write" => n = offset') /\ pc' # "acknowledge"
          /\ pc' \in {"acknowledge", "write", "closing"}
      BY <1>0, <1>2, <2>1, <2>2
    <3> HIDE DEF n
    <3> QED
      BY <1>0, <2>1, <2>2, <3>1, RowWritten
  <2>4. HandleKnows'
    BY <1>0, <1>1, <1>2 DEF UpdateInv, HandleKnows, Updating, Fresh
  <2> QED
    BY <2>3, <2>4
<1>3. CASE pc' = "closing" /\ store' = store
  <2>1. RowStates'
    BY <1>0, <1>3, RowsFrame DEF UpdateInv
  <2>2. HandleKnows'
    BY <1>3 DEF HandleKnows, Updating, Fresh
  <2> QED
    BY <2>1, <2>2
<1> QED
  BY <1>2, <1>3 DEF WriteChunk, WriteFails, Throw, Fault

\* The row is done, or its stream pretends so.
LEMMA RowEnds ==
    ASSUME BlobInv, UpdateInv, req.op = "update", WriteRowDone \/ StreamEndsEarly
    PROVE  HandleKnows' /\ RowStates'
<1>0. /\ pc = "write" /\ pc' = "row" /\ index' = index + 1
      /\ index \in DOMAIN req.rows /\ index \in Nat \ {0}
      /\ req.rows[index].len \in Nat /\ offset \in 0 .. req.rows[index].len
      /\ UNCHANGED <<req, before, others, store>>
  <2>1. /\ pc = "write" /\ pc' = "row" /\ index' = index + 1
        /\ UNCHANGED <<req, before, others, store>>
    BY DEF WriteRowDone, StreamEndsEarly, NextRow, envVars, constVars
  <2>2. index \in DOMAIN req.rows /\ req \in Requests /\ offset \in Nat /\ offset <= Total
    BY <2>1 DEF BlobInv, DataInv, ControlInv, InRow, Updating
  <2> QED
    BY <2>1, <2>2, RequestType DEF Total, Row
<1>1. \/ skipped' = skipped /\ offset = req.rows[index].len
      \/ skipped' = skipped \cup {index}
  BY <1>0 DEF WriteRowDone, StreamEndsEarly, envVars, Total, Row
<1>2. HandleKnows'
  BY <1>0 DEF HandleKnows, Updating, Fresh
<1>3. ASSUME NEW i \in DOMAIN req.rows, RowKey(i) \notin others PROVE RowState(i)'
  <2>1. RowState(i)
    BY <1>3 DEF UpdateInv, RowStates
  <2>2. /\ RowKey(i)' = RowKey(i) /\ Part(i)' = Part(i)
        /\ \A m : Updated(i, m)' = Updated(i, m)
    BY <1>0 DEF RowKey, Part, Updated, Given, Key
  <2>3. i \in Nat
    BY RequestType DEF BlobInv, DataInv
  <2>4. CASE i < index
    <3>1. i < index' /\ i # index' /\ ~(i > index') /\ (i \in skipped' <=> i \in skipped)
      BY <1>0, <1>1, <2>3, <2>4
    <3> QED
      BY <1>0, <2>1, <2>2, <2>4, <3>1 DEF RowState
  <2>5. CASE i = index
    <3>1. store[RowKey(i)] = Updated(i, offset)
      BY <1>0, <2>1, <2>5 DEF RowState
    <3>2. store[RowKey(i)] \in Part(i)
      BY <1>0, <2>5, <3>1 DEF Part
    <3>3. i \notin skipped' => store[RowKey(i)] = Updated(i, req.rows[i].len)
      BY <1>1, <2>5, <3>1
    <3>4. i < index' /\ i # index' /\ ~(i > index')
      BY <1>0, <2>3, <2>5
    <3> QED
      BY <1>0, <2>2, <3>2, <3>3, <3>4 DEF RowState
  <2>6. CASE i > index
    <3>1. store[RowKey(i)] = before[RowKey(i)]
      BY <2>1, <2>6 DEF RowState
    <3>2. ~(i < index')
      BY <1>0, <2>3, <2>6
    <3> QED
      BY <1>0, <2>2, <3>1, <3>2 DEF RowState
  <2> QED
    BY <1>0, <2>3, <2>4, <2>5, <2>6
<1>4. RowStates'
  BY <1>0, <1>3 DEF RowStates, RowKey, Key
<1> QED
  BY <1>2, <1>4

\* Another client's change takes its row out of the account.
LEMMA OthersDoNotDisturb ==
    ASSUME BlobInv, UpdateInv, req.op = "update", NEW key \in Keys, OtherChange(key)
    PROVE  HandleKnows' /\ RowStates'
<1>0. /\ DataInv /\ others' = others \cup {key}
      /\ UNCHANGED <<req, before, skipped, index, offset, pc>>
      /\ missing' \subseteq missing \cup {key}
  BY DEF BlobInv, OtherChange, constVars
<1>1. /\ handle'.id = handle.id /\ handle'.size = handle.size
      /\ handle'.valid <=> handle.valid /\ Key(handle.id) # key
      /\ \A k \in Keys \ {key} : store'[k] = store[k]
  BY <1>0, OtherChangeEffect
<1>2. Quiet' => Quiet /\ RowKey(index) # key
  BY <1>0 DEF Quiet, RowKey, Key
<1>3. RowKey(index)' = RowKey(index) /\ Row' = Row /\ RowKey(index) = Key(Row.id)
  BY <1>0 DEF RowKey, Key, Row
<1>4. HandleKnows'
  BY <1>0, <1>1, <1>2, <1>3 DEF UpdateInv, HandleKnows, Fresh
<1>5. ASSUME NEW i \in DOMAIN req.rows, RowKey(i) \notin others' PROVE RowState(i)'
  <2>1. RowState(i)
    BY <1>0, <1>5 DEF UpdateInv, RowStates
  <2>2. RowKey(i) \in Keys /\ RowKey(i) # key
    BY <1>0, <1>5, RequestType DEF DataInv, RowKey
  <2>3. /\ RowKey(i)' = RowKey(i) /\ Part(i)' = Part(i)
        /\ \A m : Updated(i, m)' = Updated(i, m)
    BY <1>0 DEF RowKey, Part, Updated, Given, Key
  <2>4. Updated(i, offset)' = Updated(i, offset)
    BY <1>0 DEF Updated, Given, Key
  <2> QED
    BY <1>0, <1>1, <2>1, <2>2, <2>3, <2>4 DEF RowState
<1>6. RowStates'
  BY <1>0, <1>5 DEF RowStates, RowKey, Key
<1> QED
  BY <1>4, <1>6

\* Every step of update keeps the invariant of the updates, given the invariant of Blob.
LEMMA UpdateStepKeeps == BlobInv /\ UpdateInv /\ [Next]_vars => UpdateInv'
<1> SUFFICES ASSUME BlobInv, UpdateInv, [Next]_vars PROVE UpdateInv'
  OBVIOUS
<1>1. UNCHANGED <<req, before>>
  BY DEF Next, Call, HandleStep, ReadStep, UpdateStep, FileStep, envVars, constVars, vars,
         NoRows, Open, OpenFails, Reopen, ReopenFails, Finish, Close, BlobBytes, ReadChunk,
         ReadShort, ReadFails, ReadRowDone, CheckSize, Expand, ExpandFails, Acknowledge,
         WriteChunk, WriteFails, WriteNothing, WriteRowDone, WriteRowFails, FileFails,
         StreamEndsEarly, OtherChange
<1> SUFFICES ASSUME req.op = "update" PROVE HandleKnows' /\ RowStates'
  BY <1>1 DEF UpdateInv
<1>2. pc \notin {"size", "read"}
  BY DEF BlobInv, ControlInv
<1>3. CASE ReadStep
  BY <1>2, <1>3 DEF ReadStep, BlobBytes, ReadChunk, ReadShort, ReadFails, ReadRowDone
<1>4. CASE HandleStep \/ UpdateStep \/ FileStep
  BY <1>4, CallEnds, RowStarts, RowExpands, RowGrowsByChunk, RowEnds
  DEF HandleStep, UpdateStep, FileStep
<1>5. CASE \E key \in Keys : OtherChange(key)
  BY <1>5, OthersDoNotDisturb
<1>6. CASE UNCHANGED vars
  <2>1. HandleKnows'
    BY <1>6 DEF vars, UpdateInv, HandleKnows, RowKey, Key, Row, Quiet, Fresh
  <2>2. ASSUME NEW i \in DOMAIN req.rows, RowKey(i) \notin others PROVE RowState(i)'
    <3>1. RowState(i)
      BY <2>2 DEF UpdateInv, RowStates
    <3>2. /\ RowKey(i)' = RowKey(i) /\ Part(i)' = Part(i)
          /\ \A m : Updated(i, m)' = Updated(i, m)
      BY <1>6 DEF vars, RowKey, Part, Updated, Given, Key
    <3>3. Updated(i, offset)' = Updated(i, offset)
      BY <1>6 DEF vars, Updated, Given, Key
    <3> QED
      BY <1>6, <3>1, <3>2, <3>3 DEF vars, RowState
  <2>3. RowStates'
    BY <1>6, <2>2 DEF vars, RowStates, RowKey, Key
  <2> QED
    BY <2>1, <2>3
<1> QED
  BY <1>3, <1>4, <1>5, <1>6 DEF Next, Call

-----------------------------------------------------------------------------
(* The theorems *)

\* An update keeps account of every row that no other client changes.
THEOREM UpdateInvariant == Spec => [](BlobInv /\ UpdateInv)
<1>1. Init => BlobInv /\ UpdateInv
  BY BlobInit, UpdateInit
<1>2. BlobInv /\ UpdateInv /\ [Next]_vars => (BlobInv /\ UpdateInv)'
  BY DataStep, ControlStep, SnapshotStep, UpdateStepKeeps DEF BlobInv
<1> QED
  BY <1>1, <1>2, PTL DEF Spec

\* The loop of update over its rows: done rows hold their data, the current one exactly
\* what was written, later ones are untouched.
THEOREM RowsAreWrittenInOrder == Spec => []RowsInOrder
<1>1. BlobInv /\ UpdateInv => RowsInOrder
  <2> SUFFICES ASSUME BlobInv, UpdateInv, req.op = "update",
                      NEW i \in DOMAIN req.rows, RowKey(i) \notin others
               PROVE  /\ i < index =>
                           IF i \in skipped THEN store[RowKey(i)] \in Part(i)
                           ELSE store[RowKey(i)] = Updated(i, req.rows[i].len)
                      /\ i = index => store[RowKey(i)] \in Part(i) \cup {before[RowKey(i)]}
                      /\ i = index /\ pc = "write" /\ handle.valid
                           => store[RowKey(i)] = Updated(i, offset)
                      /\ i > index => store[RowKey(i)] = before[RowKey(i)]
    BY DEF RowsInOrder, RowKey, Part
  <2>1. RowState(i)
    BY DEF UpdateInv, RowStates
  <2>2. i = index => pc \in {"open", "row", "closing", "failed"} \cup Updating
    BY RequestType DEF BlobInv, DataInv, ControlInv, Locations, Updating
  <2>3. i = index => store[RowKey(i)] \in Part(i) \cup {before[RowKey(i)]}
    BY <2>1, <2>2, StateIsPart
  <2> QED
    BY <2>1, <2>3 DEF RowState
<1> QED
  BY UpdateInvariant, <1>1, PTL

-----------------------------------------------------------------------------
(* Why an update throws *)

Undisturbed == req.op = "update" /\ faults = 0 /\ others = {}
TooLarge == ~req.auto /\ Len(before[RowKey(index)]) < Row.len
Cause ==
    \/ reason \in {"norows", "eof"}
    \/ reason \in {"open", "reopen"} /\ Key(Row.id) \in missing
    \/ reason = "write" /\ TooLarge

\* A call that no one disturbs writes through a valid handle into a BLOB that is large
\* enough, or may not be enlarged.
CauseInv ==
    Undisturbed =>
        /\ pc = "write" => handle.valid /\ (Row.len <= handle.size \/ TooLarge)
        /\ pc \in {"closing", "failed"} /\ reason # "none" => Cause

\* The steps that lead to the writing of a row.
LEMMA WriteIsPossible ==
    ASSUME BlobInv, UpdateInv, CauseInv, Undisturbed', req.schema = DefaultSchema,
           UNCHANGED req,
           CheckSize \/ Acknowledge \/ WriteChunk
    PROVE  CauseInv'
<1>0. /\ req.op = "update" /\ index \in DOMAIN req.rows /\ index \in Nat
      /\ Row.len \in Nat /\ Row.id \in RowIds /\ DataInv /\ handle.size \in Nat
      /\ RowKey(index) = Key(Row.id) /\ reason = "none"
  BY RequestType
  DEF CheckSize, Acknowledge, WriteChunk, Undisturbed, BlobInv, DataInv, ControlInv, InRow,
      Updating, RowKey, Row, Handle
<1>1. /\ UNCHANGED <<others, before, index, reason, missing>>
      /\ pc' \notin {"closing", "failed"}
  BY DEF CheckSize, Acknowledge, WriteChunk, envVars, constVars
<1>2. Quiet /\ HandleKnows /\ RowState(index)
  BY <1>0, <1>1 DEF Undisturbed, Quiet, UpdateInv, RowStates
<1>3. Row' = Row /\ TooLarge' = TooLarge
  BY <1>1 DEF Row, TooLarge, RowKey, Key
<1>4. CASE CheckSize
  <2>1. handle.valid /\ handle.size = Len(before[RowKey(index)])
    BY <1>2, <1>4 DEF CheckSize, HandleKnows, Fresh
  <2>2. pc' = "write" => Row.len <= handle.size \/ TooLarge
    BY <1>0, <1>4, <2>1 DEF CheckSize, TooLarge
  <2> QED
    BY <1>1, <1>3, <1>4, <2>1, <2>2 DEF CheckSize, CauseInv
<1>5. CASE Acknowledge
  <2>1. pc = "acknowledge" /\ RowKey(index) \notin missing
    BY <1>2, <1>5 DEF Acknowledge, HandleKnows, Updating
  <2>2. MoveHandle(Row.id)
    BY <1>0, <1>5, <2>1 DEF Acknowledge, Fault, Undisturbed, DataInv
  <2>3. Grows(index)
    BY <1>2, <2>1 DEF HandleKnows, Grows, Row
  <2>4. store[RowKey(index)] = [k \in 1 .. Row.len |-> Zero]
    BY <1>0, <1>2, <2>1, <2>3, UpdatedInParts
    DEF RowState, Base, UpdateInv, DataInv, Row
  <2>5. Len(store[RowKey(index)]) = Row.len
    BY <1>0, <2>4
  <2>6. handle'.valid /\ handle'.size = Row.len
    BY <1>0, <2>2, <2>5 DEF MoveHandle
  <2> QED
    BY <1>0, <1>1, <1>3, <2>6 DEF CauseInv
<1>6. CASE WriteChunk
  BY <1>0, <1>1, <1>3, <1>6 DEF WriteChunk, CauseInv, Undisturbed, envVars
<1> QED
  BY <1>4, <1>5, <1>6

\* A write is only refused when the BLOB is too small.
LEMMA RefusedIsTooLarge ==
    ASSUME BlobInv, CauseInv, Undisturbed, req.chunk > 0,
           pc = "write", offset < Total, ~Accepts
    PROVE  TooLarge
<1>1. /\ req \in Requests /\ index \in DOMAIN req.rows /\ handle \in Handle
      /\ offset \in Nat /\ req.op = "update" /\ handle.size \in Nat
  BY DEF BlobInv, DataInv, ControlInv, InRow, Updating, Handle
<1>2. Total = Row.len /\ Total \in Nat
  BY <1>1, TotalType DEF Total
<1>3. NextChunk \in Nat /\ offset + NextChunk <= Total
  BY <1>1, <1>2, ChunkBounds
<1>4. ChunkSize(Total) \in Nat /\ ChunkSize(Total) > 0
  BY <1>1, <1>2, RequestType DEF ChunkSize
<1>5. NextChunk > 0
  BY <1>1, <1>2, <1>4 DEF NextChunk, Smaller
<1>6. handle.valid /\ (Row.len <= handle.size \/ TooLarge)
  BY DEF CauseInv
<1> QED
  BY <1>1, <1>2, <1>3, <1>5, <1>6 DEF Accepts

\* Every step of update keeps that an error has a cause, for chunks above zero and requests
\* in the default schema.
LEMMA CauseStep ==
    ASSUME \A q \in Requests : q.chunk > 0 /\ q.schema = DefaultSchema
    PROVE  BlobInv /\ UpdateInv /\ CauseInv /\ [Next]_vars => CauseInv'
<1> SUFFICES ASSUME BlobInv, UpdateInv, CauseInv, [Next]_vars, Undisturbed'
             PROVE  CauseInv'
  BY DEF CauseInv
<1>0. /\ req \in Requests /\ req.chunk > 0 /\ req.schema = DefaultSchema
      /\ faults \in Nat /\ UNCHANGED req /\ req.op = "update"
      /\ pc \notin {"size", "read"}
  <2>1. UNCHANGED req
    BY DEF Next, Call, HandleStep, ReadStep, UpdateStep, FileStep, envVars, constVars, vars,
         NoRows, Open, OpenFails, Reopen, ReopenFails, Finish, Close, BlobBytes, ReadChunk,
         ReadShort, ReadFails, ReadRowDone, CheckSize, Expand, ExpandFails, Acknowledge,
         WriteChunk, WriteFails, WriteNothing, WriteRowDone, WriteRowFails, FileFails,
         StreamEndsEarly, OtherChange
  <2>2. req \in Requests /\ faults \in Nat
    BY BlobAssumption DEF BlobInv, DataInv
  <2> QED
    BY <2>1, <2>2 DEF Undisturbed, BlobInv, ControlInv
<1>1. ~(Fault)
  BY <1>0 DEF Fault, Undisturbed
<1>2. CASE CheckSize \/ Acknowledge \/ WriteChunk
  BY <1>0, <1>2, WriteIsPossible
<1>3. CASE NoRows \/ OpenFails \/ ReopenFails \/ WriteNothing
  <2>1. /\ pc' # "write" /\ UNCHANGED <<index, missing>>
        /\ \/ reason' \in {"norows", "eof"}
           \/ reason' \in {"open", "reopen"} /\ Key(Row.id) \in missing
    BY <1>1, <1>3
    DEF NoRows, OpenFails, ReopenFails, WriteNothing, Throw, envVars, constVars
  <2> QED
    BY <1>0, <2>1 DEF CauseInv, Cause, Row, Key
<1>4. CASE WriteFails
  <2>1. /\ pc = "write" /\ offset < Total /\ ~Accepts
        /\ pc' = "closing" /\ reason' = "write"
        /\ UNCHANGED <<index, before, faults, others>>
    BY <1>1, <1>4 DEF WriteFails, Throw, envVars, constVars
  <2>2. TooLarge
    BY <1>0, <2>1, RefusedIsTooLarge DEF Undisturbed
  <2>3. TooLarge' = TooLarge
    BY <1>0, <2>1 DEF TooLarge, Row, RowKey, Key
  <2> QED
    BY <2>1, <2>2, <2>3 DEF CauseInv, Cause
<1>5. CASE Close
  <2>1. /\ pc = "closing" /\ pc' \in {"done", "failed"}
        /\ UNCHANGED <<index, before, faults, others, missing, reason>>
    BY <1>5 DEF Close, envVars, constVars
  <2> QED
    BY <1>0, <2>1 DEF CauseInv, Cause, TooLarge, Undisturbed, Row, RowKey, Key
<1>6. CASE Open \/ Reopen \/ Finish \/ Expand \/ WriteRowDone
  <2>1. pc' # "write" /\ (pc' \in {"closing", "failed"} => reason' = "none")
    BY <1>0, <1>6
    DEF Open, Reopen, Finish, Expand, WriteRowDone, NextRow, BlobInv, ControlInv, InRow
  <2> QED
    BY <2>1 DEF CauseInv
<1>7. CASE ExpandFails \/ WriteRowFails \/ FileFails \/ StreamEndsEarly
  BY <1>1, <1>7 DEF ExpandFails, WriteRowFails, FileFails, StreamEndsEarly
<1>8. CASE ReadStep
  BY <1>0, <1>8 DEF ReadStep, BlobBytes, ReadChunk, ReadShort, ReadFails, ReadRowDone
<1>9. CASE \E key \in Keys : OtherChange(key)
  BY <1>9 DEF OtherChange, Undisturbed
<1>10. CASE UNCHANGED vars
  BY <1>10 DEF vars, CauseInv, Cause, TooLarge, Undisturbed, Row, RowKey, Key
<1> QED
  BY <1>2, <1>3, <1>4, <1>5, <1>6, <1>7, <1>8, <1>9, <1>10
  DEF Next, Call, HandleStep, UpdateStep, FileStep

\* update, when no C call fails and no other client interferes: it only throws when the
\* data do not fit and may not be made to fit, a row is missing, or a file stream reports
\* bytes past its end.  Chunks are not empty, and the table is in the default database.
THEOREM UpdatesThrowForACause ==
    ASSUME \A q \in Requests : q.chunk > 0 /\ q.schema = DefaultSchema
    PROVE  Spec => []UpdateThrowsForACause
<1>1. Init => BlobInv /\ UpdateInv /\ CauseInv
  BY BlobInit, UpdateInit DEF Init, CauseInv
<1>2. BlobInv /\ UpdateInv /\ CauseInv /\ [Next]_vars => (BlobInv /\ UpdateInv /\ CauseInv)'
  BY DataStep, ControlStep, SnapshotStep, UpdateStepKeeps, CauseStep DEF BlobInv
<1>3. BlobInv /\ UpdateInv /\ CauseInv => UpdateThrowsForACause
  <2> SUFFICES ASSUME BlobInv, CauseInv, Undisturbed, pc = "failed", reason # "none"
               PROVE  UpdateThrowsForACause
    BY DEF UpdateThrowsForACause, Undisturbed, BlobInv, ControlInv
  <2>1. Cause
    BY DEF CauseInv
  <2> QED
    BY <2>1 DEF UpdateThrowsForACause, Cause, TooLarge, RowKey, Row
<1> QED
  BY <1>1, <1>2, <1>3, PTL DEF Spec

-----------------------------------------------------------------------------
(* An update implements RowUpdates.  The invariant needs two more facts: a valid handle *)
(* knows the size of its row's BLOB, also of one that another client had replaced before *)
(* the handle was moved there, and only a BLOB that may be made larger is expanded.      *)

GrowInv ==
    /\ handle.valid => handle.size = Len(store[Key(handle.id)])
    /\ pc = "expand" => req.auto

\* The bytes m + 1 to m + n of x are those of g.
Patched(x, g, m, n) ==
    [k \in DOMAIN x |-> IF k \in m + 1 .. m + n THEN g[k] ELSE x[k]]

\* A chunk patches its bytes in.
LEMMA OverwrittenFrom ==
    ASSUME NEW x \in Seq(Stored), NEW g \in Seq(Stored),
           NEW m \in Nat, NEW n \in Nat, m + n <= Len(g)
    PROVE  Overwritten(x, m, SubSeq(g, m + 1, m + n)) = Patched(x, g, m, n)
<1> DEFINE d == SubSeq(g, m + 1, m + n)
<1>1. Len(g) \in Nat /\ \A k \in 1 .. Len(g) : g[k] \in Stored
  BY LenProperties, ElementOfSeq
<1>2. Len(d) = n /\ \A k \in 1 .. n : d[k] = g[m + k]
  BY <1>1, SubSeqProperties
<1>3. Len(x) \in Nat /\ DOMAIN x = 1 .. Len(x)
  BY LenProperties
<1> HIDE DEF d
<1>4. \A k \in DOMAIN x : k \in m + 1 .. m + n => d[k - m] = g[k]
  BY <1>2, <1>3
<1>5. Overwritten(x, m, d) = Patched(x, g, m, n)
  BY <1>2, <1>4 DEF Overwritten, Patched
<1> QED
  BY <1>5 DEF d

\* Bytes over bytes do not change the length of a BLOB.
LEMMA OverwrittenLength ==
    ASSUME NEW x \in Seq(Stored), NEW o, NEW d
    PROVE  Len(Overwritten(x, o, d)) = Len(x)
<1>1. Len(x) \in Nat /\ DOMAIN x = 1 .. Len(x)
  BY LenProperties
<1> QED
  BY <1>1 DEF Overwritten

\* A valid handle knows the size of its BLOB, and only growing BLOBs are expanded
\* (SQLiteCloud.update).
LEMMA GrowStep == BlobInv /\ GrowInv /\ [Next]_vars => GrowInv'
<1> SUFFICES ASSUME BlobInv, GrowInv, [Next]_vars PROVE GrowInv'
  OBVIOUS
<1>0. /\ req \in Requests /\ DataInv /\ handle \in Handle
      /\ pc \in InRow => index \in DOMAIN req.rows
      /\ index \in DOMAIN req.rows => Row.id \in RowIds
      /\ handle.id \in RowIds /\ Key(handle.id) \in Keys
      /\ pc \in Locations
  BY RequestType DEF BlobInv, DataInv, ControlInv, Handle, Row, Key, Keys
<1>1. CASE Open \/ Reopen \/ Acknowledge
  <2>1. /\ index \in DOMAIN req.rows /\ pc' # "expand" /\ UNCHANGED <<req, store>>
    BY <1>0, <1>1, RequestType
    DEF Open, Reopen, Acknowledge, envVars, constVars, InRow, Updating, BlobInv, ControlInv
  <2>2. CASE MoveHandle(Row.id)
    <3>1. handle'.id = Row.id /\ handle'.size = Len(store[Key(Row.id)])
      BY <1>0, <2>1, <2>2, MoveEffect
    <3> QED
      BY <2>1, <3>1 DEF GrowInv, Key
  <2>3. CASE handle' = [handle EXCEPT !.valid = FALSE]
    BY <1>0, <2>1, <2>3 DEF GrowInv, Handle
  <2>4. CASE handle' = handle
    BY <2>1, <2>4 DEF GrowInv, Key
  <2> QED
    BY <1>1, <2>2, <2>3, <2>4 DEF Open, Reopen, Acknowledge
<1>2. CASE Expand \/ ExpandFails
  <2>1. /\ pc' # "expand" /\ req' = req
        /\ Zeroed \/ UNCHANGED <<store, handle>>
    BY <1>2 DEF Expand, ExpandFails, Throw, envVars, constVars
  <2>2. CASE UNCHANGED <<store, handle>>
    BY <2>1, <2>2 DEF GrowInv, Key
  <2>3. CASE Zeroed
    <3>1. handle' = [handle EXCEPT !.valid = handle.valid /\ Key(handle.id) # ExpandedKey]
      BY <2>3 DEF Zeroed
    <3>2. /\ handle'.id = handle.id /\ handle'.size = handle.size
          /\ handle'.valid => handle.valid /\ Key(handle.id) # ExpandedKey
      BY <1>0, <3>1 DEF Handle
    <3>3. \A k \in Keys : k # ExpandedKey => store'[k] = store[k]
      BY <1>0, <2>3 DEF Zeroed, DataInv
    <3> QED
      BY <1>0, <2>1, <3>2, <3>3 DEF GrowInv, Key
  <2> QED
    BY <2>1, <2>2, <2>3
<1>3. CASE WriteChunk \/ WriteFails
  <2>1. /\ UNCHANGED <<req, handle>> /\ pc' # "expand"
        /\ store' \in {store, WrittenStore}
    BY <1>3 DEF WriteChunk, WriteFails, Throw, envVars, constVars
  <2>2. store[Key(handle.id)] \in Seq(Stored)
    BY <1>0 DEF DataInv
  <2>3. Len(WrittenStore[Key(handle.id)]) = Len(store[Key(handle.id)])
    BY <1>0, <2>2, OverwrittenLength DEF WrittenStore, DataInv
  <2> QED
    BY <2>1, <2>3 DEF GrowInv, Key
<1>4. ASSUME NEW key \in Keys, OtherChange(key) PROVE GrowInv'
  <2>1. /\ handle'.id = handle.id /\ handle'.size = handle.size
        /\ handle'.valid => handle.valid /\ Key(handle.id) # key
        /\ \A k \in Keys \ {key} : store'[k] = store[k]
    BY <1>0, <1>4, OtherChangeEffect
  <2>2. UNCHANGED <<req, pc>>
    BY <1>4 DEF OtherChange, constVars
  <2> QED
    BY <1>0, <2>1, <2>2 DEF GrowInv, Key
<1>5. CASE CheckSize
  BY <1>5 DEF CheckSize, GrowInv, Key, envVars, constVars
<1>6. CASE Close \/ ReopenFails
  <2>1. /\ handle'.id = handle.id /\ handle'.size = handle.size
        /\ handle'.valid => handle.valid
    BY <1>0, <1>6 DEF Close, ReopenFails, Handle
  <2>2. UNCHANGED <<req, store>> /\ pc' # "expand"
    BY <1>6 DEF Close, ReopenFails, Throw, envVars, constVars
  <2> QED
    BY <2>1, <2>2 DEF GrowInv, Key
<1>7. CASE NoRows \/ OpenFails \/ Finish \/ ReadStep \/ FileStep
  <2>1. UNCHANGED <<req, store, handle>> /\ pc' # "expand"
    BY <1>7
    DEF NoRows, OpenFails, Finish, ReadStep, FileStep, envVars, constVars, Throw, NextRow,
        BlobBytes, ReadChunk, ReadShort, ReadFails, ReadRowDone, FileFails, StreamEndsEarly
  <2> QED
    BY <2>1 DEF GrowInv, Key
<1>8. CASE WriteNothing \/ WriteRowDone \/ WriteRowFails
  <2>1. UNCHANGED <<req, store, handle>> /\ pc' # "expand"
    BY <1>8 DEF WriteNothing, WriteRowDone, WriteRowFails, envVars, constVars, Throw, NextRow
  <2> QED
    BY <2>1 DEF GrowInv, Key
<1>9. CASE UNCHANGED vars
  BY <1>9 DEF GrowInv, Key, vars
<1> QED
  BY <1>1, <1>2, <1>3, <1>4, <1>5, <1>6, <1>7, <1>8, <1>9
  DEF Next, Call, HandleStep, UpdateStep

-----------------------------------------------------------------------------
(* Steps of a call as steps of RowUpdates *)

BytesWritten == IF Updates THEN offset ELSE 0
RowsShort == IF Updates THEN skipped ELSE {}
RowsReplaced == {i \in DOMAIN req.rows : RowKey(i) \in others}

\* The data and the BLOBs of the rows are sequences of bytes.
LEMMA RowTypes ==
    ASSUME BlobInv
    PROVE  /\ DOMAIN RowData = DOMAIN req.rows /\ DOMAIN RowContent = DOMAIN req.rows
           /\ RowData \in Seq(Seq(Stored)) /\ Len(RowData) = Len(req.rows)
           /\ RowContent \in [DOMAIN req.rows -> Seq(Stored)]
           /\ \A i \in DOMAIN req.rows :
                /\ RowContent[i] = store[RowKey(i)] /\ RowKey(i) \in Keys
                /\ RowData[i] = IF Updates THEN Given(i) ELSE <<>>
                /\ Len(RowData[i]) = IF Updates THEN req.rows[i].len ELSE 0
<1>1. /\ req \in Requests /\ store \in [Keys -> Seq(Stored)]
      /\ Len(req.rows) \in Nat /\ DOMAIN req.rows = 1 .. Len(req.rows)
  BY RequestType DEF BlobInv, DataInv
<1>2. \A i \in DOMAIN req.rows : RowKey(i) \in Keys
  BY <1>1, RequestType DEF RowKey
<1>3. \A i \in DOMAIN req.rows :
        /\ (IF Updates THEN Given(i) ELSE <<>>) \in Seq(Stored)
        /\ Len(IF Updates THEN Given(i) ELSE <<>>)
             = IF Updates THEN req.rows[i].len ELSE 0
  BY <1>1, GivenType
<1>4. RowData \in Seq(Seq(Stored)) /\ Len(RowData) = Len(req.rows)
  BY <1>1, <1>3 DEF RowData
<1>5. RowContent \in [DOMAIN req.rows -> Seq(Stored)]
  BY <1>1, <1>2 DEF RowContent, RowKey
<1> QED
  BY <1>1, <1>2, <1>3, <1>4, <1>5 DEF RowData, RowContent, RowKey

\* A call that begins is an update that begins.
LEMMA RowsInit == Init => Rows!Init
<1> SUFFICES ASSUME Init PROVE Rows!Init
  OBVIOUS
<1>1. BlobInv
  BY BlobInit
<1>2. /\ RowData \in Seq(Seq(Stored)) /\ RowContent \in [DOMAIN RowData -> Seq(Stored)]
  BY <1>1, RowTypes
<1>3. Outcome = "running"
  BY DEF Init, Outcome
<1>4. (Updates /\ req.auto) \in BOOLEAN
  BY <1>1, BlobAssumption DEF BlobInv, DataInv, Updates
<1> QED
  BY <1>2, <1>3, <1>4 DEF Init, Rows!Init

\* Before it ends a call runs.
LEMMA CallRuns ==
    ASSUME BlobInv, pc \in {"open", "row"} \cup InRow
    PROVE  reason = "none" /\ Outcome = "running"
BY DEF BlobInv, ControlInv, Outcome, InRow, Updating

\* What a step that leaves the call's parameters and the BLOBs of its rows alone keeps.
LEMMA RowsKept ==
    ASSUME UNCHANGED req
    PROVE  /\ UNCHANGED <<RowData, Updates>>
           /\ UNCHANGED others => RowsReplaced' = RowsReplaced
           /\ UNCHANGED offset => BytesWritten' = BytesWritten
           /\ UNCHANGED skipped => RowsShort' = RowsShort
           /\ UNCHANGED store => RowContent' = RowContent
BY DEF RowData, Given, Updates, RowsReplaced, RowKey, Key, BytesWritten, RowsShort, RowContent

\* One row's BLOB changes.
LEMMA OneRowChanges ==
    ASSUME BlobInv, UNCHANGED req, index \in DOMAIN req.rows, NEW x,
           store'[RowKey(index)] = x,
           \A i \in DOMAIN req.rows \ {index} : store'[RowKey(i)] = store[RowKey(i)]
    PROVE  RowContent' = [RowContent EXCEPT ![index] = x]
BY DEF RowContent, RowKey, Key

\* A call that goes on or comes to its end leaves the rows alone.
LEMMA GoesOn ==
    ASSUME BlobInv, Open \/ Reopen \/ Finish \/ CheckSize \/ Acknowledge
    PROVE  UNCHANGED Rows!vars
<1>1. /\ UNCHANGED <<req, store, others, skipped, index, offset, reason>>
      /\ pc \in {"open", "row"} \cup InRow /\ pc' # "done"
  <2>1. req.op # "done"
    BY RequestType DEF BlobInv, DataInv
  <2> QED
    BY <2>1 DEF Open, Reopen, Finish, CheckSize, Acknowledge, envVars, constVars, InRow,
                Updating
<1>2. Outcome' = Outcome
  BY <1>1, CallRuns DEF Outcome
<1> QED
  BY <1>1, <1>2, RowsKept DEF Rows!vars, RowsReplaced, BytesWritten, RowsShort, RowKey, Updates

\* A read stores nothing.
LEMMA ReadGoesOn ==
    ASSUME BlobInv, ReadChunk \/ ReadShort
    PROVE  UNCHANGED Rows!vars
<1>1. /\ UNCHANGED <<req, store, others, index, pc, reason>> /\ pc = "read"
  BY DEF ReadChunk, ReadShort, envVars, constVars
<1>2. ~Updates
  BY <1>1 DEF Updates, BlobInv, ControlInv
<1> QED
  BY <1>1, <1>2, RowsKept DEF Rows!vars, Outcome, Updates, RowsReplaced, RowKey

\* A failure ends the call and leaves the rows as they are.
LEMMA FailureIsThrow ==
    ASSUME BlobInv, UNCHANGED store,
           \/ NoRows \/ OpenFails \/ ReopenFails \/ ReadFails \/ ExpandFails
           \/ WriteFails \/ WriteNothing \/ WriteRowFails \/ FileFails
    PROVE  Rows!Throw
<1>1. /\ UNCHANGED <<req, others, skipped, index, offset>>
      /\ pc \in {"open", "row"} \cup InRow /\ reason' # "none"
  BY DEF NoRows, OpenFails, ReopenFails, ReadFails, ExpandFails, WriteFails, WriteNothing,
         WriteRowFails, FileFails, Throw, envVars, constVars, InRow, Updating
<1>2. Outcome = "running" /\ Outcome' = "threw"
  BY <1>1, CallRuns DEF Outcome
<1> QED
  BY <1>1, <1>2, RowsKept DEF Rows!Throw, Updates, RowsReplaced, RowKey, BytesWritten, RowsShort

\* A row's loop ends with all its bytes, or with a stream that ends early.
LEMMA RowEndIsNextRow ==
    ASSUME BlobInv, BlobBytes \/ ReadRowDone \/ WriteRowDone \/ StreamEndsEarly
    PROVE  Rows!NextRow
<1>1. /\ UNCHANGED <<req, store, others, reason>>
      /\ pc \in InRow /\ pc' = "row" /\ index' = index + 1 /\ offset' = 0
  BY DEF BlobBytes, ReadRowDone, WriteRowDone, StreamEndsEarly, NextRow, envVars, constVars,
         InRow, Updating
<1>2. /\ index \in DOMAIN req.rows /\ Outcome = "running" /\ Outcome' = "running"
  BY <1>1, CallRuns DEF BlobInv, ControlInv, Outcome
<1>3. Len(RowData[index]) = IF Updates THEN Row.len ELSE 0
  BY <1>2, RowTypes DEF Row
<1>4. CASE ~Updates
  BY <1>1, <1>2, <1>3, <1>4, RowsKept, RowTypes
  DEF Rows!NextRow, Rows!Running, Updates, RowsReplaced, RowKey
<1>5. CASE Updates
  <2>1. /\ pc = "write" /\ Total = Row.len /\ offset \in Nat /\ offset <= Total
        /\ Total \in Nat /\ (WriteRowDone \/ StreamEndsEarly)
    BY <1>1, <1>2, <1>5, TotalType
    DEF Updates, BlobBytes, ReadRowDone, WriteRowDone, StreamEndsEarly, Total, BlobInv,
        DataInv, ControlInv
  <2>2. skipped' = IF offset = Row.len THEN skipped ELSE skipped \cup {index}
    BY <2>1 DEF WriteRowDone, StreamEndsEarly, envVars
  <2> QED
    BY <1>1, <1>2, <1>3, <1>5, <2>2, RowsKept, RowTypes
    DEF Rows!NextRow, Rows!Running, Updates, RowsReplaced, RowKey
<1> QED
  BY <1>4, <1>5

\* The end of a call that did not throw is behind the last row.
LEMMA CloseIsReturn ==
    ASSUME BlobInv, Close
    PROVE  Rows!Return \/ UNCHANGED Rows!vars
<1>1. /\ UNCHANGED <<req, store, others, skipped, index, offset, reason>> /\ pc = "closing"
  BY DEF Close, envVars, constVars
<1>2. CASE reason = "none"
  <2>1. index = Len(RowData) + 1
    BY <1>1, <1>2, RowTypes DEF BlobInv, ControlInv
  <2>2. Outcome = "running" /\ Outcome' = "returned"
    BY <1>1, <1>2 DEF Outcome, Close
  <2> QED
    BY <1>1, <2>1, <2>2, RowsKept
    DEF Rows!Return, Updates, RowsReplaced, RowKey, BytesWritten, RowsShort
<1>3. CASE reason # "none"
  BY <1>1, <1>3, RowsKept
  DEF Rows!vars, Outcome, Updates, RowsReplaced, RowKey, BytesWritten, RowsShort
<1> QED
  BY <1>2, <1>3

\* The expansion makes room in the row, or does nothing to the rows of the call when it
\* meets the row of another database, or none.
LEMMA ExpansionIsGrow ==
    ASSUME BlobInv, UpdateInv, GrowInv, Expand \/ ExpandFails, ~UNCHANGED store
    PROVE  Rows!Grow \/ Rows!Throw \/ UNCHANGED Rows!vars
<1>1. /\ UNCHANGED <<req, others, skipped, index, offset>> /\ pc = "expand" /\ Zeroed
      /\ pc' \in {"acknowledge", "closing"}
      /\ reason' # reason => reason' # "none"
  BY DEF Expand, ExpandFails, Throw, envVars, constVars
<1>2. /\ req.op = "update" /\ index \in DOMAIN req.rows /\ offset = 0 /\ Updates
      /\ reason = "none" /\ Outcome = "running" /\ req.auto
      /\ req \in Requests /\ store \in [Keys -> Seq(Stored)]
  BY <1>1, CallRuns
  DEF BlobInv, DataInv, ControlInv, InRow, Updating, Updates, GrowInv
<1>3. Outcome' \in {"running", "threw"} /\ (Outcome' = "threw" \/ Outcome' = Outcome)
  BY <1>1, <1>2 DEF Outcome
<1>4. \A i \in DOMAIN req.rows \ {index} : store'[RowKey(i)] = store[RowKey(i)]
  BY <1>1, <1>2, ZeroedRows
<1>5. RowKey(index) \in Keys /\ Row.len \in Nat
  BY <1>2, RequestType DEF RowKey, Row
<1>6. CASE ExpandedKey = RowKey(index) /\ ExpandedKey \notin missing
  <2>1. store'[RowKey(index)] = [k \in 1 .. Row.len |-> Zero]
    BY <1>1, <1>2, <1>5, <1>6 DEF Zeroed
  <2>2. RowContent' = [RowContent EXCEPT ![index] = [k \in 1 .. Row.len |-> Zero]]
    BY <1>1, <1>2, <1>4, <2>1, OneRowChanges
  <2>3. Len(RowData[index]) = Row.len /\ RowContent[index] = store[RowKey(index)]
    BY <1>2, RowTypes DEF Row
  <2>4. ASSUME index \notin RowsReplaced PROVE Len(store[RowKey(index)]) < Row.len
    <3>1. Quiet
      BY <1>2, <2>4 DEF RowsReplaced, Quiet
    <3> QED
      BY <1>1, <1>2, <3>1
      DEF UpdateInv, HandleKnows, RowStates, RowState, Quiet, Updating, Fresh
  <2>5. Rows!Running
    BY <1>2, RowTypes DEF Rows!Running
  <2> QED
    BY <1>1, <1>2, <1>3, <2>2, <2>3, <2>4, <2>5, RowsKept
    DEF Rows!Grow, Updates, RowsReplaced, RowKey, BytesWritten, RowsShort
<1>7. CASE ~(ExpandedKey = RowKey(index) /\ ExpandedKey \notin missing)
  <2>1. store'[RowKey(index)] = store[RowKey(index)]
    BY <1>1, <1>2, <1>5, <1>7 DEF Zeroed
  <2>2. RowContent' = RowContent
    BY <1>1, <1>4, <2>1 DEF RowContent, RowKey, Key
  <2> QED
    BY <1>1, <1>2, <1>3, <2>2, RowsKept
    DEF Rows!Throw, Rows!vars, Updates, RowsReplaced, RowKey, BytesWritten, RowsShort
<1> QED
  BY <1>6, <1>7

\* A chunk is some of the next bytes of the row, within its BLOB.
LEMMA ChunkIsWrite ==
    ASSUME BlobInv, UpdateInv, GrowInv,
           WriteChunk \/ (WriteFails /\ Accepts /\ store' = WrittenStore)
    PROVE  Rows!Write
<1>1. /\ UNCHANGED <<req, others, skipped, index>> /\ pc = "write" /\ offset < Total
      /\ Accepts /\ store' = WrittenStore
      /\ \/ offset' = offset + NextChunk /\ UNCHANGED <<pc, reason>>
         \/ reason' # "none" /\ UNCHANGED offset
  BY DEF WriteChunk, WriteFails, Throw, envVars, constVars
<1>2. /\ req.op = "update" /\ Updates /\ index \in DOMAIN req.rows
      /\ reason = "none" /\ Outcome = "running"
      /\ req \in Requests /\ store \in [Keys -> Seq(Stored)] /\ handle \in Handle
  BY <1>1, CallRuns DEF BlobInv, DataInv, ControlInv, InRow, Updating, Updates
<1>3. /\ NextChunk \in Nat /\ offset \in Nat /\ NextChunk > 0
      /\ offset + NextChunk <= req.rows[index].len
      /\ \A i \in DOMAIN req.rows \ {index} : store'[RowKey(i)] = store[RowKey(i)]
  BY <1>1, <1>2, WrittenRows DEF Accepts
<1>4. Key(handle.id) = RowKey(index) /\ RowKey(index) \in Keys
  BY <1>1, <1>2, RequestType DEF UpdateInv, HandleKnows, Updating, RowKey, Row, Accepts
<1>5. offset + NextChunk <= Len(store[RowKey(index)])
  BY <1>1, <1>4 DEF GrowInv, Accepts
<1> DEFINE n == NextChunk
           x == store[RowKey(index)]
           y == Patched(x, Given(index), offset, n)
<1>6. store'[RowKey(index)] = y
  <2>1. store'[RowKey(index)]
          = Overwritten(x, offset, SubSeq(Given(index), offset + 1, offset + n))
    BY <1>1, <1>2, <1>4 DEF WrittenStore
  <2>2. /\ x \in Seq(Stored) /\ Given(index) \in Seq(Stored)
        /\ Len(Given(index)) = req.rows[index].len
    BY <1>2, <1>4, GivenType
  <2> DEFINE g == Given(index)
  <2>3. /\ x \in Seq(Stored) /\ g \in Seq(Stored) /\ n \in Nat /\ offset \in Nat
        /\ offset + n <= Len(g)
    BY <1>3, <2>2
  <2> HIDE DEF n, x, g
  <2>4. Overwritten(x, offset, SubSeq(g, offset + 1, offset + n)) = Patched(x, g, offset, n)
    BY <2>3, OverwrittenFrom
  <2> QED
    BY <2>1, <2>4 DEF n, x, g
<1>7. RowContent' = [RowContent EXCEPT ![index] = y]
  BY <1>1, <1>2, <1>3, <1>6, OneRowChanges
<1>8. /\ RowData[index] = Given(index) /\ Len(RowData[index]) = req.rows[index].len
      /\ RowContent[index] = x /\ req.rows[index].len \in Nat
  BY <1>2, RowTypes, RequestType
<1>9. n \in 1 .. Len(RowData[index]) - offset
  BY <1>3, <1>8
<1>10. Rows!Running
  BY <1>2, RowTypes DEF Rows!Running
<1>11. \/ offset' = offset + n /\ Outcome' = Outcome
       \/ offset' = offset /\ Outcome' = "threw"
  BY <1>1 DEF Outcome
<1>12. RowContent' = [RowContent EXCEPT ![index] =
                       [k \in DOMAIN RowContent[index] |->
                          IF k \in offset + 1 .. offset + n THEN RowData[index][k]
                          ELSE RowContent[index][k]]]
  BY <1>7, <1>8 DEF Patched
<1> HIDE DEF n, x, y
<1> QED
  BY <1>1, <1>2, <1>5, <1>8, <1>9, <1>10, <1>11, <1>12, RowsKept
  DEF Rows!Write, Updates, RowsReplaced, RowKey, RowsShort, n, x

\* Another client replaces a row of the call, or none of them.
LEMMA OtherChangeIsReplace ==
    ASSUME BlobInv, NEW key \in Keys, OtherChange(key)
    PROVE  (\E i \in DOMAIN RowData : Rows!Replace(i)) \/ UNCHANGED Rows!vars
<1>1. /\ UNCHANGED <<req, index, offset, skipped, pc, reason>>
      /\ others' = others \cup {key} /\ key \notin others
  BY DEF OtherChange, constVars
<1>2. /\ req \in Requests /\ store \in [Keys -> Seq(Stored)]
      /\ \A k \in Keys \ {key} : store'[k] = store[k]
      /\ \A i \in DOMAIN req.rows : RowKey(i) \in Keys
  BY OtherChangeEffect, RowTypes DEF BlobInv, DataInv
<1>3. Outcome' = Outcome
  BY <1>1 DEF Outcome
<1>4. CASE \E i \in DOMAIN req.rows : RowKey(i) = key
  <2>1. PICK i \in DOMAIN req.rows : RowKey(i) = key
    BY <1>4
  <2>2. RowsReplaced' = RowsReplaced \cup {i} /\ i \notin RowsReplaced
    BY <1>1, <1>2, <2>1, RowsDiffer DEF RowsReplaced, RowKey, Key
  <2>3. BlobInv'
    <3>1. Next
      BY DEF Next
    <3> QED
      BY <3>1, DataStep, ControlStep, SnapshotStep DEF BlobInv
  <2>4. RowContent' \in [DOMAIN RowData -> Seq(Stored)]
    <3>1. store' \in [Keys -> Seq(Stored)]
      BY <2>3 DEF BlobInv, DataInv
    <3>2. RowContent' = [j \in DOMAIN req.rows |-> store'[RowKey(j)]]
      BY <1>1 DEF RowContent, RowKey, Key
    <3>3. DOMAIN RowData = DOMAIN req.rows
      BY RowTypes
    <3> QED
      BY <1>2, <3>1, <3>2, <3>3
  <2>5. \A j \in DOMAIN RowData \ {i} : RowContent'[j] = RowContent[j]
    <3>1. \A j \in DOMAIN req.rows \ {i} : store'[RowKey(j)] = store[RowKey(j)]
      BY <1>2, <2>1, RowsDiffer
    <3> QED
      BY <1>1, <3>1, RowTypes DEF RowContent, RowKey, Key
  <2>6. Rows!Replace(i)
    BY <1>1, <1>3, <2>2, <2>4, <2>5, RowsKept
    DEF Rows!Replace, Updates, RowsReplaced, RowKey, BytesWritten, RowsShort
  <2> QED
    BY <2>1, <2>6, RowTypes
<1>5. CASE ~ \E i \in DOMAIN req.rows : RowKey(i) = key
  <2>1. RowContent' = RowContent
    BY <1>1, <1>2, <1>5 DEF RowContent, RowKey, Key
  <2>2. RowsReplaced' = RowsReplaced
    BY <1>1, <1>5 DEF RowsReplaced, RowKey, Key
  <2> QED
    BY <1>1, <1>3, <2>1, <2>2, RowsKept
    DEF Rows!vars, Updates, RowsReplaced, RowKey, BytesWritten, RowsShort
<1> QED
  BY <1>4, <1>5

\* Every step of a call is one of RowUpdates, or none (SQLiteCloud.update).
LEMMA RowsStep ==
    BlobInv /\ UpdateInv /\ GrowInv /\ [Next]_vars => [Rows!Next]_(Rows!vars)
<1> SUFFICES ASSUME BlobInv, UpdateInv, GrowInv, [Next]_vars
             PROVE  Rows!Next \/ UNCHANGED Rows!vars
  OBVIOUS
<1> USE DEF Rows!Next
<1>1. CASE UNCHANGED vars
  BY <1>1, RowsKept
  DEF vars, Rows!vars, Outcome, Updates, RowsReplaced, RowKey, BytesWritten, RowsShort
<1>2. CASE \E key \in Keys : OtherChange(key)
  BY <1>2, OtherChangeIsReplace
<1>3. CASE Open \/ Reopen \/ Finish \/ CheckSize \/ Acknowledge \/ ReadChunk \/ ReadShort
  BY <1>3, GoesOn, ReadGoesOn
<1>4. CASE BlobBytes \/ ReadRowDone \/ WriteRowDone \/ StreamEndsEarly \/ Close
  BY <1>4, RowEndIsNextRow, CloseIsReturn
<1>5. CASE \/ NoRows \/ OpenFails \/ ReopenFails \/ ReadFails \/ WriteNothing
           \/ WriteRowFails \/ FileFails
  <2>1. UNCHANGED store
    BY <1>5 DEF NoRows, OpenFails, ReopenFails, ReadFails, WriteNothing, WriteRowFails,
                FileFails
  <2> QED
    BY <1>5, <2>1, FailureIsThrow
<1>6. CASE Expand \/ ExpandFails
  <2>1. CASE UNCHANGED store /\ ExpandFails
    BY <2>1, FailureIsThrow
  <2>2. CASE ~UNCHANGED store
    BY <1>6, <2>2, ExpansionIsGrow
  <2>3. CASE UNCHANGED store /\ Expand
    <3>1. /\ UNCHANGED <<req, store, others, skipped, index, offset, reason>>
          /\ pc = "expand" /\ pc' = "acknowledge"
      BY <2>3 DEF Expand, envVars, constVars
    <3>2. Outcome' = Outcome
      BY <3>1 DEF Outcome
    <3> QED
      BY <3>1, <3>2, RowsKept
      DEF Rows!vars, Updates, RowsReplaced, RowKey, BytesWritten, RowsShort
  <2> QED
    BY <1>6, <2>1, <2>2, <2>3
<1>7. CASE WriteChunk \/ WriteFails
  <2>1. WriteFails => UNCHANGED store \/ (Accepts /\ store' = WrittenStore)
    BY DEF WriteFails
  <2> QED
    BY <1>7, <2>1, ChunkIsWrite, FailureIsThrow
<1> QED
  BY <1>1, <1>2, <1>3, <1>4, <1>5, <1>6, <1>7
  DEF Next, Call, HandleStep, ReadStep, UpdateStep, FileStep

\* SQLiteCloud.update keeps what RowUpdates promises, for any rows, data, chunks, failures
\* and other clients, in whatever database the rows are.
THEOREM ImplementsRowUpdates == Spec => UpdateSpec
<1>1. Init => GrowInv
  BY DEF Init, GrowInv
<1> QED
  BY <1>1, GrowStep, RowsInit, RowsStep, UpdateInvariant, PTL
  DEF Spec, UpdateSpec, Rows!Spec
=============================================================================
