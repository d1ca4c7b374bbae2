------------------------------ MODULE Execute ------------------------------
(***************************************************************************)
(* One call of SQLiteCloud.exec: the parameters of a SQLiteCloudCommand    *)
(* are laid out in C arrays (sqlType, strlen, stringValue,                 *)
(* withArrayOfCStrings), libsqcloud sends them, and ResultParser turns the *)
(* SQCloudResult into a SQLiteCloudResult before it is freed.              *)
(*                                                                         *)
(* libsqcloud reads the arrays the way the code fills them: a number up to *)
(* its NUL (its length is given as 0), a text or a BLOB of the length      *)
(* given, a nil pointer as NULL.  The server answers with the values it    *)
(* received, or with a result that has nothing to do with them.            *)
(*                                                                         *)
(* Abstracted: the query, the value of a number (its digits stand for it), *)
(* column names, error texts.  A byte is one of five that the conversions  *)
(* tell apart: texts are ASCII.                                            *)
(***************************************************************************)
EXTENDS CStrings, SequencesExt

CONSTANTS
    Requests,  \* the parameter lists, sequences of Value
    Nil        \* the nil pointer

\* Bytes: NUL, an ASCII character, one that is no UTF-8 by itself, the bytes of U+FFFD,
\* and what lies outside the buffer.
Ascii == 1
Invalid == 2
Replacement == 3
Garbage == 4
Bytes == NUL .. Garbage

Kinds == {"integer", "double", "string", "blob", "null"}
ValueTypes == {"INTEGER", "FLOAT", "TEXT", "BLOB", "NULL", "UNSUPPORTED"}
ResultTypes == {"OK", "ERROR", "NULL", "STRING", "JSON", "INTEGER", "FLOAT", "BLOB",
                "ARRAY", "ROWSET", "UNSUPPORTED"}

\* A SQLiteCloudValue; a number has digits, and a text is UTF-8.
Value == {v \in [kind : Kinds, bytes : Seq({NUL, Ascii, Invalid})] :
            /\ v.kind \in {"integer", "double"} => v.bytes \in Seq({Ascii})
            /\ v.kind = "string" => v.bytes \in Seq({NUL, Ascii})
            /\ v.kind = "null" => v.bytes = <<>>}

ASSUME ExecuteAssumption ==
    /\ Requests \subseteq Seq(Value)
    /\ Nil \notin Nat

VARIABLES
    params,     \* command.parameters
    connected,  \* getConnection succeeds
    pc,
    arrays,     \* the C arrays: buffer, pointers into it, lengths, types
    received,   \* the values the server received: type and bytes
    reply,      \* the SQCloudResult: its type, and rows of values (an array is one row)
    outcome     \* what exec returns or throws

vars == <<params, connected, pc, arrays, received, reply, outcome>>

-----------------------------------------------------------------------------
(* SQLiteCloudValue *)

\* String(decoding:as: UTF8.self): three bytes of U+FFFD for an ill-formed one.
Decoded(x) ==
    Joined([j \in DOMAIN x |-> IF x[j] = Invalid
                               THEN <<Replacement, Replacement, Replacement>>
                               ELSE <<x[j]>>])

StringValue(v) == IF v.kind = "blob" THEN Decoded(v.bytes) ELSE v.bytes

SqlType(v) ==
    CASE v.kind = "integer" -> "INTEGER"
      [] v.kind = "double"  -> "FLOAT"
      [] v.kind = "blob"    -> "BLOB"
      [] OTHER              -> "TEXT"

Strlen(v) ==
    CASE v.kind = "string" -> CLength(v.bytes)
      [] v.kind = "blob"   -> Len(v.bytes)
      [] OTHER             -> 0

-----------------------------------------------------------------------------
(* exec and withArrayOfCStrings *)

\* compactMap(\.stringValue): nothing for a null.
Strings ==
    Joined([k \in DOMAIN params |-> IF params[k].kind = "null" THEN <<>>
                                    ELSE <<StringValue(params[k])>>])

\* Defective variant of Offsets: the terminating NUL is not counted.
OffsetsWithoutNul(strings) == Sums([k \in DOMAIN strings |-> Len(strings[k])])

\* argsCounts
Counts(strings) == [k \in DOMAIN strings |-> Len(strings[k]) + 1]

\* argsOffsets: where each string begins, and the end of the last one.
Offsets(strings) == Sums(Counts(strings))

\* What is appended to argsBuffer for each string.
Terminated(strings) == [k \in DOMAIN strings |-> Append(strings[k], NUL)]

\* Defective variant of Pointers: the last one is left at the end of the buffer.
PointersOpen(strings) ==
    [k \in 1 .. Len(strings) + 1 |-> Offsets(strings)[k - 1]]

\* cStrings: one pointer per string, then nil.
Pointers(strings) ==
    [k \in 1 .. Len(strings) + 1 |->
        IF k = Len(strings) + 1 THEN Nil ELSE Offsets(strings)[k - 1]]

Marshalled ==
    LET strings == Strings
    IN [buffer   |-> Joined(Terminated(strings)),
        pointers |-> Pointers(strings),
        lengths  |-> [k \in DOMAIN params |-> Strlen(params[k])],
        types    |-> [k \in DOMAIN params |-> SqlType(params[k])]]

Nothing == [buffer |-> <<>>, pointers |-> <<>>, lengths |-> <<>>, types |-> <<>>]

-----------------------------------------------------------------------------
(* libsqcloud *)

At(p, j) == IF p + j <= Len(arrays.buffer) THEN arrays.buffer[p + j] ELSE Garbage

\* The k-th value as libsqcloud reads it.  Behind the last pointer it finds anything.
Read(k) ==
    IF k > Len(arrays.pointers) THEN [type |-> arrays.types[k], bytes |-> <<Garbage>>]
    ELSE LET p == arrays.pointers[k]
         IN IF p = Nil THEN [type |-> "NULL", bytes |-> <<>>]
            ELSE [type  |-> arrays.types[k],
                  bytes |->
                    IF arrays.types[k] \in {"INTEGER", "FLOAT"}
                    THEN CutAtNul(SubSeq(arrays.buffer, p + 1, Len(arrays.buffer)))
                    ELSE [j \in 1 .. arrays.lengths[k] |-> At(p, j)]]

\* What a server answers: rows of the values it received, forwards, backwards or with one
\* of a type nobody knows; or a result that has nothing to do with them.
Replies(values) ==
    LET odd  == [k \in DOMAIN values |->
                   IF k = 1 THEN [type |-> "UNSUPPORTED", bytes |-> <<>>] ELSE values[k]]
        row  == {values, Reverse(values), odd}
        blob == [type |-> "BLOB", bytes |-> <<Ascii, NUL, Ascii>>]
    IN [type : {"ARRAY"}, rows : {<<x>> : x \in row}]
       \cup [type : {"ROWSET"}, rows : UNION {[1 .. n -> row] : n \in 0 .. 2}]
       \cup [type : ResultTypes \ {"ARRAY", "ROWSET"}, rows : {<<>>, << <<blob>> >>}]

-----------------------------------------------------------------------------
(* ResultParser *)

KindOf(type) ==
    CASE type = "INTEGER" -> "integer"
      [] type = "FLOAT"   -> "double"
      [] type = "TEXT"    -> "string"
      [] type = "BLOB"    -> "blob"
      [] OTHER            -> "null"

\* Defective variant of ParseValue: a BLOB goes through a C string as well.
ParseValueAsText(v) == [kind |-> KindOf(v.type), bytes |-> CutAtNul(v.bytes)]

\* A text is formatted with "%.*s", a BLOB copied with its length.
ParseValue(v) ==
    [kind |-> KindOf(v.type),
     bytes |-> IF v.type = "TEXT" THEN CutAtNul(v.bytes) ELSE v.bytes]

Threw(why) == [result |-> "threw", type |-> why, rows |-> <<>>]
Returned(type, rows) == [result |-> "returned", type |-> type, rows |-> rows]

\* parse(array:) and parse(rowset:): one value that cannot be read fails all.
ParseRows(type, rows) ==
    IF \E r \in DOMAIN rows : \E c \in DOMAIN rows[r] : rows[r][c].type = "UNSUPPORTED"
    THEN Threw("unsupportedValueType")
    ELSE Returned(type, [r \in DOMAIN rows |->
                           [c \in DOMAIN rows[r] |-> ParseValue(rows[r][c])]])

\* parse(result:connection:) of a single value; without one, its empty form.
ParseScalar(type, rows) ==
    LET bytes == IF rows = <<>> \/ type = "NULL" THEN <<>> ELSE rows[1][1].bytes
        isText == type \in {"STRING", "JSON"}
    IN Returned(type, << <<[kind  |-> KindOf(IF isText THEN "TEXT" ELSE type),
                            bytes |-> IF isText THEN CutAtNul(bytes) ELSE bytes]>> >>)

Parsed ==
    CASE reply.type = "OK"    -> Returned("OK", <<>>)
      [] reply.type = "ERROR" -> Threw("error")
      [] reply.type \in {"ARRAY", "ROWSET"} -> ParseRows(reply.type, reply.rows)
      [] reply.type = "UNSUPPORTED" -> Threw("unsupportedResultType")
      [] OTHER -> ParseScalar(reply.type, reply.rows)

-----------------------------------------------------------------------------

Init ==
    /\ params \in Requests
    /\ connected \in BOOLEAN
    /\ pc = "start"
    /\ arrays = Nothing
    /\ received = <<>>
    /\ reply = [type |-> "OK", rows |-> <<>>]
    /\ outcome = Threw("unfinished")

\* getConnection throws.
NoConnection ==
    /\ pc = "start" /\ ~connected
    /\ outcome' = Threw("invalidConnection")
    /\ pc' = "done"
    /\ UNCHANGED <<params, connected, arrays, received, reply>>

\* SQCloudExecArray, or SQCloudExec of a command without parameters.
Prepare ==
    /\ pc = "start" /\ connected
    /\ arrays' = IF params = <<>> THEN Nothing ELSE Marshalled
    /\ pc' = "send"
    /\ UNCHANGED <<params, connected, received, reply, outcome>>

\* The server receives the command and answers.
Answer ==
    /\ pc = "send"
    /\ received' = [k \in DOMAIN params |-> Read(k)]
    /\ reply' \in Replies(received')
    /\ pc' = "parse"
    /\ UNCHANGED <<params, connected, arrays, outcome>>

\* No result: handleError makes an error of the connection's state.
NoResult ==
    /\ pc = "send"
    /\ \E why \in {"sqliteError", "connectionFailure", "unhandledError"} :
         outcome' = Threw(why)
    /\ pc' = "done"
    /\ UNCHANGED <<params, connected, arrays, received, reply>>

\* The result is parsed, and freed (defer) whether parsing throws or not.
Parse ==
    /\ pc = "parse"
    /\ outcome' = Parsed
    /\ pc' = "done"
    /\ UNCHANGED <<params, connected, arrays, received, reply>>

Next == NoConnection \/ Prepare \/ Answer \/ NoResult \/ Parse

Spec == Init /\ [][Next]_vars

-----------------------------------------------------------------------------
(* Properties *)

\* The type invariant: every pointer but the last, nil, points into the buffer, and the
\* arrays of lengths and types have one entry per parameter.
TypeOK ==
    /\ params \in Requests /\ connected \in BOOLEAN
    /\ pc \in {"start", "send", "parse", "done"}
    /\ arrays # Nothing =>
         /\ \A k \in 1 .. Len(arrays.pointers) - 1 :
              arrays.pointers[k] \in 0 .. Len(arrays.buffer) - 1
         /\ arrays.pointers[Len(arrays.pointers)] = Nil
         /\ \A j \in DOMAIN arrays.buffer : arrays.buffer[j] \in Bytes
         /\ Len(arrays.lengths) = Len(params) /\ Len(arrays.types) = Len(params)
    /\ \A k \in DOMAIN received : received[k].type \in ValueTypes
    /\ reply.type \in ResultTypes
    /\ outcome.result \in {"threw", "returned"}

\* A null shifts the strings of the parameters behind it, and a BLOB that is no UTF-8 is
\* rewritten on its way: the other lists are those the layout is made for.
Representable ==
    /\ \A k \in 1 .. Len(params) - 1 : params[k].kind # "null"
    /\ \A k \in DOMAIN params :
         params[k].kind = "blob" => \A j \in DOMAIN params[k].bytes :
                                        params[k].bytes[j] # Invalid

\* A parameter as an SQL value: type and bytes.
AsSQL(v) == [type  |-> IF v.kind = "null" THEN "NULL" ELSE SqlType(v),
             bytes |-> IF v.kind = "string" THEN CutAtNul(v.bytes) ELSE v.bytes]

\* The server receives every parameter, in its place, with its type and bytes (a string
\* up to its first NUL): buffer, offsets, lengths and types agree with each other.
ParametersArrive ==
    pc = "parse" /\ Representable =>
        \A k \in DOMAIN params : received[k] = AsSQL(params[k])

\* Values that went to the server as parameters and come back in an array, or in some
\* row of a rowset, in whatever order, are the values that were given, each in its row
\* and column: the parser undoes what exec did.
RoundTrip ==
    outcome.result = "returned" /\ outcome.type \in {"ARRAY", "ROWSET"} /\ Representable
     => LET back == [k \in DOMAIN params |->
                       IF params[k].kind = "string"
                       THEN [params[k] EXCEPT !.bytes = CutAtNul(@)] ELSE params[k]]
        IN /\ DOMAIN outcome.rows = DOMAIN reply.rows
           /\ \A r \in DOMAIN outcome.rows :
                outcome.rows[r] = IF reply.rows[r] = received THEN back ELSE Reverse(back)

-----------------------------------------------------------------------------
(* A claim of the documentation that the code does not keep *)

\* "values that can be stored in SQLite Cloud ... blobs (binary data), and null values"
\* (SQLiteCloudValue), "parameters to bind into the query" (execute): every value given
\* as a parameter reaches the server as it is.
EveryValueArrives ==
    pc = "parse" =>
        \A k \in DOMAIN params :
            received[k] = [type  |-> IF params[k].kind = "null" THEN "NULL"
                                     ELSE SqlType(params[k]),
                           bytes |-> params[k].bytes]
=============================================================================
