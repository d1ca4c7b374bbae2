--------------------------- MODULE Execute_proofs ---------------------------
(***************************************************************************)
(* Proofs about Execute, for parameter lists and strings of any length.    *)
(* The argument: the offsets of the strings are the lengths of what was    *)
(* appended to the buffer before them, so each pointer finds its string    *)
(* and the NUL behind it; and where no null stands before another          *)
(* parameter, the k-th string is the one of the k-th parameter.            *)
(***************************************************************************)
EXTENDS Execute, CStrings_proofs

\* The arrays are those of the parameters.
Sent == arrays = IF params = <<>> THEN Nothing ELSE Marshalled

\* The server received what the arrays say, and answered it.
Exchanged ==
    /\ Sent
    /\ received = [k \in DOMAIN params |-> Read(k)]
    /\ reply \in Replies(received)

\* The inductive invariant.
ExecuteInv ==
    /\ params \in Requests /\ connected \in BOOLEAN
    /\ pc \in {"start", "send", "parse", "done"}
    /\ arrays \in {Nothing, Marshalled}
    /\ \A k \in DOMAIN received : received[k].type \in ValueTypes
    /\ reply.type \in ResultTypes
    /\ outcome.result \in {"threw", "returned"}
    /\ pc = "send" => Sent
    /\ pc = "parse" => Exchanged
    /\ outcome.result = "returned" => pc = "done" /\ Exchanged /\ outcome = Parsed

-----------------------------------------------------------------------------
(* The strings of the parameters *)

\* The values are records of a kind and bytes.
LEMMA ValueType ==
    ASSUME NEW v \in Value
    PROVE  /\ v.kind \in Kinds
           /\ v.bytes \in Seq({NUL, Ascii, Invalid}) /\ v.bytes \in Seq(Bytes)
           /\ v = [kind |-> v.kind, bytes |-> v.bytes]
<1>1. v \in [kind : Kinds, bytes : Seq({NUL, Ascii, Invalid})]
  BY DEF Value
<1>2. {NUL, Ascii, Invalid} \subseteq Bytes
  BY DEF NUL, Ascii, Invalid, Bytes, Garbage
<1>3. \A x \in Seq({NUL, Ascii, Invalid}) : x \in Seq(Bytes)
  BY <1>2
<1> QED
  BY <1>1, <1>3

\* Decoding makes a string of a BLOB, and changes nothing in one that is UTF-8.
LEMMA DecodedProperties ==
    ASSUME NEW x \in Seq({NUL, Ascii, Invalid})
    PROVE  /\ Decoded(x) \in Seq(Bytes)
           /\ (\A j \in DOMAIN x : x[j] # Invalid) => Decoded(x) = x
<1> DEFINE Piece(b) == IF b = Invalid THEN <<Replacement, Replacement, Replacement>>
                       ELSE <<b>>
           pieces == [j \in DOMAIN x |-> Piece(x[j])]
<1>1. DOMAIN x = 1 .. Len(x) /\ Len(x) \in Nat
  OBVIOUS
<1>2. \A j \in DOMAIN x : x[j] \in Bytes
  BY DEF NUL, Ascii, Invalid, Bytes, Garbage
<1>3. \A b \in Bytes : Piece(b) \in Seq(Bytes)
  <2>1. Replacement \in Bytes
    BY DEF Replacement, Bytes, NUL, Garbage
  <2> QED
    BY <2>1
<1>4. /\ DOMAIN pieces = 1 .. Len(x) /\ Len(pieces) = Len(x) /\ Len(pieces) \in Nat
      /\ ListOf(Bytes, pieces)
  BY <1>1, <1>2, <1>3 DEF ListOf
<1>5. Decoded(x) = Joins(pieces)[Len(pieces)]
  BY DEF Decoded, Joined
<1>6. Decoded(x) \in Seq(Bytes)
  <2> HIDE DEF pieces
  <2>1. \A k \in 0 .. Len(pieces) : Joins(pieces)[k] \in Seq(Bytes)
    BY <1>4, JoinsProperties
  <2>2. Len(pieces) \in 0 .. Len(pieces)
    BY <1>4
  <2> QED
    BY <1>5, <2>1, <2>2
<1>7. ASSUME \A j \in DOMAIN x : x[j] # Invalid PROVE Decoded(x) = x
  <2> DEFINE n == Len(pieces)
  <2>1. Singles(pieces, n, x)
    BY <1>1, <1>4, <1>7 DEF Singles
  <2>2. x \in Seq(Bytes)
    BY <1>2
  <2> HIDE DEF pieces, Piece, n
  <2>3. /\ Joins(pieces)[n] \in Seq(Bytes) /\ Len(Joins(pieces)[n]) = n
        /\ \A j \in 1 .. n : Joins(pieces)[n][j] = x[j]
    BY <1>4, <2>1, <2>2, JoinedSingles
  <2>4. Joins(pieces)[n] = Decoded(x) /\ n = Len(x)
    BY <1>4, <1>5 DEF n
  <2> QED
    BY <1>1, <2>3, <2>4
<1> QED
  BY <1>6, <1>7

\* Every parameter has a string.
LEMMA StringType ==
    ASSUME NEW v \in Value
    PROVE  StringValue(v) \in Seq(Bytes)
BY ValueType, DecodedProperties DEF StringValue

\* The strings that are there, in order.
LEMMA StringsType ==
    ASSUME params \in Seq(Value)
    PROVE  Strings \in Seq(Seq(Bytes))
<1> DEFINE Piece(v) == IF v.kind = "null" THEN <<>> ELSE <<StringValue(v)>>
           pieces == [k \in DOMAIN params |-> Piece(params[k])]
<1>1. DOMAIN params = 1 .. Len(params) /\ Len(params) \in Nat
  OBVIOUS
<1>2. \A v \in Value : Piece(v) \in Seq(Seq(Bytes))
  <2> SUFFICES ASSUME NEW v \in Value PROVE Piece(v) \in Seq(Seq(Bytes))
    OBVIOUS
  <2> DEFINE S == Seq(Bytes)
  <2>1. StringValue(v) \in S
    BY StringType
  <2> HIDE DEF S
  <2>2. <<>> \in Seq(S) /\ <<StringValue(v)>> \in Seq(S)
    BY <2>1
  <2> QED
    BY <2>2 DEF S
<1>3. /\ DOMAIN pieces = 1 .. Len(params) /\ Len(pieces) = Len(params)
      /\ ListOf(Seq(Bytes), pieces)
  <2> HIDE DEF Piece
  <2>1. \A k \in 1 .. Len(params) : params[k] \in Value
    BY <1>1
  <2> QED
    BY <1>1, <1>2, <2>1 DEF ListOf
<1>4. Strings = Joins(pieces)[Len(pieces)]
  BY DEF Strings, Joined
<1> HIDE DEF pieces
<1>5. \A k \in 0 .. Len(pieces) : Joins(pieces)[k] \in Seq(Seq(Bytes))
  BY <1>1, <1>3, JoinsProperties
<1> QED
  BY <1>1, <1>3, <1>4, <1>5

-----------------------------------------------------------------------------
(* The buffer *)

\* A string with its NUL.
LEMMA TerminatedType ==
    ASSUME NEW strings \in Seq(Seq(Bytes))
    PROVE  /\ ListOf(Bytes, Terminated(strings))
           /\ Len(Terminated(strings)) = Len(strings)
           /\ Counts(strings) \in Seq(Nat) /\ Len(Counts(strings)) = Len(strings)
           /\ \A k \in 1 .. Len(strings) :
                /\ strings[k] \in Seq(Bytes) /\ Len(strings[k]) \in Nat
                /\ Terminated(strings)[k] = Append(strings[k], NUL)
                /\ Len(Terminated(strings)[k]) = Len(strings[k]) + 1
                /\ Counts(strings)[k] = Len(strings[k]) + 1
<1>1. Len(strings) \in Nat /\ DOMAIN strings = 1 .. Len(strings)
  OBVIOUS
<1>2. \A k \in 1 .. Len(strings) : strings[k] \in Seq(Bytes)
  OBVIOUS
<1>3. NUL \in Bytes
  BY DEF NUL, Bytes, Garbage
<1>4. \A x \in Seq(Bytes) : /\ Append(x, NUL) \in Seq(Bytes)
                            /\ Len(x) \in Nat /\ Len(Append(x, NUL)) = Len(x) + 1
  BY <1>3
<1>5. /\ Len(Terminated(strings)) = Len(strings)
      /\ \A k \in 1 .. Len(strings) : Terminated(strings)[k] = Append(strings[k], NUL)
  BY <1>1 DEF Terminated
<1>6. ListOf(Bytes, Terminated(strings))
  BY <1>1, <1>2, <1>4, <1>5 DEF ListOf
<1>7. /\ Len(Counts(strings)) = Len(strings)
      /\ \A k \in 1 .. Len(strings) : Counts(strings)[k] = Len(strings[k]) + 1
  BY <1>1 DEF Counts
<1>8. Counts(strings) \in Seq(Nat)
  BY <1>1, <1>2, <1>4 DEF Counts
<1> QED
  BY <1>2, <1>4, <1>5, <1>6, <1>7, <1>8

\* The running totals of the lengths are the lengths of what was appended.
LEMMA OffsetsAreLengths ==
    ASSUME NEW strings \in Seq(Seq(Bytes))
    PROVE  \A k \in 0 .. Len(strings) :
               Offsets(strings)[k] = Len(Joins(Terminated(strings))[k])
<1> DEFINE n == Len(strings)
           parts == Terminated(strings)
           counts == Counts(strings)
           Same(k) == Sums(counts)[k] = Len(Joins(parts)[k])
<1>1. /\ ListOf(Bytes, parts) /\ Len(parts) = n
      /\ counts \in Seq(Nat) /\ Len(counts) = n /\ n \in Nat
      /\ \A k \in 1 .. n : Len(parts[k]) = counts[k]
  BY TerminatedType
<1> HIDE DEF n, parts, counts
<1>2. Sums(counts)[0] = 0
      /\ \A k \in 1 .. n : Sums(counts)[k] = Sums(counts)[k - 1] + counts[k]
  BY <1>1, SumsProperties
<1>3. /\ Joins(parts)[0] = <<>>
      /\ \A k \in 0 .. n : Joins(parts)[k] \in Seq(Bytes)
      /\ \A k \in 1 .. n : Joins(parts)[k] = Joins(parts)[k - 1] \o parts[k]
  BY <1>1, JoinsProperties
<1>4. Same(0)
  BY <1>2, <1>3
<1>5. ASSUME NEW k \in 1 .. n, Same(k - 1) PROVE Same(k)
  <2> DEFINE a == Joins(parts)[k - 1]
             b == parts[k]
  <2>1. a \in Seq(Bytes) /\ b \in Seq(Bytes) /\ Joins(parts)[k] = a \o b
    <3>1. k - 1 \in 0 .. n
      BY <1>1
    <3> QED
      BY <1>1, <1>3, <3>1 DEF ListOf
  <2>2. Sums(counts)[k] = Len(a) + Len(b)
    BY <1>1, <1>2, <1>5
  <2> HIDE DEF a, b
  <2>3. Len(Joins(parts)[k]) = Len(a) + Len(b)
    BY <2>1, ConcatParts
  <2> QED
    BY <2>2, <2>3
<1>6. \A k \in 0 .. n : Same(k)
  <2> HIDE DEF Same
  <2> DEFINE S == {k \in Nat : Same(k)}
  <2>1. 0 \in S /\ \A k \in 1 .. n : k - 1 \in S => k \in S
    BY <1>4, <1>5
  <2> HIDE DEF S
  <2>2. \A k \in 0 .. n : k \in S
    BY <1>1, <2>1, UpTo
  <2> QED
    BY <2>2 DEF S
<1> QED
  BY <1>6 DEF n, parts, counts, Offsets

\* The position of the NUL.
LEMMA PlusOne ==
    ASSUME NEW a \in Nat, NEW b \in Nat
    PROVE  b + 1 \in 1 .. b + 1 /\ a + (b + 1) = a + b + 1
OBVIOUS

\* Behind its offset, the buffer holds a string and a NUL.
LEMMA BufferLayout ==
    ASSUME NEW strings \in Seq(Seq(Bytes)), NEW k \in 1 .. Len(strings),
           NEW buffer, buffer = Joined(Terminated(strings)),
           NEW at, at = Offsets(strings)[k - 1],
           NEW n, n = Len(strings[k])
    PROVE  /\ buffer \in Seq(Bytes) /\ at \in Nat /\ n \in Nat
           /\ at + n + 1 <= Len(buffer)
           /\ Holds(buffer, at, strings[k])
           /\ buffer[at + n + 1] = NUL
<1> DEFINE parts == Terminated(strings)
<1>1. /\ ListOf(Bytes, parts) /\ Len(parts) = Len(strings) /\ Len(strings) \in Nat
      /\ strings[k] \in Seq(Bytes) /\ n \in Nat
      /\ parts[k] = Append(strings[k], NUL) /\ Len(parts[k]) = n + 1
  BY TerminatedType
<1>2. at = Len(Joins(parts)[k - 1])
  <2>1. k - 1 \in 0 .. Len(strings)
    BY <1>1
  <2>2. Offsets(strings)[k - 1] = Len(Joins(parts)[k - 1])
    BY <2>1, OffsetsAreLengths
  <2> QED
    BY <2>2
<1> HIDE DEF parts
<1>3. k - 1 \in 0 .. Len(parts) /\ k \in 1 .. Len(parts) /\ Len(parts) \in 0 .. Len(parts)
  BY <1>1
<1>4. Joins(parts)[k - 1] \in Seq(Bytes) /\ Joins(parts)[Len(parts)] \in Seq(Bytes)
  BY <1>1, <1>3, JoinsProperties
<1>5. buffer = Joined(parts) /\ buffer \in Seq(Bytes) /\ at \in Nat
  BY <1>2, <1>4 DEF Joined, parts
<1>6. /\ at + (n + 1) <= Len(buffer)
      /\ \A i \in 1 .. n + 1 : buffer[at + i] = parts[k][i]
  <2>1. /\ Len(Joins(parts)[k - 1]) + Len(parts[k]) <= Len(Joined(parts))
        /\ Holds(Joined(parts), Len(Joins(parts)[k - 1]), parts[k])
    BY <1>1, <1>3, JoinedParts
  <2>2. at + (n + 1) <= Len(buffer) /\ Holds(buffer, at, parts[k])
    BY <1>1, <1>2, <1>5, <2>1
  <2> QED
    BY <1>1, <2>2 DEF Holds
<1>7. \A i \in 1 .. n : parts[k][i] = strings[k][i]
  BY <1>1
<1>8. parts[k][n + 1] = NUL
  BY <1>1
<1>9. \A i \in 1 .. n : buffer[at + i] = strings[k][i]
  <2> SUFFICES ASSUME NEW i \in 1 .. n PROVE buffer[at + i] = strings[k][i]
    OBVIOUS
  <2>1. i \in 1 .. n + 1
    BY <1>1
  <2> QED
    BY <1>6, <1>7, <2>1
<1>10. buffer[at + n + 1] = NUL
  <2>1. n + 1 \in 1 .. n + 1 /\ at + (n + 1) = at + n + 1
    BY <1>1, <1>5, PlusOne
  <2> QED
    BY <1>6, <1>8, <2>1
<1>11. at + n + 1 <= Len(buffer)
  <2>1. at + (n + 1) = at + n + 1
    BY <1>1, <1>5, PlusOne
  <2> QED
    BY <1>6, <2>1
<1> QED
  BY <1>1, <1>5, <1>9, <1>10, <1>11 DEF Holds

-----------------------------------------------------------------------------
(* The arrays *)

\* What the arrays are made of.
LEMMA MarshalledFields ==
    /\ Marshalled.buffer = Joined(Terminated(Strings))
    /\ Marshalled.pointers = Pointers(Strings)
    /\ Marshalled.lengths = [k \in DOMAIN params |-> Strlen(params[k])]
    /\ Marshalled.types = [k \in DOMAIN params |-> SqlType(params[k])]
BY DEF Marshalled

\* One pointer for each string, and nil.
LEMMA PointersType ==
    ASSUME NEW strings \in Seq(Seq(Bytes))
    PROVE  /\ Len(Pointers(strings)) = Len(strings) + 1
           /\ Pointers(strings)[Len(strings) + 1] = Nil
           /\ \A k \in 1 .. Len(strings) : Pointers(strings)[k] = Offsets(strings)[k - 1]
<1>1. Len(strings) \in Nat
  OBVIOUS
<1> DEFINE n == Len(strings)
<1> HIDE DEF n
<1>2. n \in Nat /\ Pointers(strings) = [k \in 1 .. n + 1 |->
                             IF k = n + 1 THEN Nil ELSE Offsets(strings)[k - 1]]
  BY <1>1 DEF Pointers, n
<1>3. /\ Len(Pointers(strings)) = n + 1 /\ Pointers(strings)[n + 1] = Nil
      /\ \A k \in 1 .. n : Pointers(strings)[k] = Offsets(strings)[k - 1]
  BY <1>2
<1> QED
  BY <1>3 DEF n

\* The clause of the type invariant about the arrays.
ArraysType(a) ==
    /\ \A k \in 1 .. Len(a.pointers) - 1 : a.pointers[k] \in 0 .. Len(a.buffer) - 1
    /\ a.pointers[Len(a.pointers)] = Nil
    /\ \A j \in DOMAIN a.buffer : a.buffer[j] \in Bytes
    /\ Len(a.lengths) = Len(params) /\ Len(a.types) = Len(params)

\* The arrays exec makes are of that type.
LEMMA MarshalledType ==
    ASSUME params \in Seq(Value)
    PROVE  /\ ArraysType(Marshalled)
           /\ \A k \in DOMAIN params : Marshalled.types[k] \in ValueTypes
<1> DEFINE strings == Strings
           m == Marshalled
           n == Len(strings)
<1>1. strings \in Seq(Seq(Bytes)) /\ n \in Nat
  BY StringsType
<1>2. /\ m.buffer = Joined(Terminated(strings)) /\ m.pointers = Pointers(strings)
      /\ m.lengths = [k \in DOMAIN params |-> Strlen(params[k])]
      /\ m.types = [k \in DOMAIN params |-> SqlType(params[k])]
  BY MarshalledFields
<1> HIDE DEF strings, m
<1>3. m.buffer \in Seq(Bytes)
  <2>1. ListOf(Bytes, Terminated(strings)) /\ Len(Terminated(strings)) = n
    BY <1>1, TerminatedType
  <2>2. n \in 0 .. Len(Terminated(strings))
    BY <1>1, <2>1
  <2> QED
    BY <1>2, <2>1, <2>2, JoinsProperties DEF Joined
<1>4. /\ Len(m.pointers) = n + 1 /\ m.pointers[n + 1] = Nil
      /\ \A k \in 1 .. n : m.pointers[k] = Offsets(strings)[k - 1]
  BY <1>1, <1>2, PointersType
<1>5. ASSUME NEW k \in 1 .. n PROVE m.pointers[k] \in 0 .. Len(m.buffer) - 1
  <2> DEFINE at == m.pointers[k]
             length == Len(strings[k])
             buffer == m.buffer
             all == Len(buffer)
  <2>1. at = Offsets(strings)[k - 1] /\ buffer = Joined(Terminated(strings))
    BY <1>2, <1>4
  <2>2. all \in Nat
    BY <1>3
  <2> HIDE DEF at, buffer
  <2>3. at \in Nat /\ length \in Nat /\ at + length + 1 <= all
    BY <1>1, <2>1, BufferLayout
  <2> HIDE DEF length, all
  <2>4. at \in 0 .. all - 1
    BY <2>2, <2>3
  <2> QED
    BY <2>4 DEF at, buffer, all
<1>6. \A k \in 1 .. Len(m.pointers) - 1 : m.pointers[k] \in 0 .. Len(m.buffer) - 1
  <2>1. Len(m.pointers) - 1 = n
    BY <1>1, <1>4
  <2> QED
    BY <1>5, <2>1
<1>7. \A j \in DOMAIN m.buffer : m.buffer[j] \in Bytes
  BY <1>3
<1>8. Len(m.lengths) = Len(params) /\ Len(m.types) = Len(params)
  BY <1>2
<1>9. \A k \in DOMAIN params : m.types[k] \in ValueTypes
  BY <1>2 DEF SqlType, ValueTypes
<1> QED
  BY <1>4, <1>6, <1>7, <1>8, <1>9 DEF ArraysType, m

-----------------------------------------------------------------------------
(* The lists the layout is made for *)

\* Where no null stands before another parameter, every parameter has its own string,
\* which holds its bytes, and a null none.
LEMMA RepresentableStrings ==
    ASSUME params \in Seq(Value), Representable, NEW k \in 1 .. Len(params)
    PROVE  /\ params[k].kind # "null" => k \in 1 .. Len(Strings)
                                         /\ Strings[k] = params[k].bytes
           /\ params[k].kind = "null" => k = Len(Strings) + 1
<1> DEFINE n == Len(params)
           y == [i \in 1 .. n |-> StringValue(params[i])]
           Piece(v) == IF v.kind = "null" THEN <<>> ELSE <<StringValue(v)>>
           pieces == [i \in DOMAIN params |-> Piece(params[i])]
<1>1. n \in Nat /\ DOMAIN params = 1 .. n /\ k \in 1 .. n
  OBVIOUS
<1>2. \A i \in 1 .. n : params[i] \in Value
  OBVIOUS
<1>3. \A i \in 1 .. n : i < n => params[i].kind # "null"
  BY <1>1 DEF Representable
<1> HIDE DEF n
<1>4. \A i \in 1 .. n : StringValue(params[i]) \in Seq(Bytes)
  BY <1>2, StringType
<1>5. y \in Seq(Seq(Bytes)) /\ \A i \in 1 .. n : y[i] = StringValue(params[i])
  BY <1>1, <1>4
<1>6. Len(y) = n
  BY <1>1
<1>7. /\ Len(pieces) = n
      /\ \A i \in 1 .. n : pieces[i] = IF params[i].kind = "null" THEN <<>> ELSE <<y[i]>>
  BY <1>1, <1>5
<1>8. ListOf(Seq(Bytes), pieces)
  <2> DEFINE S == Seq(Bytes)
  <2>1. \A i \in 1 .. n : y[i] \in S
    BY <1>4, <1>5
  <2> HIDE DEF S, y, pieces
  <2>2. <<>> \in Seq(S) /\ \A e \in S : <<e>> \in Seq(S)
    OBVIOUS
  <2>3. \A i \in 1 .. n : pieces[i] \in Seq(S)
    BY <1>7, <2>1, <2>2
  <2> QED
    BY <1>1, <1>7, <2>3 DEF ListOf, S
<1>9. Strings = Joins(pieces)[n]
  BY <1>7 DEF Strings, Joined
<1>10. ASSUME NEW i \in 1 .. n PROVE y[i] = params[i].bytes
  <2>1. params[i].bytes \in Seq({NUL, Ascii, Invalid})
    BY <1>2, ValueType
  <2>2. params[i].kind = "blob" => Decoded(params[i].bytes) = params[i].bytes
    BY <1>1, <2>1, DecodedProperties DEF Representable
  <2> QED
    BY <1>5, <2>2 DEF StringValue
<1> HIDE DEF y, pieces
<1>11. ASSUME NEW m \in 0 .. n, Singles(pieces, m, y)
       PROVE  /\ Joins(pieces)[m] \in Seq(Seq(Bytes)) /\ Len(Joins(pieces)[m]) = m
              /\ \A i \in 1 .. m : Joins(pieces)[m][i] = y[i]
  <2> DEFINE S == Seq(Bytes)
  <2> HIDE DEF S
  <2>1. ListOf(S, pieces) /\ y \in Seq(S)
    BY <1>5, <1>8 DEF S
  <2>2. /\ Joins(pieces)[m] \in Seq(S) /\ Len(Joins(pieces)[m]) = m
        /\ \A i \in 1 .. m : Joins(pieces)[m][i] = y[i]
    BY <1>11, <2>1, JoinedSingles
  <2> QED
    BY <2>2 DEF S
<1>12. CASE params[n].kind # "null"
  <2>1. \A i \in 1 .. n : pieces[i] = <<y[i]>>
    BY <1>1, <1>7, <1>3, <1>12
  <2>2. Singles(pieces, n, y)
    BY <1>1, <1>7, <1>6, <2>1 DEF Singles
  <2>3. Len(Strings) = n /\ \A i \in 1 .. n : Strings[i] = y[i]
    BY <1>1, <1>9, <1>11, <2>2
  <2>4. params[k].kind # "null"
    BY <1>1, <1>3, <1>12
  <2> QED
    BY <1>1, <1>10, <2>3, <2>4
<1>13. CASE params[n].kind = "null"
  <2>1. n \in 1 .. n /\ n - 1 \in 0 .. n
    BY <1>1
  <2>2. \A i \in 1 .. n - 1 : pieces[i] = <<y[i]>>
    BY <1>1, <1>7, <1>3
  <2>3. Singles(pieces, n - 1, y)
    BY <1>1, <1>7, <1>6, <2>1, <2>2 DEF Singles
  <2> DEFINE before == Joins(pieces)[n - 1]
  <2>4. /\ before \in Seq(Seq(Bytes)) /\ Len(before) = n - 1
        /\ \A i \in 1 .. n - 1 : before[i] = y[i]
    BY <1>11, <2>1, <2>3
  <2>5. Joins(pieces)[n] = before \o <<>>
    <3>1. Joins(pieces)[n] = before \o pieces[n]
      BY <1>7, <1>8, <2>1, JoinsProperties
    <3>2. pieces[n] = <<>>
      BY <1>7, <1>13, <2>1
    <3> QED
      BY <3>1, <3>2
  <2> HIDE DEF before
  <2>6. Strings = before
    BY <1>9, <2>4, <2>5
  <2>7. params[k].kind = "null" => k = n
    BY <1>1, <1>3
  <2>8. params[k].kind # "null" => k \in 1 .. n - 1
    BY <1>1, <1>13
  <2> QED
    BY <1>1, <1>10, <2>4, <2>6, <2>7, <2>8
<1> QED
  BY <1>12, <1>13

-----------------------------------------------------------------------------
(* What libsqcloud reads *)

\* A number up to its NUL.
LEMMA NumberCut ==
    ASSUME NEW buffer \in Seq(Bytes), NEW at \in Nat, NEW x \in Seq({Ascii}),
           NEW n \in Nat, n = Len(x), at + n + 1 <= Len(buffer),
           Holds(buffer, at, x),
           buffer[at + n + 1] = NUL
    PROVE  CutAtNul(SubSeq(buffer, at + 1, Len(buffer))) = x
<1> DEFINE all == Len(buffer)
           rest == SubSeq(buffer, at + 1, all)
<1>1. all \in Nat /\ at + n + 1 <= all
  OBVIOUS
<1>2. /\ rest \in Seq(Bytes) /\ Len(rest) = all - at
      /\ \A i \in 1 .. all - at : rest[i] = buffer[at + i]
  <2>1. \A i \in 1 .. all : buffer[i] \in Bytes
    OBVIOUS
  <2> HIDE DEF all
  <2>2. rest = [i \in 1 .. all - at |-> buffer[at + i]]
    BY <1>1
  <2>3. \A i \in 1 .. all - at : at + i \in 1 .. all
    BY <1>1
  <2>4. \A i \in 1 .. all - at : buffer[at + i] \in Bytes
    BY <2>1, <2>3
  <2>5. all - at \in Nat
    BY <1>1
  <2> HIDE DEF rest
  <2> QED
    BY <2>2, <2>4, <2>5
<1> HIDE DEF all, rest
<1>3. \A i \in 1 .. n : rest[i] = x[i]
  BY <1>1, <1>2 DEF Holds
<1>4. rest[n + 1] = NUL
  <2>1. n + 1 \in 1 .. all - at /\ at + (n + 1) = at + n + 1
    BY <1>1
  <2> QED
    BY <1>2, <2>1
<1>5. \A i \in 1 .. n : x[i] # NUL
  BY DEF Ascii, NUL
<1>6. n \in 0 .. Len(rest)
  BY <1>1, <1>2
<1>7. CLength(rest) = n
  BY <1>2, <1>3, <1>4, <1>5, <1>6, CLengthIs
<1>8. /\ CutAtNul(rest) \in Seq(Bytes) /\ Len(CutAtNul(rest)) = n
      /\ \A i \in 1 .. n : CutAtNul(rest)[i] = rest[i]
  BY <1>2, <1>7, CutProperties
<1>9. CutAtNul(rest) = x
  BY <1>3, <1>8
<1> QED
  BY <1>9 DEF rest, all

\* A text or a BLOB in its length, which lies in the buffer.
LEMMA LengthRead ==
    ASSUME NEW T, NEW x \in Seq(T), NEW at \in Nat, NEW length, NEW n \in Nat,
           length = Len(arrays.buffer), length \in Nat, n = Len(x), at + n + 1 <= length,
           Holds(arrays.buffer, at, x)
    PROVE  \A j \in 1 .. n : At(at, j) = x[j]
<1>1. \A j \in 1 .. n : at + j <= length
  OBVIOUS
<1> QED
  BY <1>1 DEF At, Holds

\* Every parameter of such a list is read as the value it is.
LEMMA ReadRepresentable ==
    ASSUME params \in Seq(Value), Representable, arrays = Marshalled,
           NEW k \in 1 .. Len(params)
    PROVE  Read(k) = AsSQL(params[k])
<1> DEFINE v == params[k]
           n == Len(v.bytes)
           strings == Strings
           p == Offsets(strings)[k - 1]
<1>1. v \in Value
  OBVIOUS
<1>2. /\ v.kind \in Kinds /\ v.bytes \in Seq(Bytes) /\ n \in Nat /\ n = Len(v.bytes)
      /\ v.kind \in {"integer", "double"} => v.bytes \in Seq({Ascii})
      /\ v.kind = "null" => v.bytes = <<>>
  BY <1>1, ValueType DEF Value
<1>3. strings \in Seq(Seq(Bytes)) /\ Len(strings) \in Nat
  BY StringsType
<1>4. /\ arrays.buffer = Joined(Terminated(strings)) /\ arrays.pointers = Pointers(strings)
      /\ arrays.lengths[k] = Strlen(v) /\ arrays.types[k] = SqlType(v)
  BY MarshalledFields
<1>5. /\ Len(arrays.pointers) = Len(strings) + 1
      /\ arrays.pointers[Len(strings) + 1] = Nil
      /\ \A i \in 1 .. Len(strings) : arrays.pointers[i] = Offsets(strings)[i - 1]
  BY <1>3, <1>4, PointersType
<1>6. /\ v.kind # "null" => k \in 1 .. Len(strings) /\ strings[k] = v.bytes
      /\ v.kind = "null" => k = Len(strings) + 1
  BY RepresentableStrings
<1> HIDE DEF v, strings
<1>7. CASE v.kind = "null"
  <2>1. ~(k > Len(arrays.pointers)) /\ arrays.pointers[k] = Nil
    BY <1>3, <1>5, <1>6, <1>7
  <2>2. Read(k) = [type |-> "NULL", bytes |-> <<>>]
    BY <2>1 DEF Read
  <2> QED
    BY <1>2, <1>7, <2>2 DEF AsSQL, v
<1>8. CASE v.kind # "null"
  <2>1. k \in 1 .. Len(strings) /\ strings[k] = v.bytes /\ n = Len(strings[k])
    BY <1>6, <1>8
  <2>2. arrays.pointers[k] = p /\ ~(k > Len(arrays.pointers))
    BY <1>3, <1>5, <2>1
  <2>3. /\ arrays.buffer \in Seq(Bytes) /\ p \in Nat
        /\ p + n + 1 <= Len(arrays.buffer)
        /\ Holds(arrays.buffer, p, v.bytes)
        /\ arrays.buffer[p + n + 1] = NUL
    <3> DEFINE buffer == arrays.buffer
    <3>1. p = Offsets(strings)[k - 1] /\ buffer = Joined(Terminated(strings))
      BY <1>4
    <3> HIDE DEF p, n, buffer
    <3>2. /\ buffer \in Seq(Bytes) /\ p \in Nat /\ p + n + 1 <= Len(buffer)
          /\ Holds(buffer, p, strings[k])
          /\ buffer[p + n + 1] = NUL
      BY <1>3, <2>1, <3>1, BufferLayout
    <3> QED
      BY <2>1, <3>2 DEF buffer
  <2> HIDE DEF p, n
  <2>4. p # Nil
    BY <2>3, ExecuteAssumption
  <2>5. Read(k) = [type  |-> SqlType(v),
                   bytes |->
                     IF SqlType(v) \in {"INTEGER", "FLOAT"}
                     THEN CutAtNul(SubSeq(arrays.buffer, p + 1, Len(arrays.buffer)))
                     ELSE [j \in 1 .. Strlen(v) |-> At(p, j)]]
    BY <1>4, <2>2, <2>4 DEF Read
  <2>6. Len(arrays.buffer) \in Nat
    BY <2>3
  <2>7. CASE v.kind \in {"integer", "double"}
    <3>1. SqlType(v) \in {"INTEGER", "FLOAT"}
      BY <2>7 DEF SqlType
    <3>2. CutAtNul(SubSeq(arrays.buffer, p + 1, Len(arrays.buffer))) = v.bytes
      BY <1>2, <2>3, <2>7, NumberCut
    <3> QED
      BY <2>5, <2>7, <3>1, <3>2 DEF AsSQL, v
  <2>8. CASE v.kind = "blob"
    <3>1. SqlType(v) = "BLOB" /\ Strlen(v) = n
      BY <2>8 DEF SqlType, Strlen, n
    <3>2. \A j \in 1 .. n : At(p, j) = v.bytes[j]
      BY <1>2, <2>3, <2>6, LengthRead
    <3>3. [j \in 1 .. n |-> At(p, j)] = v.bytes
      BY <1>2, <3>2
    <3> QED
      BY <2>5, <2>8, <3>1, <3>3 DEF AsSQL, v
  <2>9. CASE v.kind = "string"
    <3> DEFINE x == CutAtNul(v.bytes)
               m == CLength(v.bytes)
    <3>1. SqlType(v) = "TEXT" /\ Strlen(v) = m
      BY <2>9 DEF SqlType, Strlen
    <3>2. /\ x \in Seq(Bytes) /\ Len(x) = m /\ m \in 0 .. n
          /\ \A i \in 1 .. m : x[i] = v.bytes[i]
      BY <1>2, CutProperties, CLengthFound
    <3> HIDE DEF x, m
    <3>3. p + m + 1 <= Len(arrays.buffer) /\ m \in Nat
      BY <1>2, <2>3, <2>6, <3>2
    <3>4. Holds(arrays.buffer, p, x)
      <4> SUFFICES ASSUME NEW i \in 1 .. m PROVE arrays.buffer[p + i] = x[i]
        BY <3>2 DEF Holds
      <4>1. i \in 1 .. Len(v.bytes)
        BY <1>2, <3>2
      <4> QED
        BY <2>3, <3>2, <4>1 DEF Holds
    <3>5. \A j \in 1 .. m : At(p, j) = x[j]
      BY <2>3, <2>6, <3>2, <3>3, <3>4, LengthRead
    <3>6. [j \in 1 .. m |-> At(p, j)] = x
      BY <3>2, <3>3, <3>5
    <3> QED
      BY <2>5, <2>9, <3>1, <3>6 DEF AsSQL, v, x
  <2> QED
    BY <1>2, <1>8, <2>7, <2>8, <2>9 DEF Kinds
<1> QED
  BY <1>7, <1>8

\* The types of the values read are types.
LEMMA ReadType ==
    ASSUME params \in Seq(Value), Sent, NEW k \in DOMAIN params
    PROVE  Read(k).type \in ValueTypes
<1>1. params # <<>>
  OBVIOUS
<1>2. arrays.types[k] \in ValueTypes
  BY <1>1, MarshalledType DEF Sent
<1> QED
  BY <1>2 DEF Read, ValueTypes

-----------------------------------------------------------------------------
(* The answer, and what the parser makes of it *)

\* The row with a value of a type nobody knows.
Odd(values) == [k \in DOMAIN values |->
                  IF k = 1 THEN [type |-> "UNSUPPORTED", bytes |-> <<>>] ELSE values[k]]

\* The answer has a type, and its rows are made of the values received.
LEMMA ReplyRows ==
    ASSUME NEW values, reply \in Replies(values)
    PROVE  /\ reply.type \in ResultTypes
           /\ reply.type \in {"ARRAY", "ROWSET"} =>
                \A r \in DOMAIN reply.rows :
                    reply.rows[r] \in {values, Reverse(values), Odd(values)}
<1> DEFINE row == {values, Reverse(values), Odd(values)}
           blob == [type |-> "BLOB", bytes |-> <<Ascii, NUL, Ascii>>]
           Arrays == [type : {"ARRAY"}, rows : {<<x>> : x \in row}]
           Rowsets == [type : {"ROWSET"}, rows : UNION {[1 .. n -> row] : n \in 0 .. 2}]
           Others == [type : ResultTypes \ {"ARRAY", "ROWSET"},
                      rows : {<<>>, << <<blob>> >>}]
<1>1. reply \in Arrays \cup Rowsets \cup Others
  BY DEF Replies, Odd
<1> HIDE DEF row
<1>2. CASE reply \in Arrays
  <2>1. reply.type = "ARRAY" /\ \E x \in row : reply.rows = <<x>>
    BY <1>2
  <2>2. \A r \in DOMAIN reply.rows : reply.rows[r] \in row
    BY <2>1
  <2> QED
    BY <2>1, <2>2 DEF row, ResultTypes
<1>3. CASE reply \in Rowsets
  <2>1. reply.type = "ROWSET" /\ \E n \in 0 .. 2 : reply.rows \in [1 .. n -> row]
    BY <1>3
  <2>2. \A r \in DOMAIN reply.rows : reply.rows[r] \in row
    BY <2>1
  <2> QED
    BY <2>1, <2>2 DEF row, ResultTypes
<1>4. CASE reply \in Others
  <2>1. reply.type \in ResultTypes \ {"ARRAY", "ROWSET"}
    BY <1>4
  <2> QED
    BY <2>1
<1> QED
  BY <1>1, <1>2, <1>3, <1>4

\* What comes back of a value.
Back(v) == IF v.kind = "string" THEN [v EXCEPT !.bytes = CutAtNul(@)] ELSE v

\* The parser undoes what exec did.
LEMMA ParseUndoes ==
    ASSUME NEW v \in Value
    PROVE  ParseValue(AsSQL(v)) = Back(v)
<1>1. /\ v.kind \in Kinds /\ v.bytes \in Seq(Bytes)
      /\ v = [kind |-> v.kind, bytes |-> v.bytes]
  BY ValueType
<1> DEFINE sql == AsSQL(v)
<1>2. CASE v.kind = "string"
  <2>1. sql = [type |-> "TEXT", bytes |-> CutAtNul(v.bytes)]
    BY <1>2 DEF AsSQL, SqlType
  <2>2. CutAtNul(CutAtNul(v.bytes)) = CutAtNul(v.bytes)
    BY <1>1, CutProperties
  <2>3. ParseValue(sql) = [kind |-> "string", bytes |-> CutAtNul(v.bytes)]
    BY <2>1, <2>2 DEF ParseValue, KindOf
  <2>4. Back(v) = [kind |-> "string", bytes |-> CutAtNul(v.bytes)]
    BY <1>1, <1>2 DEF Back
  <2> QED
    BY <2>3, <2>4
<1>3. CASE v.kind # "string"
  <2>1. sql.bytes = v.bytes /\ sql.type # "TEXT" /\ KindOf(sql.type) = v.kind
    BY <1>1, <1>3 DEF AsSQL, SqlType, KindOf, Kinds
  <2>2. ParseValue(sql) = [kind |-> v.kind, bytes |-> v.bytes]
    BY <2>1 DEF ParseValue
  <2> QED
    BY <1>1, <1>3, <2>2 DEF Back
<1> QED
  BY <1>2, <1>3

\* A result with rows is that of an array or a rowset without unreadable values.
LEMMA ParsedRows ==
    ASSUME Parsed.result = "returned", Parsed.type \in {"ARRAY", "ROWSET"},
           reply.type \in ResultTypes
    PROVE  /\ reply.type \in {"ARRAY", "ROWSET"}
           /\ \A r \in DOMAIN reply.rows : \A c \in DOMAIN reply.rows[r] :
                reply.rows[r][c].type # "UNSUPPORTED"
           /\ Parsed.rows = [r \in DOMAIN reply.rows |->
                               [c \in DOMAIN reply.rows[r] |->
                                  ParseValue(reply.rows[r][c])]]
<1>1. reply.type \in {"ARRAY", "ROWSET"}
  BY DEF Parsed, ParseScalar, Threw, Returned, ResultTypes
<1>2. Parsed = ParseRows(reply.type, reply.rows)
  BY <1>1 DEF Parsed
<1> QED
  BY <1>1, <1>2 DEF ParseRows, Threw, Returned

\* What parse makes of a row.
ParsedRow(row) == [c \in DOMAIN row |-> ParseValue(row[c])]

\* n values that were sent, and what should come back of them.
Matching(n, values, back) ==
    /\ values = [k \in 1 .. n |-> values[k]] /\ back = [k \in 1 .. n |-> back[k]]
    /\ \A k \in 1 .. n : ParseValue(values[k]) = back[k]

\* Reversed rows are parsed to reversed rows.
LEMMA ParseReversed ==
    ASSUME NEW n \in Nat, NEW values, NEW back, Matching(n, values, back)
    PROVE  ParsedRow(values) = back /\ ParsedRow(Reverse(values)) = Reverse(back)
<1> USE DEF Matching
<1>1. DOMAIN values = 1 .. n /\ Len(values) = n /\ DOMAIN back = 1 .. n /\ Len(back) = n
  OBVIOUS
<1>2. [c \in DOMAIN values |-> ParseValue(values[c])] = back
  BY <1>1
<1>3. /\ Reverse(values) = [c \in 1 .. n |-> values[(n - c) + 1]]
      /\ Reverse(back) = [c \in 1 .. n |-> back[(n - c) + 1]]
  BY <1>1 DEF Reverse
<1>4. \A c \in 1 .. n : (n - c) + 1 \in 1 .. n
  OBVIOUS
<1>5. \A c \in 1 .. n : ParseValue(values[(n - c) + 1]) = back[(n - c) + 1]
  BY <1>4
<1> DEFINE reversed == Reverse(values)
<1>6. DOMAIN reversed = 1 .. n /\ \A c \in 1 .. n : reversed[c] = values[(n - c) + 1]
  BY <1>3
<1> HIDE DEF reversed
<1>7. [c \in DOMAIN reversed |-> ParseValue(reversed[c])]
        = [c \in 1 .. n |-> back[(n - c) + 1]]
  BY <1>5, <1>6
<1> QED
  BY <1>2, <1>3, <1>7 DEF reversed, ParsedRow

\* The answer to any values has a type.
LEMMA ReplyType ==
    ASSUME NEW values, NEW answer \in Replies(values)
    PROVE  answer.type \in ResultTypes
BY DEF Replies, ResultTypes

-----------------------------------------------------------------------------
(* The inductive invariant *)

\* The parameters are a list of values.
LEMMA ParamsType ==
    ASSUME params \in Requests
    PROVE  params \in Seq(Value)
BY ExecuteAssumption

\* Nothing was exchanged at first.
LEMMA ExecuteInit == Init => ExecuteInv
BY DEF Init, ExecuteInv, Threw, ResultTypes

\* Every step keeps the invariant.
LEMMA ExecuteStep == ExecuteInv /\ [Next]_vars => ExecuteInv'
<1> SUFFICES ASSUME ExecuteInv, [Next]_vars PROVE ExecuteInv'
  OBVIOUS
<1>1. params' = params
  BY DEF Next, NoConnection, Prepare, Answer, NoResult, Parse, vars
<1>2. Strings' = Strings
  BY <1>1 DEF Strings
<1>3. Marshalled' = Marshalled
  BY <1>1, <1>2 DEF Marshalled
<1>4. ASSUME arrays' = arrays PROVE \A k : Read(k)' = Read(k)
  BY <1>4 DEF Read, At
<1>5. CASE NoConnection
  BY <1>1, <1>3, <1>5 DEF NoConnection, ExecuteInv, Threw
<1>6. CASE Prepare
  <2>1. /\ arrays' = IF params = <<>> THEN Nothing ELSE Marshalled
        /\ pc = "start" /\ pc' = "send"
        /\ UNCHANGED <<connected, received, reply, outcome>>
    BY <1>6 DEF Prepare
  <2>2. Sent'
    BY <1>1, <1>3, <2>1 DEF Sent, Nothing
  <2> QED
    BY <1>1, <1>3, <2>1, <2>2 DEF ExecuteInv, Nothing
<1>7. CASE Answer
  <2>1. /\ received' = [k \in DOMAIN params |-> Read(k)]
        /\ reply' \in Replies(received')
        /\ pc = "send" /\ pc' = "parse"
        /\ UNCHANGED <<connected, arrays, outcome>>
    BY <1>7 DEF Answer
  <2>2. Sent /\ Sent'
    BY <1>1, <1>3, <2>1 DEF ExecuteInv, Sent, Nothing
  <2>3. \A k \in DOMAIN received' : received'[k].type \in ValueTypes
    BY <2>1, <2>2, ParamsType, ReadType DEF ExecuteInv
  <2>4. received' = [k \in DOMAIN params' |-> Read(k)']
    BY <1>1, <1>4, <2>1
  <2>5. Exchanged'
    BY <2>1, <2>2, <2>4 DEF Exchanged
  <2>6. reply'.type \in ResultTypes
    BY <2>1, ReplyType
  <2> QED
    BY <1>1, <1>3, <2>1, <2>3, <2>5, <2>6 DEF ExecuteInv, Nothing
<1>8. CASE NoResult
  BY <1>1, <1>3, <1>8 DEF NoResult, ExecuteInv, Threw, Nothing
<1>9. CASE Parse
  <2>1. /\ pc = "parse" /\ pc' = "done" /\ outcome' = Parsed
        /\ UNCHANGED <<connected, arrays, received, reply>>
    BY <1>9 DEF Parse
  <2>2. Exchanged'
    BY <1>1, <1>3, <1>4, <2>1 DEF ExecuteInv, Exchanged, Sent, Nothing
  <2>3. Parsed' = Parsed
    BY <2>1 DEF Parsed
  <2>4. Parsed.result \in {"threw", "returned"}
    BY DEF Parsed, ParseRows, ParseScalar, Threw, Returned, ExecuteInv, ResultTypes
  <2> QED
    BY <1>1, <1>3, <2>1, <2>2, <2>3, <2>4 DEF ExecuteInv, Nothing
<1>10. CASE UNCHANGED vars
  <2>1. Exchanged => Exchanged'
    BY <1>1, <1>3, <1>4, <1>10 DEF Exchanged, Sent, Nothing, vars
  <2>2. Sent => Sent'
    BY <1>1, <1>3, <1>10 DEF Sent, Nothing, vars
  <2>3. Parsed' = Parsed
    BY <1>10 DEF Parsed, vars
  <2> QED
    BY <1>1, <1>3, <1>10, <2>1, <2>2, <2>3 DEF ExecuteInv, Nothing, vars
<1> QED
  BY <1>5, <1>6, <1>7, <1>8, <1>9, <1>10 DEF Next

\* The call is always in one of the states ExecuteInv describes.
THEOREM ExecuteInvariant == Spec => []ExecuteInv
<1> QED
  BY ExecuteInit, ExecuteStep, PTL DEF Spec

-----------------------------------------------------------------------------
(* The properties *)

\* The type invariant: whatever the parameters, every pointer exec passes points into the
\* buffer it passes, the last one is nil, and lengths and types have one entry each.
THEOREM ExecuteTypeCorrect == Spec => []TypeOK
<1>1. ExecuteInv => TypeOK
  <2> SUFFICES ASSUME ExecuteInv PROVE TypeOK
    OBVIOUS
  <2>1. arrays # Nothing => ArraysType(arrays)
    BY ParamsType, MarshalledType DEF ExecuteInv
  <2> QED
    BY <2>1 DEF ExecuteInv, ArraysType, TypeOK
<1> QED
  BY <1>1, ExecuteInvariant, PTL

\* Of a list in which no null stands before another parameter and every BLOB is UTF-8.
LEMMA ReceivedRepresentable ==
    ASSUME ExecuteInv, Exchanged, Representable, NEW k \in DOMAIN params
    PROVE  received[k] = AsSQL(params[k])
<1>1. params \in Seq(Value) /\ params # <<>> /\ k \in 1 .. Len(params)
  BY ParamsType DEF ExecuteInv
<1>2. arrays = Marshalled /\ received[k] = Read(k)
  BY <1>1 DEF Exchanged, Sent
<1> QED
  BY <1>1, <1>2, ReadRepresentable

\* The server receives every parameter in its place, with its type and bytes, where no
\* null stands before another parameter and every BLOB is UTF-8.
THEOREM ParametersReachServer == Spec => []ParametersArrive
<1>1. ExecuteInv => ParametersArrive
  BY ReceivedRepresentable DEF ExecuteInv, ParametersArrive
<1> QED
  BY <1>1, ExecuteInvariant, PTL

\* What the parser returns of a row that holds parameters is those parameters.
THEOREM ValuesComeBack == Spec => []RoundTrip
<1> DEFINE n == Len(params)
           back == [k \in DOMAIN params |-> Back(params[k])]
<1>1. ExecuteInv => RoundTrip
  <2> SUFFICES ASSUME ExecuteInv, Representable, outcome.result = "returned",
                      outcome.type \in {"ARRAY", "ROWSET"}
               PROVE  /\ DOMAIN outcome.rows = DOMAIN reply.rows
                      /\ \A r \in DOMAIN outcome.rows :
                           outcome.rows[r] = IF reply.rows[r] = received THEN back
                                             ELSE Reverse(back)
    BY DEF RoundTrip, Back
  <2>1. /\ Exchanged /\ outcome = Parsed /\ reply.type \in ResultTypes
        /\ params \in Seq(Value)
    BY ParamsType DEF ExecuteInv
  <2>2. /\ reply.type \in {"ARRAY", "ROWSET"}
        /\ \A r \in DOMAIN reply.rows : \A c \in DOMAIN reply.rows[r] :
             reply.rows[r][c].type # "UNSUPPORTED"
        /\ outcome.rows = [r \in DOMAIN reply.rows |-> ParsedRow(reply.rows[r])]
    BY <2>1, ParsedRows DEF ParsedRow
  <2>3. /\ n \in Nat /\ DOMAIN params = 1 .. n
        /\ received = [k \in 1 .. n |-> received[k]] /\ DOMAIN received = 1 .. n
        /\ back = [k \in 1 .. n |-> back[k]]
    BY <2>1 DEF Exchanged
  <2>4. \A k \in 1 .. n : ParseValue(received[k]) = back[k]
    <3> SUFFICES ASSUME NEW k \in 1 .. n PROVE ParseValue(received[k]) = back[k]
      OBVIOUS
    <3>1. received[k] = AsSQL(params[k]) /\ params[k] \in Value
      BY <2>1, <2>3, ReceivedRepresentable
    <3> QED
      BY <2>3, <3>1, ParseUndoes
  <2> HIDE DEF n, back
  <2>5. ParsedRow(received) = back /\ ParsedRow(Reverse(received)) = Reverse(back)
    BY <2>3, <2>4, ParseReversed DEF Matching
  <2>6. ASSUME NEW r \in DOMAIN reply.rows
        PROVE  reply.rows[r] \in {received, Reverse(received)}
    <3>1. reply.rows[r] \in {received, Reverse(received), Odd(received)}
      BY <2>1, <2>2, ReplyRows DEF Exchanged
    <3>2. CASE n = 0
      <4>1. DOMAIN received = {} /\ received = <<>>
        BY <2>3, <3>2
      <4>2. Odd(received) = received
        BY <4>1 DEF Odd
      <4> QED
        BY <3>1, <4>2
    <3>3. CASE n # 0
      <4>1. 1 \in DOMAIN Odd(received) /\ Odd(received)[1].type = "UNSUPPORTED"
        BY <2>3, <3>3 DEF Odd
      <4> QED
        BY <2>2, <3>1, <4>1
    <3> QED
      BY <3>2, <3>3
  <2> QED
    BY <2>2, <2>5, <2>6
<1> QED
  BY <1>1, ExecuteInvariant, PTL
=============================================================================
