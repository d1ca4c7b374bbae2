------------------------------ MODULE VM_proofs ------------------------------
(***************************************************************************)
(* Proofs about VM, for any rows, parameters, values and widths, and any   *)
(* number of Tasks and calls.  The argument: the cursor never goes back,   *)
(* so a method that reads has met every row from its first to the current  *)
(* one, and whatever it has read so far came from rows it met; and no      *)
(* parameter changes once the statement has run.                           *)
(***************************************************************************)
EXTENDS VM, CStrings_proofs, SequenceTheorems

Result == [as : Types, of : Value]
ReadJob ==
    [op : Reading \cup {"returned"}, column : 1 .. Columns, first : 1 .. Columns,
     last : 1 .. Columns, type : Types, values : Seq(Result), seen : SUBSET (0 .. Done)]

\* The cell of column c in row r.
Cell(r, c) == IF r \in DOMAIN Rows THEN Rows[r][c] ELSE NoValue

\* A value read from column c of a row in S, through the type of the same or an earlier
\* one.
FromRows(v, S, c) ==
    \E q, r \in S : q <= r /\ \E k \in Types \cap TypesIn(q, c) : v = Through(k, Cell(r, c))

\* What a job is like while the machine is on row c.
JobOK(j, c) ==
    /\ j \in Job
    /\ j.op \in Reading =>
         /\ j.first <= j.column /\ j.column <= j.last
         /\ Len(j.values) = j.column - j.first
         /\ c \in j.seen /\ \A q \in j.seen : q <= c
    /\ j.op = "value" => \E q \in j.seen : j.type \in TypesIn(q, j.column)
    /\ j.op \in Reading \cup {"returned"} =>
         \A i \in DOMAIN j.values : FromRows(j.values[i], j.seen, j.first + i - 1)
    /\ j.op = "returned" /\ 0 \notin j.seen /\ Done \notin j.seen
         => Len(j.values) = j.last - j.first + 1

JobsInv == job \in [Tasks -> Job] /\ \A t \in Tasks : JobOK(job[t], cursor)

\* A parameter of the statement is one of the values it was given.
Matches(p, v) ==
    /\ p.type = TypeOf[v.kind]
    /\ p.data = IF TypeOf[v.kind] = "text" THEN CutAtNul(v.data) ELSE v.data

BoundInv ==
    /\ \A i \in 1 .. Params : \E v \in given[i] : Matches(bound[i], v)
    /\ executed \subseteq {bound}
    /\ executed # {} => cursor # 0

\* The inductive invariant of a statement.
VMInv == TypeOK /\ JobsInv /\ BoundInv

-----------------------------------------------------------------------------
(* Values *)

\* Cells are values, and accessors return values of them.
LEMMA CellType ==
    ASSUME NEW r \in Int, NEW c \in 1 .. Columns
    PROVE  /\ Cell(r, c) \in Value /\ Cell(r, c) = ValueIn(r, c)
           /\ TypesIn(r, c) \subseteq Types \cup {"unknown"}
           /\ \A k \in Types : Through(k, Cell(r, c)) \in Result
<1>1. Cell(r, c) \in Value
  <2>1. CASE r \in DOMAIN Rows
    <3>1. Rows \in Seq([1 .. Columns -> Value])
      BY VMAssumption
    <3>2. Rows[r] \in [1 .. Columns -> Value]
      <4> DEFINE S == [1 .. Columns -> Value]
      <4>1. Rows \in Seq(S)
        BY <3>1
      <4> HIDE DEF S
      <4>2. Rows[r] \in S
        BY <2>1, <4>1
      <4> QED
        BY <4>2 DEF S
    <3> QED
      BY <2>1, <3>2 DEF Cell
  <2>2. CASE r \notin DOMAIN Rows
    <3>1. <<>> \in Seq(Int)
      BY EmptySeq
    <3> QED
      BY <2>2, <3>1 DEF Cell, NoValue, Value, Types
  <2> QED
    BY <2>1, <2>2
<1>2. Cell(r, c) = ValueIn(r, c)
  BY DEF Cell, ValueIn
<1>3. TypesIn(r, c) \subseteq Types \cup {"unknown"}
  BY <1>1 DEF TypesIn, Cell, Value, Types
<1>4. ASSUME NEW k \in Types PROVE Through(k, Cell(r, c)) \in Result
  <2> DEFINE v == Cell(r, c)
  <2>1. v \in Value
    BY <1>1
  <2> HIDE DEF v
  <2>2. NoValue \in Value
    <3>1. <<>> \in Seq(Int)
      BY EmptySeq
    <3> QED
      BY <3>1 DEF NoValue, Value, Types
  <2>3. [v EXCEPT !.data = CutAtNul(@)] \in Value
    BY <2>1, CutProperties DEF Value
  <2>4. Through(k, v).of \in Value /\ Through(k, v).as = k
    BY <2>1, <2>2, <2>3 DEF Through
  <2>5. Through(k, v) \in Result
    BY <2>1, <2>2, <2>3 DEF Through, Result
  <2> QED
    BY <2>5 DEF v
<1> QED
  BY <1>1, <1>2, <1>3, <1>4

\* What is bound matches what is given.
LEMMA BoundType ==
    ASSUME NEW v \in Binds
    PROVE  AsBound(v) \in Value /\ Matches(AsBound(v), v)
<1>1. /\ v.kind \in DOMAIN TypeOf /\ v.data \in Seq(Int)
      /\ v.kind \in {"null", "blobZero"} => v.data = <<>>
  BY VMAssumption
<1>2. TypeOf[v.kind] \in Types
  BY <1>1 DEF TypeOf, Types
<1>3. TypeOf[v.kind] = "text" <=> v.kind = "string"
  BY <1>1 DEF TypeOf
<1>4. CutAtNul(v.data) \in Seq(Int) /\ <<>> \in Seq(Int)
  BY <1>1, CutProperties, EmptySeq
<1>5. AsBound(v).type = TypeOf[v.kind]
  BY DEF AsBound
<1>6. AsBound(v).data = IF TypeOf[v.kind] = "text" THEN CutAtNul(v.data) ELSE v.data
  BY <1>1, <1>3 DEF AsBound
<1>7. AsBound(v) = [type |-> AsBound(v).type, data |-> AsBound(v).data]
  BY DEF AsBound
<1> QED
  BY <1>1, <1>2, <1>4, <1>5, <1>6, <1>7 DEF Matches, Value

-----------------------------------------------------------------------------
(* Jobs *)

\* A job that reads, or has read, has the fields of one.
LEMMA ReadJobs ==
    /\ \A j \in Job : j.op \in Reading \cup {"returned"} => j \in ReadJob
    /\ ReadJob \subseteq Job
<1>1. ReadJob \subseteq Job
  BY DEF Job, ReadJob, Result
<1>2. ASSUME NEW j \in Job, j.op \in Reading \cup {"returned"} PROVE j \in ReadJob
  <2>1. Idle.op = "idle"
    BY DEF Idle
  <2>2. \A x \in [op : {"step", "close"}] : x.op \in {"step", "close"}
    OBVIOUS
  <2>3. \A x \in [op : {"bind"}, value : Binds, index : 0 .. Params] : x.op = "bind"
    OBVIOUS
  <2> QED
    BY <1>2, <2>1, <2>2, <2>3 DEF Job, ReadJob, Result, Reading
<1> QED
  BY <1>1, <1>2

\* Meeting more rows makes no value foreign.
LEMMA FromMoreRows ==
    ASSUME NEW v, NEW c, NEW S, NEW T, S \subseteq T, FromRows(v, S, c)
    PROVE  FromRows(v, T, c)
BY DEF FromRows

\* A job that does not read is indifferent to the cursor.
LEMMA JobElsewhere ==
    ASSUME NEW j, NEW c, NEW d, JobOK(j, c), j.op \notin Reading
    PROVE  JobOK(j, d)
BY DEF JobOK

\* The jobs without columns.
LEMMA OtherJobs ==
    ASSUME NEW j \in Job, j.op \in {"idle", "step", "close", "bind"}, NEW c
    PROVE  JobOK(j, c)
BY DEF JobOK, Reading

\* A method that begins to read has met the current row.
LEMMA BeginsToRead ==
    ASSUME TypeOK, NEW op \in {"count", "type"}, NEW first \in 1 .. Columns,
           NEW last \in 1 .. Columns, first <= last
    PROVE  JobOK(Read(op, first, last), cursor)
<1> DEFINE j == Read(op, first, last)
<1>1. <<>> \in Seq(Result) /\ Len(<<>>) = 0 /\ DOMAIN <<>> = {}
  BY EmptySeq
<1>2. cursor \in 0 .. Done /\ Columns \in Nat
  BY VMAssumption DEF TypeOK
<1>3. /\ j.op = op /\ j.column = first /\ j.first = first /\ j.last = last
      /\ j.values = <<>> /\ j.seen = {cursor}
  BY DEF Read
<1>4. j \in ReadJob
  BY <1>1, <1>2 DEF Read, ReadJob, Reading, Types
<1>5. j \in Job
  BY <1>4, ReadJobs
<1> HIDE DEF j
<1>6. JobOK(j, cursor)
  BY <1>1, <1>2, <1>3, <1>5 DEF JobOK, Reading
<1> QED
  BY <1>6 DEF j

\* A step of another Task adds the row it moves to.
LEMMA MeetsRow ==
    ASSUME NEW j, NEW c \in 0 .. Done, NEW d \in 0 .. Done, JobOK(j, c),
           j.op \in Reading, c <= d
    PROVE  JobOK([j EXCEPT !.seen = @ \cup {d}], d)
<1>1. j \in ReadJob
  BY ReadJobs DEF JobOK
<1>2. Done \in Nat
  BY VMAssumption, LenProperties DEF Done
<1> DEFINE k == [j EXCEPT !.seen = @ \cup {d}]
<1>3. /\ k \in ReadJob /\ k.op = j.op /\ k.column = j.column /\ k.first = j.first
      /\ k.last = j.last /\ k.type = j.type /\ k.values = j.values
      /\ k.seen = j.seen \cup {d}
  BY <1>1 DEF ReadJob
<1>4. k \in Job
  BY <1>3, ReadJobs
<1> HIDE DEF k
<1>5. \A i \in DOMAIN k.values : FromRows(k.values[i], k.seen, k.first + i - 1)
  BY <1>3, FromMoreRows DEF JobOK
<1>6. \A q \in k.seen : q <= d
  <2>1. \A q \in j.seen : q <= c /\ q \in 0 .. Done
    BY <1>1 DEF JobOK, ReadJob
  <2> QED
    BY <1>2, <1>3, <2>1
<1>7. k.op # "returned"
  BY <1>3 DEF Reading
<1>8. JobOK(k, d)
  BY <1>3, <1>4, <1>5, <1>6, <1>7 DEF JobOK
<1> QED
  BY <1>8 DEF k

\* Counting the columns: the loop begins, or ends at once where there is no row.
LEMMA CountedColumns ==
    ASSUME NEW j, NEW c \in 0 .. Done, JobOK(j, c), j.op = "count",
           NEW op \in {"type", "returned"}, op = "returned" => c \notin DOMAIN Rows
    PROVE  JobOK([j EXCEPT !.op = op], c)
<1>1. j \in ReadJob
  BY ReadJobs DEF JobOK, Reading
<1> DEFINE k == [j EXCEPT !.op = op]
<1>2. /\ k \in ReadJob /\ k.op = op /\ k.column = j.column /\ k.first = j.first
      /\ k.last = j.last /\ k.type = j.type /\ k.values = j.values /\ k.seen = j.seen
  BY <1>1 DEF ReadJob, Reading
<1>3. k \in Job
  BY <1>2, ReadJobs
<1>4. op = "returned" => c = 0 \/ c = Done
  <2>1. Len(Rows) \in Nat /\ DOMAIN Rows = 1 .. Len(Rows)
    BY VMAssumption, LenProperties
  <2> QED
    BY <2>1 DEF Done
<1> HIDE DEF k
<1>5. JobOK(k, c)
  BY <1>2, <1>3, <1>4 DEF JobOK, Reading
<1> QED
  BY <1>5 DEF k

\* Reading a type: it is the column's in the current row, which the job has met.
LEMMA TypedColumn ==
    ASSUME NEW j, NEW c \in 0 .. Done, JobOK(j, c), j.op = "type",
           NEW t \in TypesIn(c, j.column) \ {"unknown"}
    PROVE  JobOK([j EXCEPT !.op = "value", !.type = t], c)
<1>1. j \in ReadJob
  BY ReadJobs DEF JobOK, Reading
<1>2. t \in Types
  BY <1>1, CellType DEF ReadJob
<1> DEFINE k == [j EXCEPT !.op = "value", !.type = t]
<1>3. /\ k \in ReadJob /\ k.op = "value" /\ k.column = j.column /\ k.first = j.first
      /\ k.last = j.last /\ k.type = t /\ k.values = j.values /\ k.seen = j.seen
  BY <1>1, <1>2 DEF ReadJob, Reading
<1>4. k \in Job
  BY <1>3, ReadJobs
<1> HIDE DEF k
<1>5. JobOK(k, c)
  BY <1>3, <1>4 DEF JobOK, Reading
<1> QED
  BY <1>5 DEF k

\* Reading a value: it is a column's in the current row, read through the type it had in
\* a row that came before, or this one.
LEMMA ValuedColumn ==
    ASSUME NEW j, NEW c \in 0 .. Done, JobOK(j, c), j.op = "value"
    PROVE  JobOK(Advance(j, Through(j.type, ValueIn(c, j.column))), c)
<1>1. j \in ReadJob
  BY ReadJobs DEF JobOK, Reading
<1>2. /\ j.column \in 1 .. Columns /\ j.first \in 1 .. Columns /\ j.last \in 1 .. Columns
      /\ j.type \in Types /\ j.values \in Seq(Result) /\ Columns \in Nat
  BY <1>1, VMAssumption DEF ReadJob
<1> DEFINE v == Through(j.type, ValueIn(c, j.column))
<1>3. v \in Result
  BY <1>2, CellType
<1>4. FromRows(v, j.seen, j.column)
  BY <1>2, CellType DEF JobOK, FromRows, Reading
<1> HIDE DEF v
<1> DEFINE vs == Append(j.values, v)
<1>5. /\ vs \in Seq(Result) /\ Len(vs) = Len(j.values) + 1
      /\ DOMAIN vs = 1 .. Len(j.values) + 1 /\ Len(j.values) \in Nat
      /\ \A i \in 1 .. Len(j.values) : vs[i] = j.values[i]
      /\ vs[Len(j.values) + 1] = v
  BY <1>2, <1>3, LenProperties
<1> HIDE DEF vs
<1>6. j.first + (Len(j.values) + 1) - 1 = j.column
  BY <1>2, <1>5 DEF JobOK, Reading
<1>7. \A i \in DOMAIN vs : FromRows(vs[i], j.seen, j.first + i - 1)
  <2>1. \A i \in 1 .. Len(j.values) : FromRows(j.values[i], j.seen, j.first + i - 1)
    BY <1>2, LenProperties DEF JobOK, Reading
  <2> QED
    BY <1>4, <1>5, <1>6, <2>1
<1> DEFINE k == Advance(j, v)
<1>8. /\ k.first = j.first /\ k.last = j.last /\ k.type = j.type
      /\ k.values = vs /\ k.seen = j.seen
      /\ j.column = j.last => k.op = "returned" /\ k.column = j.column
      /\ j.column # j.last => k.op = "type" /\ k.column = j.column + 1
  BY <1>1 DEF Advance, ReadJob, vs
<1>9. j.column # j.last => j.column + 1 \in 1 .. Columns /\ j.column + 1 <= j.last
  BY <1>2 DEF JobOK, Reading
<1>10. k \in ReadJob
  <2>1. CASE j.column = j.last
    BY <1>1, <1>5, <2>1 DEF Advance, ReadJob, vs
  <2>2. CASE j.column # j.last
    BY <1>1, <1>5, <1>9, <2>2 DEF Advance, ReadJob, Reading, vs
  <2> QED
    BY <2>1, <2>2
<1>11. k \in Job
  BY <1>10, ReadJobs
<1> HIDE DEF k
<1>12. \A i \in DOMAIN k.values : FromRows(k.values[i], k.seen, k.first + i - 1)
  BY <1>7, <1>8
<1>13. /\ j.first <= j.column /\ j.column <= j.last /\ Len(j.values) = j.column - j.first
       /\ c \in k.seen /\ \A q \in k.seen : q <= c
  BY <1>8 DEF JobOK, Reading
<1>14. ASSUME j.column = j.last PROVE JobOK(k, c)
  <2>1. k.op = "returned" /\ Len(k.values) = k.last - k.first + 1
    BY <1>2, <1>5, <1>8, <1>13, <1>14
  <2> QED
    BY <1>11, <1>12, <2>1 DEF JobOK, Reading
<1>15. ASSUME j.column # j.last PROVE JobOK(k, c)
  <2>1. /\ k.op = "type" /\ k.first <= k.column /\ k.column <= k.last
        /\ Len(k.values) = k.column - k.first
    BY <1>2, <1>5, <1>8, <1>9, <1>13, <1>15
  <2> QED
    BY <1>11, <1>12, <1>13, <2>1 DEF JobOK, Reading
<1>16. JobOK(k, c)
  BY <1>14, <1>15
<1> QED
  BY <1>16 DEF k, v

-----------------------------------------------------------------------------
(* Steps *)

\* There is a place behind the last row.
LEMMA DoneType == Done \in Nat /\ Done # 0 /\ DOMAIN Rows \subseteq 1 .. Done - 1
<1>1. Len(Rows) \in Nat /\ DOMAIN Rows = 1 .. Len(Rows)
  BY VMAssumption, LenProperties
<1> QED
  BY <1>1 DEF Done

\* One Task goes on, on the same row.
LEMMA OneGoesOn ==
    ASSUME JobsInv, NEW t \in Tasks, NEW j, JobOK(j, cursor), cursor' = cursor,
           job' = [job EXCEPT ![t] = j]
    PROVE  JobsInv'
<1>1. j \in Job
  BY DEF JobOK
<1>2. job' \in [Tasks -> Job]
  BY <1>1 DEF JobsInv
<1>3. \A q \in Tasks : job'[q] = IF q = t THEN j ELSE job[q]
  BY DEF JobsInv
<1> QED
  BY <1>2, <1>3 DEF JobsInv

\* The machine moves to another row, and the Task that moved it is idle.
LEMMA MachineMoves ==
    ASSUME TypeOK, JobsInv, NEW t \in Tasks, NEW d \in 0 .. Done, cursor <= d,
           cursor' = d, job' = Moved(t, d)
    PROVE  JobsInv'
<1>0. cursor \in 0 .. Done
  BY DEF TypeOK
<1>1. Idle \in Job /\ JobOK(Idle, d)
  <2>1. Idle \in Job /\ Idle.op = "idle"
    BY DEF Job, Idle
  <2> QED
    BY <2>1, OtherJobs
<1>2. ASSUME NEW q \in Tasks PROVE JobOK(job'[q], d)
  <2>1. CASE q = t
    <3>1. job'[q] = Idle
      BY <2>1 DEF Moved
    <3> QED
      BY <1>1, <3>1
  <2>2. CASE q # t /\ job[q].op \in Reading
    <3>1. job'[q] = [job[q] EXCEPT !.seen = @ \cup {d}]
      BY <2>2 DEF Moved
    <3>2. JobOK(job[q], cursor)
      BY DEF JobsInv
    <3>3. JobOK([job[q] EXCEPT !.seen = @ \cup {d}], d)
      BY <1>0, <2>2, <3>2, MeetsRow
    <3> QED
      BY <3>1, <3>3
  <2>3. CASE q # t /\ job[q].op \notin Reading
    <3>1. job'[q] = job[q]
      BY <2>3 DEF Moved
    <3>2. JobOK(job[q], cursor)
      BY DEF JobsInv
    <3> QED
      BY <2>3, <3>1, <3>2, JobElsewhere
  <2> QED
    BY <2>1, <2>2, <2>3
<1>3. \A q \in Tasks : job'[q] \in Job
  BY <1>2 DEF JobOK
<1>4. job' \in [Tasks -> Job]
  BY <1>3 DEF Moved
<1> QED
  BY <1>2, <1>4 DEF JobsInv

\* Every step keeps what the jobs are like.
LEMMA JobsStep == VMInv /\ [Next]_vars => JobsInv'
<1> SUFFICES ASSUME TypeOK, JobsInv, [Next]_vars PROVE JobsInv'
  BY DEF VMInv
<1>0. /\ cursor \in 0 .. Done /\ Columns \in Nat \ {0}
      /\ \A t \in Tasks : JobOK(job[t], cursor)
  BY VMAssumption DEF TypeOK, JobsInv
<1>i. JobOK(Idle, cursor)
  <2>1. Idle \in Job /\ Idle.op = "idle"
    BY DEF Job, Idle
  <2> QED
    BY <2>1, OtherJobs
<1>1. CASE ActorStep \/ UNCHANGED vars
  <2>1. UNCHANGED <<job, cursor>>
    BY <1>1 DEF ActorStep, Compile, CompileFails, Command, EndCommand, Disconnect,
                statement, vars
  <2> QED
    BY <2>1 DEF JobsInv
<1>2. ASSUME NEW t \in Tasks, NEW v \in Binds, NEW i \in 0 .. Params,
             Bind(t, v, i) \/ BindTraps(t, v, i)
      PROVE  JobsInv'
  <2> DEFINE j == [op |-> "bind", value |-> v, index |-> i]
  <2>1. job' = [job EXCEPT ![t] = j] /\ cursor' = cursor
    BY <1>2 DEF Bind, BindTraps, Call, statement
  <2>2. j \in Job /\ j.op = "bind"
    BY DEF Job
  <2>3. JobOK(j, cursor)
    BY <2>2, OtherJobs
  <2> HIDE DEF j
  <2> QED
    BY <2>1, <2>3, OneGoesOn
<1>3. ASSUME NEW t \in Tasks, NEW op \in {"step", "close"},
             Call(t, [op |-> op]), cursor' = cursor
      PROVE  JobsInv'
  <2> DEFINE j == [op |-> op]
  <2>1. job' = [job EXCEPT ![t] = j]
    BY <1>3 DEF Call
  <2>2. j \in Job /\ j.op = op
    BY DEF Job
  <2>3. JobOK(j, cursor)
    BY <2>2, OtherJobs
  <2> HIDE DEF j
  <2> QED
    BY <1>3, <2>1, <2>3, OneGoesOn
<1>4. ASSUME NEW t \in Tasks, Step(t) \/ Close(t) PROVE JobsInv'
  BY <1>3, <1>4 DEF Step, Close, statement
<1>5. ASSUME NEW t \in Tasks,
             EndBind(t) \/ BindFails(t) \/ EndClose(t) \/ CloseFails(t)
               \/ ReadTypeFails(t)
      PROVE  JobsInv'
  <2>1. job' = [job EXCEPT ![t] = Idle] /\ cursor' = cursor
    BY <1>5 DEF EndBind, BindFails, EndClose, CloseFails, ReadTypeFails, Looks, statement
  <2> QED
    BY <1>i, <2>1, OneGoesOn
<1>6. ASSUME NEW t \in Tasks, EndStep(t) \/ StepFails(t) PROVE JobsInv'
  <2>1. cursor' \in 0 .. Done /\ cursor <= cursor' /\ job' = Moved(t, cursor')
    BY <1>0, <1>6, DoneType DEF EndStep, StepFails
  <2> QED
    BY <2>1, MachineMoves
<1>7. ASSUME NEW t \in Tasks, GetValues(t) PROVE JobsInv'
  <2>1. job' = [job EXCEPT ![t] = Read("count", 1, Columns)] /\ cursor' = cursor
    BY <1>7 DEF GetValues, Call, LastColumn, statement
  <2>2. 1 \in 1 .. Columns /\ Columns \in 1 .. Columns /\ 1 <= Columns
    BY <1>0
  <2>3. JobOK(Read("count", 1, Columns), cursor)
    BY <2>2, BeginsToRead
  <2> QED
    BY <2>1, <2>3, OneGoesOn
<1>8. ASSUME NEW t \in Tasks, NEW c \in 1 .. Columns, GetValueAt(t, c) PROVE JobsInv'
  <2>1. job' = [job EXCEPT ![t] = Read("type", c, c)] /\ cursor' = cursor
    BY <1>8 DEF GetValueAt, Call, statement
  <2>2. JobOK(Read("type", c, c), cursor)
    BY <1>0, BeginsToRead
  <2> QED
    BY <2>1, <2>2, OneGoesOn
<1>9. ASSUME NEW t \in Tasks, CountColumns(t) PROVE JobsInv'
  <2>1. PICK op \in IF HasRow THEN {"type"} ELSE {"type", "returned"} :
          job' = [job EXCEPT ![t].op = op]
    BY <1>9 DEF CountColumns
  <2>2. /\ job[t].op = "count" /\ cursor' = cursor
        /\ op \in {"type", "returned"} /\ (op = "returned" => cursor \notin DOMAIN Rows)
        /\ job' = [job EXCEPT ![t] = [job[t] EXCEPT !.op = op]]
    BY <1>9, <2>1 DEF CountColumns, Looks, HasRow, statement
  <2>3. JobOK([job[t] EXCEPT !.op = op], cursor)
    BY <1>0, <2>2, CountedColumns
  <2> QED
    BY <2>2, <2>3, OneGoesOn
<1>10. ASSUME NEW t \in Tasks, ReadType(t) PROVE JobsInv'
  <2>1. PICK k \in TypesIn(cursor, job[t].column) \ {"unknown"} :
          job' = [job EXCEPT ![t].op = "value", ![t].type = k]
    BY <1>10 DEF ReadType
  <2>2. job[t].op = "type" /\ cursor' = cursor
    BY <1>10 DEF ReadType, Looks, statement
  <2>3. job' = [job EXCEPT ![t] = [job[t] EXCEPT !.op = "value", !.type = k]]
    BY <2>1 DEF JobsInv
  <2>4. JobOK([job[t] EXCEPT !.op = "value", !.type = k], cursor)
    BY <1>0, <2>2, TypedColumn
  <2> QED
    BY <2>2, <2>3, <2>4, OneGoesOn
<1>11. ASSUME NEW t \in Tasks, ReadValue(t) PROVE JobsInv'
  <2> DEFINE j == Advance(job[t], Through(job[t].type, ValueIn(cursor, job[t].column)))
  <2>1. job[t].op = "value" /\ cursor' = cursor /\ job' = [job EXCEPT ![t] = j]
    BY <1>11 DEF ReadValue, Looks, statement
  <2>2. JobOK(j, cursor)
    BY <1>0, <2>1, ValuedColumn
  <2> HIDE DEF j
  <2> QED
    BY <2>1, <2>2, OneGoesOn
<1>12. ASSUME NEW t \in Tasks, Misreads(t) PROVE JobsInv'
  <2>1. UNCHANGED <<job, cursor>>
    BY <1>12 DEF Misreads, statement
  <2> QED
    BY <2>1 DEF JobsInv
<1> QED
  BY <1>1, <1>2, <1>4, <1>5, <1>6, <1>7, <1>8, <1>9, <1>10, <1>11, <1>12
  DEF Next, Begin, Proceed

\* Every step keeps the parameters what they were given as.
LEMMA BoundStep == VMInv /\ [Next]_vars => BoundInv'
<1> SUFFICES ASSUME TypeOK, JobsInv, BoundInv, [Next]_vars PROVE BoundInv'
  BY DEF VMInv
<1>0. /\ bound \in [1 .. Params -> Value] /\ DOMAIN given = 1 .. Params
      /\ cursor \in 0 .. Done /\ Done \in Nat /\ Done # 0
  BY DoneType DEF TypeOK
<1>1. CASE UNCHANGED statement
  BY <1>1 DEF BoundInv, statement
<1>2. ASSUME NEW t \in Tasks, NEW i, NEW v \in Binds, Accepts(i), Assign(v, i),
             given' \in {[given EXCEPT ![i] = {v}], [given EXCEPT ![i] = @ \cup {v}]},
             UNCHANGED <<cursor, executed>>
      PROVE  BoundInv'
  <2>1. executed = {} /\ i \in 1 .. Params
    BY <1>2 DEF Accepts, BoundInv
  <2>2. Matches(AsBound(v), v)
    BY BoundType
  <2>3. /\ bound'[i] = AsBound(v) /\ v \in given'[i]
        /\ \A k \in 1 .. Params : k # i => bound'[k] = bound[k] /\ given'[k] = given[k]
    BY <1>0, <1>2, <2>1 DEF Assign
  <2>4. \A k \in 1 .. Params : \E w \in given'[k] : Matches(bound'[k], w)
    BY <2>1, <2>2, <2>3 DEF BoundInv
  <2> QED
    BY <1>2, <2>1, <2>4 DEF BoundInv
<1>3. ASSUME NEW t \in Tasks, EndBind(t) \/ BindFails(t) PROVE BoundInv'
  <2>1. job[t].op = "bind"
    BY <1>3 DEF EndBind, BindFails, Finish
  <2>2. job[t].value \in Binds
    BY <2>1 DEF JobsInv, Job, Idle, Reading
  <2>3. UNCHANGED <<cursor, executed>>
    BY <1>3 DEF EndBind, BindFails
  <2>4. CASE UNCHANGED <<bound, given>>
    BY <2>3, <2>4 DEF BoundInv
  <2>5. CASE ~ UNCHANGED <<bound, given>>
    <3>1. /\ Accepts(job[t].index) /\ Assign(job[t].value, job[t].index)
          /\ given' \in {[given EXCEPT ![job[t].index] = {job[t].value}],
                         [given EXCEPT ![job[t].index] = @ \cup {job[t].value}]}
      BY <1>3, <2>5 DEF EndBind, BindFails
    <3> QED
      BY <1>2, <2>2, <2>3, <3>1
  <2> QED
    BY <2>4, <2>5
<1>4. ASSUME NEW t \in Tasks, EndStep(t) PROVE BoundInv'
  <2>1. /\ UNCHANGED <<bound, given>> /\ cursor' # 0
        /\ executed' = IF cursor = 0 THEN {bound} ELSE executed
    BY <1>0, <1>4 DEF EndStep
  <2> QED
    BY <2>1 DEF BoundInv
<1>5. ASSUME NEW t \in Tasks, StepFails(t) PROVE BoundInv'
  BY <1>0, <1>5 DEF StepFails, BoundInv
<1>6. CASE ActorStep \/ UNCHANGED vars
  BY <1>1, <1>6 DEF ActorStep, Compile, CompileFails, Command, EndCommand, Disconnect, vars,
                    statement
<1>7. ASSUME NEW t \in Tasks, Begin(t) PROVE BoundInv'
  BY <1>1, <1>7 DEF Begin, Bind, BindTraps, Step, Close, GetValues, GetValueAt
<1>8. ASSUME NEW t \in Tasks,
             EndClose(t) \/ CloseFails(t) \/ CountColumns(t) \/ ReadType(t)
               \/ ReadTypeFails(t) \/ ReadValue(t) \/ Misreads(t)
      PROVE  BoundInv'
  BY <1>1, <1>8 DEF EndClose, CloseFails, CountColumns, ReadType, ReadTypeFails, ReadValue,
                    Misreads, Looks
<1> QED
  BY <1>3, <1>4, <1>5, <1>6, <1>7, <1>8 DEF Next, Proceed

\* Every step keeps the types.
LEMMA TypeStep == VMInv /\ [Next]_vars => TypeOK'
<1> SUFFICES ASSUME TypeOK, BoundInv, JobsInv, JobsInv', [Next]_vars PROVE TypeOK'
  BY JobsStep DEF VMInv
<1>0. /\ Actor \notin Tasks /\ MaxCalls \in Nat /\ MaxCommands \in Nat /\ MaxFaults \in Nat
      /\ Done \in Nat /\ Done # 0 /\ bound \in [1 .. Params -> Value]
  BY VMAssumption, DoneType DEF TypeOK
<1>j. \A t \in Tasks : job'[t] \in Job
  BY DEF JobsInv
<1>1. CASE UNCHANGED vars
  BY <1>1 DEF TypeOK, vars
<1>2. CASE ActorStep
  BY <1>0, <1>2, <1>j
  DEF TypeOK, ActorStep, Compile, CompileFails, Command, EndCommand, Disconnect, Enter,
      Leave, Fault, statement
<1>3. ASSUME NEW t \in Tasks, Begin(t) PROVE TypeOK'
  <2>1. /\ calls' \in 0 .. MaxCalls
        /\ inside' \subseteq Tasks \cup {Actor}
        /\ fate' \in {"running", "trapped", "raced", "freed"}
        /\ UNCHANGED <<machine, connection, statement, commands, faults>>
    BY <1>0, <1>3
    DEF TypeOK, Begin, Bind, BindTraps, Step, Close, GetValues, GetValueAt, Call, Enter
  <2> QED
    BY <1>j, <2>1 DEF TypeOK, statement
<1>4. ASSUME NEW t \in Tasks, EndBind(t) \/ BindFails(t) PROVE TypeOK'
  <2>1. /\ inside' \subseteq inside /\ faults' \in 0 .. MaxFaults
        /\ UNCHANGED <<machine, connection, fate, calls, commands, cursor, executed>>
    BY <1>0, <1>4 DEF EndBind, BindFails, Finish, Leave, Fault, TypeOK
  <2>2. job[t].value \in Binds
    <3>1. job[t].op = "bind"
      BY <1>4 DEF EndBind, BindFails, Finish
    <3> QED
      BY <3>1 DEF JobsInv, Job, Idle, Reading
  <2>3. bound' \in [1 .. Params -> Value]
        /\ given' \in [1 .. Params -> SUBSET (Binds \cup {[kind |-> "null", data |-> <<>>]})]
    <3>1. CASE UNCHANGED <<bound, given>>
      BY <3>1 DEF TypeOK
    <3>2. CASE ~ UNCHANGED <<bound, given>>
      <4> DEFINE v == job[t].value
                 i == job[t].index
                 N == [kind |-> "null", data |-> <<>>]
      <4>1. /\ i \in 1 .. Params /\ bound' = [bound EXCEPT ![i] = AsBound(v)]
            /\ given' = [given EXCEPT ![i] = {v}] \/ given' = [given EXCEPT ![i] = @ \cup {v}]
        BY <1>4, <3>2 DEF EndBind, BindFails, Accepts, Assign
      <4>2. given \in [1 .. Params -> SUBSET (Binds \cup {N})]
        BY DEF TypeOK
      <4>3. v \in Binds /\ AsBound(v) \in Value
        BY <2>2, BoundType
      <4> HIDE DEF v, i, N
      <4>4. given' \in [1 .. Params -> SUBSET (Binds \cup {N})]
        BY <4>1, <4>2, <4>3
      <4>5. bound' \in [1 .. Params -> Value]
        BY <1>0, <4>1, <4>3
      <4> QED
        BY <4>4, <4>5 DEF N
    <3> QED
      BY <3>1, <3>2
  <2> QED
    BY <1>j, <2>1, <2>3 DEF TypeOK
<1>5. ASSUME NEW t \in Tasks, EndStep(t) \/ StepFails(t) PROVE TypeOK'
  <2>1. /\ inside' \subseteq inside /\ faults' \in 0 .. MaxFaults
        /\ cursor' \in 0 .. Done
        /\ UNCHANGED <<machine, connection, fate, calls, commands, bound, given>>
    BY <1>0, <1>5 DEF EndStep, StepFails, Finish, Leave, Fault, TypeOK
  <2>2. executed' \subseteq [1 .. Params -> Value]
    BY <1>0, <1>5 DEF EndStep, StepFails, TypeOK
  <2> QED
    BY <1>j, <2>1, <2>2 DEF TypeOK
<1>6. ASSUME NEW t \in Tasks,
             EndClose(t) \/ CloseFails(t) \/ CountColumns(t) \/ ReadType(t)
               \/ ReadTypeFails(t) \/ ReadValue(t) \/ Misreads(t)
      PROVE  TypeOK'
  <2>1. /\ inside' \subseteq inside /\ faults' \in 0 .. MaxFaults
        /\ machine' \in {"none", "open", "closed"}
        /\ fate' \in {"running", "trapped", "raced", "freed"}
        /\ UNCHANGED <<connection, calls, commands, statement>>
    BY <1>0, <1>6
    DEF EndClose, CloseFails, CountColumns, ReadType, ReadTypeFails, ReadValue, Misreads,
        Looks, Finish, Leave, Fault, TypeOK
  <2> QED
    BY <1>j, <2>1 DEF TypeOK, statement
<1> QED
  BY <1>1, <1>2, <1>3, <1>4, <1>5, <1>6 DEF Next, Proceed

\* Nobody has begun anything.
LEMMA VMInit == Init => VMInv
<1> SUFFICES ASSUME Init PROVE VMInv
  OBVIOUS
<1> DEFINE N == [kind |-> "null", data |-> <<>>]
<1>1. <<>> \in Seq(Int)
  BY EmptySeq
<1>2. NoValue \in Value /\ Matches(NoValue, N)
  BY <1>1 DEF NoValue, Value, Types, Matches, TypeOf
<1>3. Idle \in Job /\ Idle.op = "idle"
  BY DEF Job, Idle
<1>4. JobsInv
  <2>1. \A t \in Tasks : job[t] = Idle
    BY DEF Init
  <2>2. job \in [Tasks -> Job]
    BY <1>3 DEF Init
  <2>3. JobOK(Idle, cursor)
    BY <1>3, OtherJobs
  <2> QED
    BY <2>1, <2>2, <2>3 DEF JobsInv
<1>5. /\ given \in [1 .. Params -> SUBSET (Binds \cup {N})]
      /\ \A i \in 1 .. Params : N \in given[i] /\ bound[i] = NoValue
  BY DEF Init
<1>6. BoundInv
  BY <1>2, <1>5 DEF Init, BoundInv
<1>7. TypeOK
  BY <1>2, <1>3, <1>5, DoneType, VMAssumption DEF Init, TypeOK
<1> QED
  BY <1>4, <1>6, <1>7 DEF VMInv

-----------------------------------------------------------------------------
(* What holds of a statement *)

\* Types, jobs and parameters are what they should be at every moment.
THEOREM VMInvariant == Spec => []VMInv
<1>1. VMInv /\ [Next]_vars => VMInv'
  BY JobsStep, BoundStep, TypeStep DEF VMInv
<1> QED
  BY <1>1, VMInit, PTL DEF Spec

\* The type invariant: no method asks for a column the row does not have (getValues).
THEOREM VMTypeCorrect == Spec => []TypeOK
BY VMInvariant, PTL DEF VMInv

\* getValues and getValueAt return values of rows the machine was on during the call,
\* however steps of other Tasks fall between their reads.
THEOREM ValuesAreOfCurrentRows == Spec => []ValuesOfCurrentRows
<1>1. VMInv => ValuesOfCurrentRows
  <2> SUFFICES ASSUME JobsInv, NEW t \in Tasks, job[t].op = "returned"
               PROVE  /\ \A i \in DOMAIN job[t].values :
                           FromRows(job[t].values[i], job[t].seen, job[t].first + i - 1)
                      /\ 0 \notin job[t].seen /\ Done \notin job[t].seen
                           => Len(job[t].values) = job[t].last - job[t].first + 1
    BY DEF VMInv, ValuesOfCurrentRows, FromRows, Cell
  <2> QED
    BY DEF JobsInv, JobOK
<1> QED
  BY <1>1, VMInvariant, PTL

\* The statement runs with the values bindValue was given.
THEOREM RunsAsGiven == Spec => []ParametersAsGiven
<1>1. VMInv => ParametersAsGiven
  BY DEF VMInv, BoundInv, Matches, ParametersAsGiven
<1> QED
  BY <1>1, VMInvariant, PTL
=============================================================================
