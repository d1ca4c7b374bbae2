---------------------------------- MODULE VM ----------------------------------
(***************************************************************************)
(* A compiled statement, SQLiteCloudVM (Core/SQLiteCloudVM.swift), with    *)
(* the method compile of the actor that makes it.                          *)
(*                                                                         *)
(* The actor isolates none of the class's methods: several Tasks may run   *)
(* them at once, and while the actor executes a command or disconnects on  *)
(* the connection the statement was compiled on.  bindValue, step and      *)
(* close are round trips to the server, with a begin and an end; the       *)
(* functions that look at the current row are local and short, and         *)
(* getValues calls two of them per column, with other Tasks in between.    *)
(* libsqcloud has no lock that this code knows of: two round trips at once *)
(* on one connection, a look at the row during a round trip of its machine *)
(* and the use of a freed machine or connection are undefined behaviour,   *)
(* after which the model says nothing (fate).                              *)
(*                                                                         *)
(* Abstracted: a value is its SQLite type and a sequence of numbers (one   *)
(* number, or characters, of which 0 is NUL); a value read through the     *)
(* accessor of a type is the pair of both; the methods that neither change *)
(* the statement nor read its row (changes, isReadOnly, columnName, ...).  *)
(***************************************************************************)
EXTENDS CStrings

CONSTANTS
    Tasks,        \* the Tasks that share the SQLiteCloudVM object
    Actor,        \* the actor SQLiteCloud
    Rows,         \* the statement's result: a sequence of rows of values
    Columns,      \* values in a row
    Params,       \* parameters of the statement
    Binds,        \* the SQLiteCloudVMValues the application binds: kind and data
    Int32Max,     \* the largest number an Int32 holds
    MaxCalls,     \* bound: methods the Tasks call
    MaxCommands,  \* bound: commands the actor executes
    MaxFaults     \* bound: C calls that fail

Types == {"integer", "float", "text", "blob", "null"}
Value == [type : Types, data : Seq(Int)]
NoValue == [type |-> "null", data |-> <<>>]

\* The SQLite type of each case of SQLiteCloudVMValue.
TypeOf == [integer |-> "integer", integer64 |-> "integer", double |-> "float",
           string |-> "text", blob |-> "blob", blobZero |-> "blob", null |-> "null"]

ASSUME VMAssumption ==
    /\ Actor \notin Tasks
    /\ Columns \in Nat \ {0} /\ Params \in Nat
    /\ Rows \in Seq([1 .. Columns -> Value])
    /\ \A v \in Binds :
         /\ v.kind \in DOMAIN TypeOf /\ v.data \in Seq(Int)
         /\ v.kind \in {"null", "blobZero"} => v.data = <<>>
    /\ Int32Max \in Nat
    /\ MaxCalls \in Nat /\ MaxCommands \in Nat /\ MaxFaults \in Nat

VARIABLES
    machine,     \* the SQCloudVM: "none", "open" or "closed" (freed)
    connection,  \* the actor's SQCloudConnection: "open" or "closed" (freed)
    inside,      \* Tasks, and the actor, that are inside a round trip
    job,         \* what each Task does, and the locals of its method
    cursor,      \* 0, the row the machine is on, or Done
    bound,       \* the parameters on the server
    executed,    \* {}, or the parameters the statement ran with
    fate,        \* "running", or how the program left defined behaviour
    calls,       \* methods the Tasks called
    commands,    \* commands the actor executed
    faults,      \* C calls that failed
    given        \* history: for each parameter, the values of which one is bound

vars == <<machine, connection, inside, job, cursor, bound, executed, fate, calls,
          commands, faults, given>>
statement == <<cursor, bound, executed, given>>

-----------------------------------------------------------------------------

Done == Len(Rows) + 1
HasRow == cursor \in DOMAIN Rows
Fault == faults < MaxFaults /\ faults' = faults + 1

Int32 == -Int32Max - 1 .. Int32Max

\* Int32(int) of a number too large, and the address of a Data that is empty.
Traps(v)   == v.kind = "integer" /\ v.data[1] \notin Int32
MayTrap(v) == Traps(v) \/ (v.kind = "blob" /\ v.data = <<>>)

\* Defective variant of AsBound: Int32(truncatingIfNeeded:) of every integer.
AsBoundTruncated(v) ==
    [type |-> TypeOf[v.kind],
     data |-> IF TypeOf[v.kind] = "integer"
              THEN <<((v.data[1] + Int32Max + 1) % (2 * Int32Max + 2)) - Int32Max - 1>>
              ELSE v.data]

\* What the bind function of the value's kind hands to the machine.
AsBound(v) ==
    [type |-> TypeOf[v.kind],
     data |-> CASE v.kind = "string"             -> CutAtNul(v.data)
                [] v.kind \in {"blobZero", "null"} -> <<>>
                [] OTHER                          -> v.data]

\* What the accessor of type k returns for a value.
Through(k, v) ==
    [as |-> k, of |-> CASE k = "null" -> NoValue
                        [] k = "text" -> [v EXCEPT !.data = CutAtNul(@)]
                        [] OTHER      -> v]

Idle == [op |-> "idle"]
Reading == {"count", "type", "value"}

\* A method of t that reads the columns from first to last.
Read(op, first, last) ==
    [op |-> op, column |-> first, first |-> first, last |-> last, type |-> "null",
     values |-> <<>>, seen |-> {cursor}]

Init ==
    /\ machine = "none" /\ connection = "open"
    /\ inside = {}
    /\ job = [t \in Tasks |-> Idle]
    /\ cursor = 0
    /\ bound = [i \in 1 .. Params |-> NoValue]
    /\ executed = {}
    /\ fate = "running"
    /\ calls = 0 /\ commands = 0 /\ faults = 0
    /\ given = [i \in 1 .. Params |-> {[kind |-> "null", data |-> <<>>]}]

-----------------------------------------------------------------------------
(* The actor *)

\* compile(query:): the machine belongs to the connection.
Compile ==
    /\ fate = "running" /\ Actor \notin inside
    /\ machine = "none" /\ connection = "open"
    /\ machine' = "open"
    /\ UNCHANGED <<connection, inside, job, statement, fate, calls, commands, faults>>

\* SQCloudVMCompile gives no machine: compile throws.
CompileFails ==
    /\ fate = "running" /\ Actor \notin inside
    /\ machine = "none" /\ connection = "open"
    /\ Fault
    /\ UNCHANGED <<machine, connection, inside, job, statement, fate, calls, commands>>

\* p begins a round trip on the connection.
Enter(p) ==
    /\ inside' = inside \cup {p}
    /\ fate' = IF inside # {} THEN "raced"
               ELSE IF p # Actor /\ "closed" \in {machine, connection} THEN "freed"
               ELSE fate

Leave(p) == p \in inside /\ inside' = inside \ {p}

\* exec, or any other operation of the actor on its connection.
Command ==
    /\ fate = "running" /\ Actor \notin inside
    /\ connection = "open"
    /\ commands < MaxCommands /\ commands' = commands + 1
    /\ Enter(Actor)
    /\ UNCHANGED <<machine, connection, job, statement, calls, faults>>

EndCommand ==
    /\ fate = "running"
    /\ Leave(Actor)
    /\ UNCHANGED <<machine, connection, job, statement, fate, calls, commands, faults>>

\* disconnect() frees the connection, not the machines compiled on it.
Disconnect ==
    /\ fate = "running" /\ Actor \notin inside
    /\ connection = "open"
    /\ connection' = "closed"
    /\ fate' = IF inside # {} THEN "freed" ELSE fate
    /\ UNCHANGED <<machine, inside, job, statement, calls, commands, faults>>

-----------------------------------------------------------------------------
(* bindValue, step and close *)

\* t calls a method, whose locals are j.
Call(t, j) ==
    /\ fate = "running" /\ machine # "none"
    /\ job[t].op \in {"idle", "returned"}
    /\ calls < MaxCalls /\ calls' = calls + 1
    /\ job' = [job EXCEPT ![t] = j]

Bind(t, v, i) ==
    /\ ~Traps(v)
    /\ Call(t, [op |-> "bind", value |-> v, index |-> i])
    /\ Enter(t)
    /\ UNCHANGED <<machine, connection, statement, commands, faults>>

BindTraps(t, v, i) ==
    /\ MayTrap(v)
    /\ Call(t, [op |-> "bind", value |-> v, index |-> i])
    /\ fate' = "trapped"
    /\ UNCHANGED <<machine, connection, inside, statement, commands, faults>>

\* The method of t, inside its round trip, returns or throws.
Finish(t, op) ==
    /\ fate = "running"
    /\ job[t].op = op
    /\ Leave(t)
    /\ UNCHANGED <<connection, fate, calls, commands>>

\* The machine takes a parameter it has, before it runs.
Accepts(i) == i \in 1 .. Params /\ cursor = 0

\* The value replaces what was bound at its index.
Assign(v, i) == bound' = [bound EXCEPT ![i] = AsBound(v)]

\* It returns true.
EndBind(t) ==
    /\ Finish(t, "bind")
    /\ LET v == job[t].value
           i == job[t].index
       IN /\ Accepts(i)
          /\ Assign(v, i)
          /\ given' = [given EXCEPT ![i] = {v}]
    /\ job' = [job EXCEPT ![t] = Idle]
    /\ UNCHANGED <<machine, cursor, executed, faults>>

\* It returns false: refused, or failed before or after the server did it.
BindFails(t) ==
    /\ Finish(t, "bind")
    /\ LET v == job[t].value
           i == job[t].index
       IN \/ ~Accepts(i) /\ UNCHANGED <<bound, given, faults>>
          \/ Fault /\ UNCHANGED <<bound, given>>
          \/ /\ Fault /\ Accepts(i)
             /\ Assign(v, i)
             /\ given' = [given EXCEPT ![i] = @ \cup {v}]
    /\ job' = [job EXCEPT ![t] = Idle]
    /\ UNCHANGED <<machine, cursor, executed>>

Step(t) ==
    /\ Call(t, [op |-> "step"])
    /\ Enter(t)
    /\ UNCHANGED <<machine, connection, statement, commands, faults>>

\* t is idle again, and the Tasks that are reading meet row c from now on.
Moved(t, c) ==
    [q \in Tasks |-> IF q = t THEN Idle
                     ELSE IF job[q].op \in Reading
                          THEN [job[q] EXCEPT !.seen = @ \cup {c}]
                     ELSE job[q]]

\* RESULT_ROWSET or RESULT_OK, which step() does not tell apart: the next row, if
\* there is one.  The first step runs the statement.
EndStep(t) ==
    /\ Finish(t, "step")
    /\ cursor' = IF cursor = Done THEN Done ELSE cursor + 1
    /\ executed' = IF cursor = 0 THEN {bound} ELSE executed
    /\ job' = Moved(t, cursor')
    /\ UNCHANGED <<machine, bound, given, faults>>

\* RESULT_ERROR: the row stays, or there is none any more.
StepFails(t) ==
    /\ Finish(t, "step")
    /\ Fault
    /\ cursor' \in {cursor, Done}
    /\ job' = Moved(t, cursor')
    /\ UNCHANGED <<machine, bound, executed, given>>

Close(t) ==
    /\ Call(t, [op |-> "close"])
    /\ Enter(t)
    /\ UNCHANGED <<machine, connection, statement, commands, faults>>

\* SQCloudVMClose frees the machine; the object keeps its pointer.
EndClose(t) ==
    /\ Finish(t, "close")
    /\ machine' = "closed"
    /\ job' = [job EXCEPT ![t] = Idle]
    /\ UNCHANGED <<statement, faults>>

CloseFails(t) ==
    /\ Finish(t, "close")
    /\ Fault
    /\ job' = [job EXCEPT ![t] = Idle]
    /\ UNCHANGED <<machine, statement>>

-----------------------------------------------------------------------------
(* getValues and getValueAt *)

\* Defective variant of LastColumn: for index in 0...columnCount
LastColumnAndOne == Columns + 1

\* for index in 0..<columnCount; the model counts columns from one.
LastColumn == Columns

GetValues(t) ==
    /\ Call(t, Read("count", 1, LastColumn))
    /\ UNCHANGED <<machine, connection, inside, statement, fate, commands, faults>>

GetValueAt(t, c) ==
    /\ Call(t, Read("type", c, c))
    /\ UNCHANGED <<machine, connection, inside, statement, fate, commands, faults>>

\* A local function finds the machine there, and no Task in a round trip of it.
Looks(t, op) ==
    /\ fate = "running"
    /\ job[t].op = op
    /\ machine = "open" /\ inside \cap Tasks = {}
    /\ UNCHANGED <<machine, connection, inside, statement, fate, calls, commands, faults>>

Misreads(t) ==
    /\ fate = "running"
    /\ job[t].op \in Reading
    /\ machine = "closed" \/ inside \cap Tasks # {}
    /\ fate' = IF machine = "closed" THEN "freed" ELSE "raced"
    /\ UNCHANGED <<machine, connection, inside, job, statement, calls, commands, faults>>

\* Without a row the machine has no result, whose columns it could count, or an empty one.
CountColumns(t) ==
    /\ Looks(t, "count")
    /\ \E op \in IF HasRow THEN {"type"} ELSE {"type", "returned"} :
         job' = [job EXCEPT ![t].op = op]

\* The type a column has in row r, or, where there is none, "null" or no known type.
TypesIn(r, c) ==
    IF r \in DOMAIN Rows /\ c \in 1 .. Columns THEN {Rows[r][c].type}
    ELSE {"null", "unknown"}

\* columnType(index:)
ReadType(t) ==
    /\ Looks(t, "type")
    /\ \E k \in TypesIn(cursor, job[t].column) \ {"unknown"} :
         job' = [job EXCEPT ![t].op = "value", ![t].type = k]

\* No case of SQLiteCloudValueType fits: unsupportedResultType is thrown.
ReadTypeFails(t) ==
    /\ Looks(t, "type")
    /\ "unknown" \in TypesIn(cursor, job[t].column)
    /\ job' = [job EXCEPT ![t] = Idle]

\* Defective variant of ValueIn: the accessors count columns from one.
ValueInFromOne(r, c) ==
    IF r \in DOMAIN Rows /\ c + 1 \in 1 .. Columns THEN Rows[r][c + 1] ELSE NoValue

ValueIn(r, c) ==
    IF r \in DOMAIN Rows /\ c \in 1 .. Columns THEN Rows[r][c] ELSE NoValue

\* Defective variant of Advance: the loop stays at its column.
AdvanceNever(j, v) == [j EXCEPT !.op = "type"]

\* rows.append(value), and on to the next column or the end.
Advance(j, v) ==
    IF j.column = j.last
    THEN [j EXCEPT !.op = "returned", !.values = Append(@, v)]
    ELSE [j EXCEPT !.op = "type", !.values = Append(@, v), !.column = @ + 1]

\* The accessor of the type that was read.
ReadValue(t) ==
    /\ Looks(t, "value")
    /\ job' = [job EXCEPT ![t] =
                  Advance(@, Through(@.type, ValueIn(cursor, @.column)))]

-----------------------------------------------------------------------------

ActorStep == Compile \/ CompileFails \/ Command \/ EndCommand \/ Disconnect

Begin(t) ==
    \/ \E v \in Binds, i \in 0 .. Params : Bind(t, v, i) \/ BindTraps(t, v, i)
    \/ Step(t) \/ Close(t) \/ GetValues(t)
    \/ \E c \in 1 .. Columns : GetValueAt(t, c)

Proceed(t) ==
    \/ EndBind(t) \/ BindFails(t) \/ EndStep(t) \/ StepFails(t) \/ EndClose(t)
    \/ CloseFails(t) \/ CountColumns(t) \/ ReadType(t) \/ ReadTypeFails(t)
    \/ ReadValue(t) \/ Misreads(t)

Next == ActorStep \/ \E t \in Tasks : Begin(t) \/ Proceed(t)

Spec == Init /\ [][Next]_vars
\* C calls return, and the executor runs every Task; nothing has to fail.
FairSpec == Spec /\ \A t \in Tasks : WF_vars(Proceed(t) /\ UNCHANGED faults)

-----------------------------------------------------------------------------
(* Properties *)

Job ==
    {Idle} \cup [op : {"step", "close"}]
    \cup [op : {"bind"}, value : Binds, index : 0 .. Params]
    \cup [op : Reading \cup {"returned"}, column : 1 .. Columns, first : 1 .. Columns,
          last : 1 .. Columns, type : Types,
          values : Seq([as : Types, of : Value]), seen : SUBSET (0 .. Done)]

\* The type invariant; getValues asks for no column the row does not have.
TypeOK ==
    /\ machine \in {"none", "open", "closed"}
    /\ connection \in {"open", "closed"}
    /\ inside \subseteq Tasks \cup {Actor}
    /\ \A t \in Tasks : job[t] \in Job
    /\ cursor \in 0 .. Done
    /\ bound \in [1 .. Params -> Value]
    /\ executed \subseteq [1 .. Params -> Value]
    /\ fate \in {"running", "trapped", "raced", "freed"}
    /\ calls \in 0 .. MaxCalls /\ commands \in 0 .. MaxCommands
    /\ faults \in 0 .. MaxFaults
    /\ given \in [1 .. Params -> SUBSET (Binds \cup {[kind |-> "null", data |-> <<>>]})]

\* However the steps of other Tasks fall between its reads, every value getValues and
\* getValueAt return is a column of a row the machine was on during the call, read
\* through the accessor of the type that the column had in the same or an earlier such
\* row: a call that no other Task's step falls into returns its row, whole.
ValuesOfCurrentRows ==
    \A t \in Tasks : job[t].op = "returned" =>
        LET j == job[t]
            Column(i) == j.first + i - 1
            Cell(r, i) == IF r \in DOMAIN Rows THEN Rows[r][Column(i)] ELSE NoValue
        IN /\ \A i \in DOMAIN j.values : \E q, r \in j.seen :
                /\ q <= r
                /\ \E k \in Types \cap TypesIn(q, Column(i)) :
                     j.values[i] = Through(k, Cell(r, i))
           /\ 0 \notin j.seen /\ Done \notin j.seen
                => Len(j.values) = j.last - j.first + 1

\* The statement runs with the values that bindValue was given last and reported as
\* bound (or of which it could not know), whichever Task bound them: each at its index,
\* of its type, numbers whole and texts up to a NUL, and null where nothing was bound.
ParametersAsGiven ==
    \A e \in executed : \A i \in 1 .. Params :
        \E v \in given[i] :
            /\ e[i].type = TypeOf[v.kind]
            /\ e[i].data = (IF TypeOf[v.kind] = "text" THEN CutAtNul(v.data) ELSE v.data)

\* Every method returns or throws, unless the program left defined behaviour.
MethodsReturn ==
    \A t \in Tasks :
        job[t].op \notin {"idle", "returned"}
            ~> (job[t].op \in {"idle", "returned"} \/ fate # "running")

-----------------------------------------------------------------------------
(* A claim of the documentation that the code does not keep *)

\* "it should not be accessed directly from outside the SQLiteCloud actor" (connection):
\* while the actor or a Task is in a round trip on the connection, nobody else is.
ConnectionIsExclusive == \A p, q \in inside : p = q
=============================================================================
