# A verification project for sqlitecloud-swift

TLA+ models of the Swift client for SQLite Cloud, the TLC configurations that
check them on small instances, and TLAPS proofs of every invariant they check, for
every value of the constants. Paths below are relative to `src/Sources/SQLiteCloud/`; every definition is mapped to
source lines in `PROJECT.json`.

## 1. Inventory

The package is one public actor, `SQLiteCloud`, over a binary C library,
libsqcloud. Everything a connection does runs on the actor; none of its methods
suspends in its body, so each is one uninterrupted job. What is concurrent lies
around it: application threads that release objects, one pub/sub thread per C
connection, the unordered Tasks both of them spawn, the server, other clients
of the server and other processes that use the same files.

| Component | State | Operations | What is hard |
|---|---|---|---|
| Connection lifecycle, `Core/SQLiteCloud.swift` 325-423 | `connection`, `isConnected`, the C connection objects | `connect`, `disconnect`, `getClientUUID` | three outcomes of connect, connecting twice, a connection that ends by itself, what survives a disconnect |
| Pub/Sub, `Core/SQLiteCloud.swift` 158-173, 218-225, 738-758, `Helpers/SQLiteCloudSubscription.swift`, `Observing/*` | `channels` (a counter per channel), weak observers, what the server has registered | `listen`, dropping a `Disposable`, the Task of `deinit`, the C callback, `listener`, `notify`, `create` | counters kept by objects that die on any thread, at any time, also in the middle of a delivery; Tasks that run on a later connection; failing commands |
| Commands, `Core/SQLiteCloud.swift` 175-216, `Helpers/CHelpers.swift`, `Core/SQLiteCloudValue.swift` | none between calls | `exec` | parameters laid out in four C arrays that have to agree |
| Result parsing, `Parsing/ResultParser.swift` | none | `parse` | lengths and NULs, one bad value among good ones |
| BLOBs, `Core/SQLiteCloud.swift` 227-274, 932-1145, `Helpers/SQLiteCloudBlobReader.swift`, `...BlobWriter.swift` | a server-side handle, the position in rows and bytes | `sizeInBytes`, `read`, `update` | a round trip per chunk, other clients between two chunks, failure of any of them, the expansion of a BLOB that is too small |
| Upload and download, `Core/SQLiteCloud.swift` 790-898, `Helpers/UploadHelper.swift`, `DownloadHelper.swift` | a helper with a file stream, owned by hand across the C boundary | `upload`, `download` | use after free and leak, short reads and writes, files that change |
| Virtual machine, `Core/SQLiteCloudVM.swift`, `Core/SQLiteCloud.swift` 1176-1193 | the C pointer `vm`; behind it a cursor and the bound parameters | `compile`, `bindValue`, `step`, `getValues`, `getValueAt`, `close` | methods that no actor isolates: they meet each other and the commands and the disconnect of the actor; a row read column by column; values converted to what C takes |
| Configuration, `Core/SQLiteCloudConfig*.swift`, `Parsing/UrlParser.swift` | none after init | connection strings, `sqConfig` | which of several settings wins, what happens to a value of the wrong type or size |
| Errors, logging, provider protocol | none | | wording and declarations |
| libsqcloud, the server | external | | modelled as the Swift code uses them |

Interactions: `listen` calls `exec` (LISTEN) and hands the application a
`Disposable`; its `deinit` spawns a Task that comes back to the actor
(`change`), which calls `exec` (UNLISTEN). libsqcloud calls the Pub/Sub callback
on a thread of its own; the callback spawns a Task that runs `listener`, which
calls the application's callbacks through `Observation.apply`. `update` calls
`exec` (an UPDATE statement) while it holds a BLOB handle. Uploads and downloads
are driven by callbacks of libsqcloud.

What makes the components correct:

- Pub/Sub: a counter is the number of subscriptions it stands for; a live
  subscription is registered on the server once its channel was listened to on the
  connection, and nothing else is; a notification reaches each subscriber once; what is dropped is eventually settled.
- BLOBs: a read is one version of each BLOB; an update writes its rows in order
  and touches nothing else; the handle is closed on every way out; every call
  ends; an update only throws for a cause.
- Upload and download: the helper lives as long as callbacks need it and no
  longer; a success is complete.
- Commands: what goes in as a parameter arrives, and comes back as it was.
- Virtual machine: a statement runs with the values it was given; values come
  from rows the machine was on; one user of the connection at a time (which the
  code does not ensure); every method returns.
- Configuration: what the application says reaches libsqcloud whole, and one
  kind of credentials only.

## 2. Modules

| Module | Models | Abstracts |
|---|---|---|
| `SubscriptionRegistry` | the abstract specification of Pub/Sub: a set of members per channel, registered from the first join to the last leave | counters, object lifetimes, Tasks |
| `PubSub` | connection lifecycle, subscriptions, notifications | payloads (topic and decodability remain), command texts, logging |
| `RowUpdates` | the abstract specification of an update: rows in order, their bytes in order, room before the first one | handles, chunks, files, which call failed |
| `Blob` | one call of `sizeInBytes`, `read` or `update` with other clients | byte values (a byte is its origin and its position: old, new, another client's, the destination file's, or zero), progress handlers |
| `Transfer` | one `upload` or `download` with its helper | bytes are counted; order is kept by stream and socket |
| `Execute` | one `exec` of a query with parameters, and `ResultParser` | the query, number values, column names, non-ASCII text |
| `VM` | one compiled statement, the tasks that share it, the actor next to them | a value is its type and some numbers; methods that neither change the statement nor read its row |
| `Config` | from a connection string or an initializer to the C structure | texts are atoms of which only the number or truth value they spell is known; what Foundation makes of a URL |
| `CStrings` | what `Execute`, `VM` and `Config` make of strings: `strlen`, running totals, joins | |
| `PubSub_proofs` | proofs about `PubSub`: counters, registrations, refinement, sessions and deliveries | |
| `Blob_proofs`, `BlobUpdate_proofs` | proofs about `Blob`: types, handle, reads; updates | |
| `CStrings_proofs` | lemmas about `CStrings`, cited by the next three | |
| `Execute_proofs`, `VM_proofs`, `Config_proofs`, `Transfer_proofs` | proofs about these modules | |
| `MC_*` | instances for TLC | |

Definitions named "Defective variant of ..." are not part of a specification:
each is the definition below it with a plausible bug, kept to show that the
properties notice it (`mutants` in `PROJECT.json`).

### PubSub

| Variable or action | Code |
|---|---|
| `connection`, `isConnected`, `channels` | the fields of the actor |
| `connState` | the lifetime of each `SQCloudConnection` object |
| `ConnectionLost` | the network or the server ends a connection: nothing tells the actor, so `connection` and `isConnected` stay, `exec` fails from then on and the server forgets its registrations |
| `held`, `subState`, `Released` | ARC: the application retains the `Disposable` (`held`), a delivery retains the observers it found (`snapshot`); when neither does, `deinit` runs and the state goes from `live` to `dropped` |
| `Unsubscribe`, `UnsubscribeLast`, `UnsubscribeLastFails` | the Task of `deinit` runs `onUnsubscribe` and `change`: the counter, then UNLISTEN if it is zero and `exec` can send it |
| `serverListens`, `wire`, `tasks` | what the server has each connection registered for, notifications on the way, Tasks the callback spawned |
| `StartListener`, `InvokeCallback`, `EndListener` | `listener` and `Observation.apply`, the one actor method that is split, since application code runs inside and other threads release subscriptions meanwhile |
| `readonly` | `config.isReadonlyConnection`: `SQCloudSetPubSubOnly` closes the main socket and no command can be sent |

UNLISTEN only carries a name (`Core/SQLiteCloudCommand.swift` 229-261): it ends
the registration of the channel and of the table of that name. `.allTables` is a
channel of the name `Wildcard`, `*`: `Covers` says that its registration is about the
writes to all tables (`listen`, 705-707), each of which names its table, and
`Matching` compares that name with the channel's. The server's rules are external:
a repeated LISTEN does nothing, a connection that ends is registered for nothing, and
one that is registered for a table and for all of them is sent a write once. The `SQLiteCloud` object outlives the behaviour.

### Blob, Transfer, Execute

One call is one behaviour, because the actor runs one at a time. In `Blob` the
program counter follows the code from `getBlobHandler` over each row (`reopen`,
chunks, or the size check, the expansion, and the second reopening whose result
is ignored) to the `defer` that closes the handle; `Fault` stands for any C call
that fails, before or after the server did its part, and `OtherChange` for
another client between two calls. A read goes to memory or onto the end of the
file that is there (`target`), and `ReadShort` is the write to it that takes fewer
bytes, which the code does not look at. In `Transfer`, `local` and `handed` are
the two references to the helper: ARC may drop the first any time after its last
use, only the callback releases the second, and the C library's loop decides
whether there is another callback, and whether a download's has a buffer
(`BufferMissing`: it returns without releasing anything). In `Execute`, `Marshalled` builds the buffer,
the pointers, the lengths and the types, `Read` takes them apart the way
libsqcloud does, and `Parsed` is `ResultParser`: the answer has rows of the
values that were sent, in either order, or with one of an unknown type.

### VM

`job[t]` is the method task `t` is in, with its locals. `bindValue`, `step` and
`close` begin a round trip (`inside`) and end it; `getValues` is a loop over
`CountColumns`, `ReadType` and `ReadValue`, between which other tasks run. `cursor`
and `bound` are the machine's state behind the pointer. `fate` says how a
behaviour left what C defines: `raced` (two round trips at once on one
connection, or a row read during a round trip of its machine), `freed` (a machine
or connection used after it was closed) or `trapped` (`Int32(int)`, the base
address of an empty `Data`); the model says nothing of what follows. `seen` is a
history: the rows the machine was on during a read.

### Config

One behaviour takes a connection string, already taken apart by Foundation, or a
configuration made by hand, to `config` and on to the C structure `handed`. A
Swift optional is a set of at most one element. `Parse`, `ParseFails` and `Configure`
are the initializers, `Connect` and `ConnectTraps` the conversion that `connect`
makes, in which `Int32()` traps on what does not fit.

## 3. Checks

| Run | Instance | Shows |
|---|---|---|
| `pubsub` | 2 connections, 2 subscriptions, a channel and a table with names of their own and all tables, 2 notifications about that channel or table, of which one cannot be decoded, 1 failing command or lost connection; the application disconnects before it connects again | `TypeOK`, `CountIsSubscribers`, `LiveIsListened`, `ListenedIsCounted`, `OneSession`, `AtMostOnce`, `OnlyOwnTopic`, and `RegistrySpec`: the module implements `SubscriptionRegistry` |
| `pubsub_live` | the same with 1 notification and no failure, with overlapping connections and fairness | `DroppedIsSettled`, `SentIsDelivered` |
| `blob` | up to 2 rows, BLOBs and data of 0, 1 and 3 bytes, chunks of 2 above a threshold of 1, from and to memory and files, 1 failure, 1 change by another client | `TypeOK`, `RowsInOrder`, `ReadIsSnapshot`, `UpdateThrowsForACause`, `HandleIsClosed`, `Returns`, `NoStepBack`, and `UpdateSpec`: the module implements `RowUpdates` |
| `transfer` | up to 5 bytes in buffers of 2, 2 failures, 2 changes of the file | `TypeOK`, `HelperAliveInCallback`, `HelperFreed`, `SuccessIsComplete` |
| `execute` | all lists of up to 3 parameters of every kind, empty ones and ones with a NUL, every result type, up to 2 rows | `TypeOK`, `ParametersArrive`, `RoundTrip` |
| `vm` | 2 tasks, 3 calls, 1 command of the actor and its disconnect, 2 rows of 2 columns whose types differ, 1 parameter, 5 values at the edges, 1 failure | `TypeOK`, `ValuesOfCurrentRows`, `ParametersAsGiven`, `MethodsReturn` |
| `config` | strings with up to 2 query items out of 6 names and 7 values, with and without host, user, password and port; 24 configurations made by hand; Int32 up to 3, Int up to 20 | `TypeOK`, `CredentialsExclusive`, `NothingIsCut`, `SettingsArrive` |

Why the bounds are enough: with two connections there is an old and a new one,
which is what a late Task or a late notification can confuse; two subscriptions
can share a channel or not, and leave in either order, before, during and after
a delivery; one failing command is enough because the properties that allow for
failures (`faulted`) do so per topic. Three bytes in chunks of two give a whole
chunk and a shorter last one, two rows give a first and a later one; a second
failure never happens in a BLOB call, because the first one ends it (a failed
reopening after an expansion makes the next write fail by itself). Three
parameters give one between two others. Three calls are a step, a read and
whatever another task does between its columns, or a bind, a step and a third;
two rows have a first, a next and an end. Of two query items one can repeat,
contradict or leave alone the other. Connections and subscriptions are
interchangeable, and `pubsub` uses that as a symmetry; the run of the liveness
properties does not. Deadlock is not checked: calls end, and the application,
the notifications and the connections of an instance run out.

Bounds in the models: `MaxFaults`, `MaxOthers`, `MaxSize`, `MaxResizes`, `MaxCalls`,
`MaxCommands`, and the sizes of the constant sets.

What some properties say by their form: `RowsInOrder` is exact (the BLOB of the
current row is the old one with exactly the first `offset` bytes written, over
zeros where it had to grow), so data shorter than a BLOB leave its tail, which is
what the code does. `OneSession` and `AtMostOnce` are about applications that
disconnect first (`MayOverlap = FALSE`); a second `connect` forgets an open
connection, whose thread goes on delivering. `OnlyOwnTopic` and `LiveIsListened`
are about channels whose name no other channel has: with `.name(x)` and `.table(x)`
in use at once, UNLISTEN ends both and the listener calls both. For `OnlyOwnTopic` a
table the application is told about through `.allTables` counts, too: a write to `x`
calls the subscribers of `.name(x)` (`OwnName`). `SentIsDelivered` is about
subscriptions to the channel or table itself, `AllTablesAreHeard` about those to all.

`disconnect` keeps counters and observers, and `connect` sends no LISTEN: after a
reconnection the subscriptions of the earlier session are alive and counted, and the
server sends them nothing until one `listen` to their channel registers it again for
all of them. `LiveIsListened` says from when on they are registered and that no Task
ends it; whether `connect` should register them is left open by the documentation of
`channels` and `listen` (`Core/SQLiteCloud.swift` 87-95, 735-737).

### Where code and documentation disagree

| Run | Property | What happens |
|---|---|---|
| `pubsub_all_tables` | `AllTablesAreHeard` | a subscription of `.allTables` is registered as `*`, the client receives every write, and the listener drops it: it looks for subscriptions named like the table that was written |
| `blob_schema` | `OtherSchemasUntouched` | the statement that expands a BLOB does not name its schema: the row of the default database is zeroed |
| `blob_skipped` | `FailureThrows` | a file stream that does not open ends the row without an error and without data |
| `execute_null` | `EveryValueArrives` | a null parameter moves the strings behind it one place forward, under another parameter's type and length |
| `vm_race` | `ConnectionIsExclusive` | a method of a statement uses the actor's connection while the actor, or another task, is in a round trip on it |

The quotations and the lines are in `findings` of `PROJECT.json`.

### Fairness

- `WF(Receive)`: a pub/sub thread reads its socket in a loop. `WF(InvokeCallback)`,
  `WF(EndListener)`: the application's callbacks return, and nothing else can use
  the actor meanwhile.
- `SF` for the Tasks on the actor (`StartListener` or `ListenerIgnores`, and the
  three outcomes of a decrement): Swift's executor runs every job that was
  enqueued, but in the model the step is disabled while a delivery occupies the
  actor, so weak fairness would say nothing.
- `WF(Call /\ UNCHANGED faults)` in `Blob`: a C call returns. It does not have to
  fail: a failure that is bound to come would end any endless loop.
- `WF(Proceed(t) /\ UNCHANGED faults)` in `VM`: C calls return and the executor runs
  every task; `MethodsReturn` is about behaviours that stay within what C defines.
- `pubsub_all_tables` has the fairness of `pubsub_live`.
- The application, the server's publishers, other clients and failures owe
  nothing. In particular `SentIsDelivered` excepts connections that are closed and
  subscriptions that are let go.

## 4. Proofs

For all values of the constants, from the assumptions on the constants alone
(`PubSubAssumption`, `BlobAssumption`, ..., which TLC evaluates in the runs):

| Module | Theorem | Statement |
|---|---|---|
| `PubSub_proofs` | `TypeCorrect` | `Spec => []TypeOK`; no counter is ever negative |
| | `CountersAreExact` | `[]CountIsSubscribers` |
| | `SubscribersStayRegistered` | `[]LiveIsListened` |
| | `NoStrayRegistration` | `[]ListenedIsCounted` |
| | `ImplementsRegistry` | `RegistrySpec`, when no two channels share a name |
| | `SessionsDoNotOverlap` | `[]OneSession` |
| | `DeliveredAtMostOnce` | `[]AtMostOnce` |
| | `NoStrayDelivery` | `[]OnlyOwnTopic` |
| `Blob_proofs` | `BlobTypeCorrect` | `[]TypeOK` |
| | `HandleNeverLeaks` | `[]HandleIsClosed` |
| | `ReadsAreSnapshots` | `[]ReadIsSnapshot` |
| | `CallsGoOn` | `NoStepBack` |
| `BlobUpdate_proofs` | `RowsAreWrittenInOrder` | `[]RowsInOrder` |
| | `UpdatesThrowForACause` | `[]UpdateThrowsForACause`, for chunks above zero and calls in the default database |
| | `ImplementsRowUpdates` | `UpdateSpec` |
| `Transfer_proofs` | `TransferTypeCorrect`, `NoUseAfterFree`, `NoLeak`, `SuccessMeansAll` | `[]TypeOK`, `[]HelperAliveInCallback`, `[]HelperFreed`, `[]SuccessIsComplete` |
| `VM_proofs` | `VMTypeCorrect`, `ValuesAreOfCurrentRows`, `RunsAsGiven` | `[]TypeOK`, `[]ValuesOfCurrentRows`, `[]ParametersAsGiven` |
| `Config_proofs` | `ConfigTypeCorrect`, `OneKindOfCredentials`, `NumbersAreWhole`, `SettingsReachLibrary` | `[]TypeOK`, `[]CredentialsExclusive`, `[]NothingIsCut`, `[]SettingsArrive` |
| `Execute_proofs` | `ExecuteTypeCorrect`, `ParametersReachServer`, `ValuesComeBack` | `[]TypeOK`, `[]ParametersArrive`, `[]RoundTrip` |

The arguments:

- Counters. That a counter stays at least zero is not inductive: a decrement
  needs to know that the subscription it is for was counted. `LedgerInv` joins
  `TypeOK` with `CountIsSubscribers` (the counter is the cardinality of the live
  and dropped subscriptions), `MadeInv` (a subscription that was made has a channel
  and a connection that was used) and `SessionInv` (which connections are
  registered). Its lemmas say what each kind of step does to the counted set:
  `ListenCounted` adds one, `DecrementCounted` takes one, and
  `ReleasedKeepsCounted` shows that `deinit`, which may run anywhere, changes
  nothing.
- Registrations. `RegistrationInv` adds what the server knows. The step that
  matters is `UnsubscribeLast`: the counter is zero, so by `CountIsSubscribers` the
  counted set is empty, so no live subscription is unlistened. The refinement maps
  a step to a step of `SubscriptionRegistry` or a stutter; its assumption is needed,
  because with a shared name the last leave of a channel unlistens the table of
  that name as well.
- Deliveries. `NamedInv`: what is in flight is about a channel or table that some
  channel in use covers (`SentIsHeard`, because nothing else is registered), and has
  the name of the subscriptions it is delivered to. `PlaceInv`: with one session at a time, all copies of a notification
  are one, in one place (on the wire, a Task, or being delivered), and the
  subscriptions still to be called are those that have not been.
- BLOB reads. A handle that is still valid names a row
  nobody changed since the handle was moved to it (`HandleSees`), so the chunks read
  so far are a prefix of that one version (`Buffer`). `ControlInv` says that a call
  which opened its handle can only end in `Close`.
- BLOB updates. For a row no other client touches, its BLOB is at each point of the
  loop a function of the BLOB before the call and of `offset` (`RowState`);
  `OverwrittenInParts` joins two consecutive writes. `CauseInv` follows an
  undisturbed call: a handle that was just moved is valid and large enough, unless
  the data may not grow it.
- The abstract update. `RowUpdates` is about the rows of the call only: the BLOB of
  row i is what the server holds for it, the position and the bytes written are
  `index` and `offset`. `RowsInOrder` says nothing of a row another client replaced;
  the refinement does, which is why it needs `GrowInv`: a valid handle knows the
  size of its row's BLOB, whoever stored it, so a chunk never ends behind it. An
  expansion is `Grow`, or a stutter when it hits the default database instead of
  the row's own; opening, size checks, reopenings and everything a read does are
  stutters; each failure is `Throw`, or the step it hides the answer of.
- Progress. The position of a call is its row, its stage in the row and its byte, in
  this order (`Advances`), and every step moves it on (`StepAdvances`): no row, no
  expansion and no byte comes twice. It holds without an assumption on the chunk
  size, because a read of no bytes is no step at all: by `SinkInv` what has been
  read is a sequence, and appending nothing leaves it as it was.
- Transfers. The stream is open as long as one of two references is there, and
  whenever the callback gives up the one libsqcloud uses, libsqcloud does not call
  back.
- Statements. The cursor never goes back, so a read has met every row from its
  first to the current one, and each value it has so far came from rows it met
  (`JobOK`); and nothing binds a parameter once the statement has run (`BoundInv`).
- Configuration. At most one query item decides about a name, so a setting has at
  most one value; a number is converted when everything fits, where the conversion
  to 32 bits is the identity. For the types: a connection string gives a setting of
  the type its name asks for or none, and the database's path without its slashes
  is a text again.
- Strings. `CStrings` defines running totals and joins as recursive functions, and
  `CStrings_proofs` shows that these exist (`SumsExist`, `JoinsExist`), how far they
  reach and where each part of a join lies (`JoinedParts`). Each is an induction over
  positions, done on sets: the positions where the claim fails have a least one
  (`LeastOf`, from the well-foundedness of `<`), which is not the first and is not
  behind one where it holds (`UpTo`). So no induction theorem with an operator as a
  parameter is needed.
- Parameters. `OffsetsAreLengths`: the k-th offset, a total of lengths that count
  their NULs, is the length of what was appended to the buffer for the k strings so
  far. So behind each pointer but the last lies its string and a NUL (`BufferLayout`);
  where a null is only allowed as the last parameter, the k-th string is that of
  the k-th parameter (`RepresentableStrings`), and what libsqcloud reads there, up to
  the NUL or for the length given, is that parameter (`ReadRepresentable`).
  `ParseUndoes` says that the parser makes the parameter's value of it again, and
  `ParseReversed` the same of a row, in either order. `ExecuteInv` carries these from
  step to step: the arrays are those of the parameters, what was received is what
  they hold, and the outcome is that of the reply.

Only model-checked: liveness (`DroppedIsSettled`, `SentIsDelivered`, `Returns`,
`MethodsReturn`), which this prover does not treat under fairness (of `Returns`, its
safety half `NoStepBack` is proved); and the runs of
section 3 that refute a claim.

## 5. Not modelled

- `getClientUUID`, `create` and `notify`: they change no state of the client. The
  same is true of the methods of `SQLiteCloudVM` that report about a statement
  (`columnName`, `changes`, `isReadOnly`, `bindParameterCount` and the like).
- The texts of commands other than LISTEN, UNLISTEN and the UPDATE of a BLOB; in
  particular the quoted placeholder of NOTIFY (`Core/SQLiteCloudCommand.swift` 222).
- The temporary file of a download, which stays when the download fails.
- A file that changes between the reading of its size and of its content in an update
  (`Blob` takes files as unchanged during a call; `Transfer` lets them change).
- Progress handlers, logging, the wording of errors, the provider protocol.
- libsqcloud and the server, except as the Swift code uses them. The repository has
  the library as binaries. Nearly all of its lines of C, about 156 000 of them, are
  the headers of libtls/LibreSSL, once per platform (`Sources/libtls.xcframework`),
  and copies of `sqcloud.h`: declarations that the package ships and that hold no
  behaviour of this program. The models use the enumerations of `sqcloud.h` and are
  otherwise about the Swift code, of which they cover more than half the lines of
  code; the rest is mostly command texts, initializers, logging and errors.
- Whether a result given to the Pub/Sub callback lives until the Task uses it, and
  whether libsqcloud locks a connection, cannot be told from this repository. `VM`
  assumes no lock. The C strings that `sqConfig` takes from temporary `NSString`s
  are assumed to live until the connection is made.
- A chunk size of zero, which makes a read loop for ever: `Returns` is checked for
  chunk sizes above zero.

`hazards` in `PROJECT.json` lists what is hard to test, with the properties that
cover it.

## 6. Plan

Done, in this order: `PubSub` with its registry and proofs, `Blob`, `Transfer`,
`Execute`; then lost connections in `PubSub`, destination files in `Blob`, `VM`,
`Config` and the proofs about them; then `CStrings`, and with it the proofs about
`Execute` and the types of `Config`; then `RowUpdates`, which `Blob` implements, and
the progress of its calls.

What is left:

1. The safety part of termination for transfers, as `NoStepBack` states it for BLOBs:
   each callback moves bytes, or is the last one.
2. `VM` and `Transfer` composed with the actor's other users of the connection, once
   it is known what libsqcloud locks.
