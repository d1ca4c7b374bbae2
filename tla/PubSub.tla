------------------------------- MODULE PubSub -------------------------------
(***************************************************************************)
(* The connection and Pub/Sub part of the actor SQLiteCloud               *)
(* (Core/SQLiteCloud.swift) with the objects it shares with the            *)
(* application and with libsqcloud:                                        *)
(*                                                                         *)
(*  - the actor's fields connection, isConnected and channels.  No actor   *)
(*    method of the code suspends in its body, so every method is one      *)
(*    step; only the delivery of a notification is split, because the      *)
(*    application's callbacks run inside it and other threads run          *)
(*    meanwhile;                                                           *)
(*  - the SQLiteCloudSubscription objects.  The application owns them, the *)
(*    actor's Observation only has weak references, and deinit spawns the  *)
(*    Task that decrements the channel's counter;                          *)
(*  - the C connection objects, what the server has each of them listening *)
(*    to, the pub/sub thread of each and the unordered Tasks it spawns.    *)
(*                                                                         *)
(* Abstracted: payload contents except their decodability, the text of     *)
(* commands (a LISTEN carries a topic, an UNLISTEN only a name: that is    *)
(* all the text says), log output, and commands that have no effect on     *)
(* this state (execute, create, notify, getClientUUID).  The client object *)
(* outlives the behaviour.                                                 *)
(***************************************************************************)
EXTENDS Integers, FiniteSets

CONSTANTS
    Conns,           \* identities of SQCloudConnection objects
    Channels,        \* the SQLiteCloudChannel values the application uses
    Names,           \* channel and table names
    ChannelName,     \* SQLiteCloudChannel.name, a function on Channels
    IsTable,         \* is the case .table or .allTables, a function on Channels
    Wildcard,        \* the name "*", which .allTables has
    Sources,         \* the topics notifications are about: channels and tables that exist
    Subs,            \* identities of SQLiteCloudSubscription objects
    Messages,        \* identities of notifications published by the server
    Undecodable,     \* those whose payload is not the JSON the listener expects
    MaxFaults,       \* bound: commands that fail and connections that are lost
    MayOverlap,      \* may the application connect while it is connected?
    None             \* the nil connection, the topic of an unpublished message

\* What a LISTEN command registers: "LISTEN n" a channel, "LISTEN TABLE n" a table.
Topics == [table : BOOLEAN, name : Names]

\* What "LISTEN TABLE *" registers.  No table has that name.
AllTables == [table |-> TRUE, name |-> Wildcard]

ASSUME PubSubAssumption ==
    /\ IsFiniteSet(Subs)
    /\ ChannelName \in [Channels -> Names]
    /\ IsTable \in [Channels -> BOOLEAN]
    /\ Wildcard \in Names
    /\ Sources \subseteq Topics \ {AllTables}
    /\ Undecodable \subseteq Messages
    /\ MaxFaults \in Nat
    /\ MayOverlap \in BOOLEAN
    /\ None \notin Conns \cup Topics

\* The topic of a channel.
Topic(ch) == [table |-> IsTable[ch], name |-> ChannelName[ch]]

VARIABLES
    connection,     \* SQLiteCloud.connection
    isConnected,    \* SQLiteCloud.isConnected
    channels,       \* SQLiteCloud.channels (absent key: 0)
    readonly,       \* config.isReadonlyConnection, fixed per client
    connState,      \* lifetime of each C connection object
    subState,       \* "unused", "live", "dropped" (deinit ran, its Task has not), "gone"
    subChannel,     \* SQLiteCloudSubscription.channel
    held,           \* the subscriptions whose Disposable the application retains
    applying,       \* the notification the actor is delivering, {} when it is idle
    snapshot,       \* the subscriptions that delivery retains
    todo,           \* those of them whose callback has still to run
    tasks,          \* spawned notification Tasks that have not run yet
    serverListens,  \* the topics each connection is registered for on the server
    wire,           \* notifications sent to a connection and not yet received
    published,      \* the topic of each published message
    faults,         \* number of commands that failed and connections that were lost
    subConn,        \* history: the connection a subscription was made on
    faulted,        \* history: topics whose command failed on the current connection
    owed,           \* history: <<sub, message, connection>> that must be delivered
    delivered       \* history: <<sub, message, connection>> of the callbacks that ran

connVars   == <<connection, isConnected, connState, readonly>>
ledgerVars == <<channels, subChannel, subConn>>
actorVars  == <<applying, snapshot, todo, delivered>>
netVars    == <<tasks, wire, published, owed>>
execVars   == <<serverListens, faults, faulted>>
vars == <<connVars, ledgerVars, actorVars, netVars, execVars, subState, held>>

-----------------------------------------------------------------------------

Live == {s \in Subs : subState[s] = "live"}

\* Subscriptions of ch that are still counted: alive, or deinitialised with the
\* decrementing Task outstanding.
Counted(ch) == {s \in Subs : subState[s] \in {"live", "dropped"} /\ subChannel[s] = ch}

\* ARC: with the strong references h (the application) and snap (a delivery), the
\* subscriptions nothing else retains run deinit, which spawns their Task.
Released(h, snap) ==
    [s \in Subs |-> IF subState[s] = "live" /\ s \notin h \cup snap
                    THEN "dropped" ELSE subState[s]]

Idle == applying = {}

\* getConnection succeeds, the connection is not lost, and the main socket, which
\* SQCloudSetPubSubOnly closes, can carry a command: otherwise exec throws and nothing
\* else happens.
CanExec ==
    /\ connection # None
    /\ connState[connection] = "open"
    /\ ~readonly

Init ==
    /\ connection = None
    /\ isConnected = FALSE
    /\ channels = [ch \in Channels |-> 0]
    /\ readonly \in BOOLEAN
    /\ connState = [c \in Conns |-> "unused"]
    /\ subState = [s \in Subs |-> "unused"]
    /\ subChannel = [s \in Subs |-> None]
    /\ held = {}
    /\ applying = {} /\ snapshot = {} /\ todo = {}
    /\ tasks = {} /\ wire = {}
    /\ serverListens = [c \in Conns |-> {}]
    /\ published = [m \in Messages |-> None]
    /\ faults = 0
    /\ subConn = [s \in Subs |-> None]
    /\ faulted = {} /\ owed = {} /\ delivered = {}

-----------------------------------------------------------------------------
(* connect() and disconnect() *)

\* A new C connection object: SQCloudConnect never returns one it returned before.
NewConnection(c) ==
    /\ Idle
    /\ connState[c] = "unused"
    /\ MayOverlap \/ connection = None

\* The connection opens, the callback is installed, SQCloudSetPubSubOnly succeeds
\* if it is called.  A connection the actor already had is overwritten, not closed.
Connect(c) ==
    /\ NewConnection(c)
    /\ connState' = [connState EXCEPT ![c] = "open"]
    /\ connection' = c
    /\ isConnected' = TRUE
    /\ faulted' = {}
    /\ UNCHANGED <<readonly, ledgerVars, actorVars, netVars, serverListens,
                   faults, subState, held>>

\* SQCloudIsError: connect throws, and the object that holds the error stays allocated.
ConnectFails(c) ==
    /\ NewConnection(c)
    /\ connState' = [connState EXCEPT ![c] = "errored"]
    /\ UNCHANGED <<connection, isConnected, readonly, ledgerVars, actorVars, netVars,
                   execVars, subState, held>>

\* SQCloudSetPubSubOnly fails: connect throws with the connection open, not stored.
ConnectPubSubOnlyFails(c) ==
    /\ NewConnection(c)
    /\ readonly
    /\ connState' = [connState EXCEPT ![c] = "open"]
    /\ UNCHANGED <<connection, isConnected, readonly, ledgerVars, actorVars, netVars,
                   execVars, subState, held>>

\* Defective variant of Disconnect: forgets the pointer without SQCloudDisconnect.
DisconnectForgets ==
    /\ Idle
    /\ connection # None
    /\ connection' = None
    /\ isConnected' = FALSE
    /\ UNCHANGED <<readonly, connState, ledgerVars, actorVars, netVars, execVars,
                   subState, held>>

\* SQCloudDisconnect ends the connection's pub/sub thread: what it had not received
\* is lost.  channels and observation keep their contents.
Disconnect ==
    /\ Idle
    /\ connection # None
    /\ connState' = [connState EXCEPT ![connection] = "closed"]
    /\ serverListens' = [serverListens EXCEPT ![connection] = {}]
    /\ wire' = {w \in wire : w[1] # connection}
    /\ connection' = None
    /\ isConnected' = FALSE
    /\ UNCHANGED <<readonly, ledgerVars, actorVars, tasks, published, owed,
                   faults, faulted, subState, held>>

\* The network or the server ends a connection, at any time.  Nothing tells the actor:
\* the pointer and isConnected stay.
ConnectionLost(c) ==
    /\ connState[c] = "open"
    /\ faults < MaxFaults
    /\ faults' = faults + 1
    /\ connState' = [connState EXCEPT ![c] = "lost"]
    /\ serverListens' = [serverListens EXCEPT ![c] = {}]
    /\ wire' = {w \in wire : w[1] # c}
    /\ UNCHANGED <<connection, isConnected, readonly, ledgerVars, actorVars, tasks,
                   published, owed, faulted, subState, held>>

-----------------------------------------------------------------------------
(* listen(to:callback:) and the end of a subscription *)

\* Defective variant of Listen: the counter is only set for the first subscriber.
ListenFirstOnly(s, ch) ==
    /\ Idle
    /\ CanExec
    /\ subState[s] = "unused"
    /\ serverListens' = [serverListens EXCEPT ![connection] = @ \cup {Topic(ch)}]
    /\ channels' = [channels EXCEPT ![ch] = 1]
    /\ subState' = [subState EXCEPT ![s] = "live"]
    /\ subChannel' = [subChannel EXCEPT ![s] = ch]
    /\ subConn' = [subConn EXCEPT ![s] = connection]
    /\ held' = held \cup {s}
    /\ UNCHANGED <<connVars, actorVars, netVars, faults, faulted>>

\* LISTEN succeeds.  "Nothing is done" by the server if the topic is registered
\* already.  The counter goes up and the Disposable is returned to the application.
Listen(s, ch) ==
    /\ Idle
    /\ CanExec
    /\ subState[s] = "unused"
    /\ serverListens' = [serverListens EXCEPT ![connection] = @ \cup {Topic(ch)}]
    /\ channels' = [channels EXCEPT ![ch] = @ + 1]
    /\ subState' = [subState EXCEPT ![s] = "live"]
    /\ subChannel' = [subChannel EXCEPT ![s] = ch]
    /\ subConn' = [subConn EXCEPT ![s] = connection]
    /\ held' = held \cup {s}
    /\ UNCHANGED <<connVars, actorVars, netVars, faults, faulted>>

\* LISTEN returns an error or no result, before or after the server registered the
\* topic: exec throws and nothing else is done.
ListenFails(ch) ==
    /\ Idle
    /\ CanExec
    /\ faults < MaxFaults
    /\ faults' = faults + 1
    /\ faulted' = faulted \cup {Topic(ch)}
    /\ \E registered \in {{}, {Topic(ch)}} :
         serverListens' = [serverListens EXCEPT ![connection] = @ \cup registered]
    /\ UNCHANGED <<connVars, ledgerVars, actorVars, netVars, subState, held>>

\* The application sets its Disposable to nil, on any thread.
Drop(s) ==
    /\ s \in held
    /\ held' = held \ {s}
    /\ subState' = Released(held', snapshot)
    /\ UNCHANGED <<connVars, ledgerVars, actorVars, netVars, execVars>>

\* Defective variant of Unlistened: the UNLISTEN command is never sent.
UnlistenedNothing(listens, name) == listens

\* UNLISTEN names no kind of topic: it removes the channel and the table of that name.
Unlistened(listens, name) == {t \in listens : t.name # name}

\* Defective variant of Decrement: getConnection is called before the counter is
\* updated, and throws while the client is disconnected.
DecrementConnected(s) ==
    /\ Idle
    /\ subState[s] = "dropped"
    /\ subState' = [subState EXCEPT ![s] = "gone"]
    /\ channels' = IF CanExec THEN [channels EXCEPT ![subChannel[s]] = @ - 1]
                              ELSE channels

\* The Task of a deinitialised subscription runs change(channel:counter:).
Decrement(s) ==
    /\ Idle
    /\ subState[s] = "dropped"
    /\ subState' = [subState EXCEPT ![s] = "gone"]
    /\ channels' = [channels EXCEPT ![subChannel[s]] = @ - 1]

\* No UNLISTEN: the counter is not zero, or exec cannot send it and throws.
Unsubscribe(s) ==
    /\ Decrement(s)
    /\ channels'[subChannel[s]] # 0 \/ ~CanExec
    /\ UNCHANGED <<connVars, subChannel, subConn, actorVars, netVars, execVars, held>>

\* Defective variant of UnsubscribeLast: UNLISTEN is sent one subscriber too early.
UnsubscribeEarly(s) ==
    /\ Decrement(s)
    /\ channels'[subChannel[s]] \in {0, 1}
    /\ CanExec
    /\ serverListens' = [serverListens EXCEPT ![connection] =
                            Unlistened(@, ChannelName[subChannel[s]])]
    /\ UNCHANGED <<connVars, subChannel, subConn, actorVars, netVars, faults,
                   faulted, held>>

\* The counter reached zero and UNLISTEN succeeds.
UnsubscribeLast(s) ==
    /\ Decrement(s)
    /\ channels'[subChannel[s]] = 0
    /\ CanExec
    /\ serverListens' = [serverListens EXCEPT ![connection] =
                            Unlistened(@, ChannelName[subChannel[s]])]
    /\ UNCHANGED <<connVars, subChannel, subConn, actorVars, netVars, faults,
                   faulted, held>>

\* The counter reached zero and UNLISTEN fails, before or after the server ran it.
\* The counter stays zero; the Task swallows the error.
UnsubscribeLastFails(s) ==
    /\ Decrement(s)
    /\ channels'[subChannel[s]] = 0
    /\ CanExec
    /\ faults < MaxFaults
    /\ faults' = faults + 1
    /\ faulted' = faulted \cup {Topic(subChannel[s])}
    /\ \E applied \in BOOLEAN :
         serverListens' = IF applied
            THEN [serverListens EXCEPT ![connection] =
                     Unlistened(@, ChannelName[subChannel[s]])]
            ELSE serverListens
    /\ UNCHANGED <<connVars, subChannel, subConn, actorVars, netVars, held>>

-----------------------------------------------------------------------------
(* Notifications *)

\* The registration r is told about t: "*" stands for all tables of the database.
Covers(r, t) == r = t \/ (r = AllTables /\ t.table)

\* Somebody notifies a channel or writes a table: the server sends m, which says which
\* one it was, to every open connection with a registration for it, and owes it to the
\* subscriptions that registration is for.
Publish(m, t) ==
    /\ published[m] = None
    /\ published' = [published EXCEPT ![m] = t]
    /\ wire' = wire \cup
         {<<c, m>> : c \in {d \in Conns : \E r \in serverListens[d] : Covers(r, t)}}
    /\ owed' = owed \cup
         {<<s, m, subConn[s]>> :
            s \in {r \in Live : /\ Covers(Topic(subChannel[r]), t)
                                /\ connState[subConn[r]] = "open"
                                /\ Topic(subChannel[r]) \in serverListens[subConn[r]]}}
    /\ UNCHANGED <<connVars, ledgerVars, actorVars, tasks, execVars, subState, held>>

\* A connection's pub/sub thread receives a notification and calls the callback,
\* which spawns a Task.  Tasks run in no particular order.
Receive(c, m) ==
    /\ <<c, m>> \in wire
    /\ wire' = wire \ {<<c, m>>}
    /\ tasks' = tasks \cup {<<c, m>>}
    /\ UNCHANGED <<connVars, ledgerVars, actorVars, published, owed, execVars,
                   subState, held>>

\* listener(conn:result:) of a notification it cannot decode: no callback runs.
ListenerIgnores(c, m) ==
    /\ Idle
    /\ <<c, m>> \in tasks
    /\ m \in Undecodable
    /\ tasks' = tasks \ {<<c, m>>}
    /\ UNCHANGED <<connVars, ledgerVars, actorVars, wire, published, owed, execVars,
                   subState, held>>

\* Defective variant of Matching: one observer per channel is remembered.
MatchingOne(m) ==
    LET same == {s \in Live : ChannelName[subChannel[s]] = published[m].name}
    IN IF same = {} THEN {} ELSE {CHOOSE s \in same : TRUE}

\* Defective variant of Matching: every observer is told.
MatchingAll(m) == Live

\* The subscriptions whose channel has the name in the payload.
Matching(m) == {s \in Live : ChannelName[subChannel[s]] = published[m].name}

\* listener(conn:result:) starts Observation.apply.  allObjects retains every live
\* subscription, its filter those that match; the first array may be released early.
StartListener(c, m) ==
    /\ Idle
    /\ <<c, m>> \in tasks
    /\ m \notin Undecodable
    /\ tasks' = tasks \ {<<c, m>>}
    /\ applying' = {<<c, m>>}
    /\ todo' = Matching(m)
    /\ snapshot' \in {Live, Matching(m)}
    /\ UNCHANGED <<connVars, ledgerVars, delivered, wire, published, owed, execVars,
                   subState, held>>

\* The callback of one matching subscription runs on the actor.
InvokeCallback(s) ==
    /\ s \in todo
    /\ todo' = todo \ {s}
    /\ delivered' = delivered \cup {<<s, a[2], a[1]>> : a \in applying}
    /\ UNCHANGED <<connVars, ledgerVars, applying, snapshot, netVars, execVars,
                   subState, held>>

\* Defective variant of EndListener: the delivery's references are never released.
EndListenerLeaks ==
    /\ ~Idle
    /\ todo = {}
    /\ applying' = {} /\ snapshot' = {}
    /\ UNCHANGED <<connVars, ledgerVars, todo, delivered, netVars, execVars,
                   subState, held>>

\* apply returns: its references end, and with them what the application dropped.
EndListener ==
    /\ ~Idle
    /\ todo = {}
    /\ applying' = {} /\ snapshot' = {}
    /\ subState' = Released(held, {})
    /\ UNCHANGED <<connVars, ledgerVars, todo, delivered, netVars, execVars, held>>

-----------------------------------------------------------------------------

ConnectionStep ==
    \/ \E c \in Conns : Connect(c) \/ ConnectFails(c) \/ ConnectPubSubOnlyFails(c)
                        \/ ConnectionLost(c)
    \/ Disconnect

SubscriptionStep ==
    \/ \E s \in Subs, ch \in Channels : Listen(s, ch)
    \/ \E ch \in Channels : ListenFails(ch)
    \/ \E s \in Subs : Drop(s) \/ Unsubscribe(s) \/ UnsubscribeLast(s)
                       \/ UnsubscribeLastFails(s)

NotificationStep ==
    \/ \E m \in Messages, t \in Sources : Publish(m, t)
    \/ \E c \in Conns, m \in Messages :
         Receive(c, m) \/ ListenerIgnores(c, m) \/ StartListener(c, m)
    \/ \E s \in Subs : InvokeCallback(s)
    \/ EndListener

Next == ConnectionStep \/ SubscriptionStep \/ NotificationStep

\* A pub/sub thread reads its socket, a callback returns, and a Task the actor has
\* queued is run eventually although other jobs occupy the actor in between (strong
\* fairness).  The application and the server owe nothing.
Fairness ==
    /\ \A c \in Conns, m \in Messages :
         /\ WF_vars(Receive(c, m))
         /\ SF_vars(ListenerIgnores(c, m) \/ StartListener(c, m))
    /\ \A s \in Subs :
         /\ WF_vars(InvokeCallback(s))
         /\ SF_vars(Unsubscribe(s) \/ UnsubscribeLast(s) \/ UnsubscribeLastFails(s))
    /\ WF_vars(EndListener)

Spec == Init /\ [][Next]_vars
FairSpec == Spec /\ Fairness

-----------------------------------------------------------------------------
(* Properties *)

\* The type invariant.  Its one claim about the code: the counter of a channel
\* (SQLiteCloud.channels) is never negative.
TypeOK ==
    /\ connection \in Conns \cup {None}
    /\ isConnected \in BOOLEAN
    /\ channels \in [Channels -> Nat]
    /\ readonly \in BOOLEAN
    /\ connState \in [Conns -> {"unused", "open", "errored", "lost", "closed"}]
    /\ subState \in [Subs -> {"unused", "live", "dropped", "gone"}]
    /\ subChannel \in [Subs -> Channels \cup {None}]
    /\ held \subseteq Subs
    /\ applying \subseteq Conns \X Messages
    /\ snapshot \subseteq Subs
    /\ todo \subseteq Subs
    /\ tasks \subseteq Conns \X Messages
    /\ serverListens \in [Conns -> SUBSET Topics]
    /\ wire \subseteq Conns \X Messages
    /\ published \in [Messages -> Topics \cup {None}]
    /\ faults \in 0 .. MaxFaults
    /\ subConn \in [Subs -> Conns \cup {None}]
    /\ faulted \subseteq Topics
    /\ owed \subseteq Subs \X Messages \X Conns
    /\ delivered \subseteq Subs \X Messages \X Conns

\* The counter of a channel is the number of its subscriptions that are alive or whose
\* decrementing Task is outstanding: listen, deinit (on any thread, during a delivery
\* or not), the Task and disconnect never lose or repeat a count.
CountIsSubscribers ==
    \A ch \in Channels : channels[ch] = Cardinality(Counted(ch))

\* No other channel value in use has the name of ch.
UniqueName(ch) == \A d \in Channels : ChannelName[d] = ChannelName[ch] => d = ch

\* A live subscription, of whatever session, is registered on the server from the moment
\* one subscription of its channel was made on the current connection (connect sends no
\* LISTEN by itself), even if that one is gone by now, as long as that connection is not
\* lost and no other channel shares the name: no decrementing Task unlistens it.
LiveIsListened ==
    \A s \in Live, r \in Subs :
        (/\ subChannel[r] = subChannel[s] /\ subConn[r] = connection
         /\ connection # None /\ connState[connection] = "open"
         /\ UniqueName(subChannel[s]))
            => Topic(subChannel[s]) \in serverListens[connection]

\* The server has the current connection registered for nothing that the client does
\* not count, unless a LISTEN or UNLISTEN of that topic failed on this connection.
ListenedIsCounted ==
    connection # None =>
        \A t \in serverListens[connection] \ faulted :
            \E ch \in Channels : Topic(ch) = t /\ channels[ch] > 0

\* An application that disconnects before it connects again has one session at a time:
\* no connection but the actor's is registered for anything or has notifications on the
\* way, after a disconnect, a loss or a failed connect.
OneSession ==
    ~MayOverlap =>
        \A c \in Conns : (serverListens[c] # {} \/ \E m \in Messages : <<c, m>> \in wire)
                             => c = connection

\* For such an application a callback runs at most once for a notification, whatever the
\* reconnections: no two connections deliver the same one, and no delivery that is under
\* way is about to repeat it.
AtMostOnce ==
    ~MayOverlap =>
        /\ \A d, e \in delivered : (d[1] = e[1] /\ d[2] = e[2]) => d = e
        /\ \A s \in todo, a \in applying, c \in Conns : <<s, a[2], c>> \notin delivered

\* No other channel or table that the application can be told about has the name of ch.
OwnName(ch) ==
    \A t \in Sources :
        (t.name = ChannelName[ch] /\ \E d \in Channels : Covers(Topic(d), t))
            => t = Topic(ch)

\* A callback only runs for what its channel covers, unless another topic the application
\* listens to, by its name or among all tables, has the same name: the payload, which is
\* all the listener looks at, holds just a name.
OnlyOwnTopic ==
    \A d \in delivered :
        OwnName(subChannel[d[1]]) =>
            Covers(Topic(subChannel[d[1]]), published[d[2]])

\* Every subscription the application has let go is eventually deinitialised, even
\* when a delivery retained it, and is eventually uncounted.
DroppedIsSettled ==
    \A s \in Subs : (subState[s] \in {"live", "dropped"} /\ s \notin held)
                       ~> subState[s] = "gone"

\* The callback of s has run for m, or s may miss it: the application let the subscription
\* go, or its connection was closed or lost.
ReceivedOrExcused(s, m, c) ==
    <<s, m, c>> \in delivered \/ s \notin held \/ connState[c] # "open"

\* A decodable notification sent to the connection of a live subscription of the channel
\* or table it is about reaches the subscription's callback.  (For the subscriptions of
\* all tables see AllTablesAreHeard.)
SentIsDelivered ==
    \A s \in Subs, m \in Messages \ Undecodable, c \in Conns :
        <<s, m, c>> \in owed /\ published[m] = Topic(subChannel[s])
            ~> ReceivedOrExcused(s, m, c)

-----------------------------------------------------------------------------
(* A claim of the documentation that the code does not keep *)

\* "the table name can be *, which means you'll start receiving notifications from all
\* the tables inside the current database" (listen): a decodable notification about a
\* table, sent to the connection of a live subscription of .allTables, reaches it.
AllTablesAreHeard ==
    \A s \in Subs, m \in Messages \ Undecodable, c \in Conns :
        <<s, m, c>> \in owed /\ Topic(subChannel[s]) = AllTables
            ~> ReceivedOrExcused(s, m, c)

-----------------------------------------------------------------------------

\* What the counters, Tasks and deinits implement: a set of members per channel, with
\* the channel registered from its first member to its last.
Registry ==
    INSTANCE SubscriptionRegistry WITH
        session  <- connection,
        members  <- [ch \in Channels |-> Counted(ch)],
        listened <- IF connection = None THEN {} ELSE serverListens[connection]
RegistrySpec == Registry!Spec
=============================================================================
