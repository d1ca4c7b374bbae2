--------------------------- MODULE PubSub_proofs ---------------------------
(***************************************************************************)
(* Proofs about PubSub, for all values of its constants.  The argument:    *)
(* every step that can change whether a subscription is counted changes    *)
(* the channel's counter with it (listen and the decrementing Task), and   *)
(* deinit only moves a subscription between two states that both count.    *)
(* So the counter is the cardinality of the set of counted subscriptions,  *)
(* it is zero exactly when that set is empty, and an UNLISTEN is never     *)
(* sent while a live subscription of the channel remains.                  *)
(***************************************************************************)
EXTENDS PubSub, TLAPS, FiniteSetTheorems

\* Every subscription that was made has a channel and a connection that was used.
MadeInv ==
    \A s \in Subs :
        /\ subState[s] # "unused" => subChannel[s] \in Channels /\ subConn[s] \in Conns
        /\ subConn[s] \in Conns => connState[subConn[s]] # "unused"

\* The stored connection is open or lost; only open ones are registered for topics.
SessionInv ==
    /\ connection # None => connState[connection] \in {"open", "lost"}
    /\ \A c \in Conns : connState[c] # "open" => serverListens[c] = {}

\* The inductive invariant of the counters.
LedgerInv == TypeOK /\ MadeInv /\ SessionInv /\ CountIsSubscribers

-----------------------------------------------------------------------------
(* Lemmas about the counted subscriptions *)

\* Topic maps channels to topics.
LEMMA TopicType == \A ch \in Channels : Topic(ch) \in Topics
BY PubSubAssumption DEF Topic, Topics

\* The counted subscriptions of a channel are finitely many.
LEMMA CountedFinite ==
    \A ch : IsFiniteSet(Counted(ch)) /\ Cardinality(Counted(ch)) \in Nat
<1> TAKE ch
<1>1. Counted(ch) \subseteq Subs
  BY DEF Counted
<1> QED
  BY <1>1, PubSubAssumption, FS_Subset, FS_CardinalityType

\* deinit does not change what is counted: its Task has still to run.
LEMMA ReleasedKeepsCounted ==
    ASSUME NEW h, NEW snap, subState' = Released(h, snap), UNCHANGED subChannel,
           subState \in [Subs -> {"unused", "live", "dropped", "gone"}]
    PROVE  /\ subState' \in [Subs -> {"unused", "live", "dropped", "gone"}]
           /\ \A ch : Counted(ch)' = Counted(ch)
           /\ \A s \in Subs : subState'[s] = "unused" <=> subState[s] = "unused"
           /\ Live' \subseteq Live
BY DEF Released, Counted, Live

\* The Task of s takes s, and nothing else, out of what is counted.
LEMMA DecrementCounted ==
    ASSUME TypeOK, MadeInv, CountIsSubscribers, NEW s \in Subs, Decrement(s),
           UNCHANGED subChannel
    PROVE  /\ subChannel[s] \in Channels
           /\ s \in Counted(subChannel[s])
           /\ Counted(subChannel[s])' = Counted(subChannel[s]) \ {s}
           /\ \A ch \in Channels \ {subChannel[s]} : Counted(ch)' = Counted(ch)
           /\ Live' = Live
           /\ channels' \in [Channels -> Nat]
           /\ CountIsSubscribers'
           /\ channels'[subChannel[s]] = 0 <=> Counted(subChannel[s]) \ {s} = {}
<1> DEFINE ch0 == subChannel[s]
<1>1. ch0 \in Channels /\ s \in Counted(ch0)
  BY DEF Decrement, MadeInv, Counted
<1>2. Counted(ch0)' = Counted(ch0) \ {s}
  BY DEF Decrement, Counted, TypeOK
<1>3. \A ch \in Channels \ {ch0} : Counted(ch)' = Counted(ch)
  BY DEF Decrement, Counted, TypeOK
<1>4. Live' = Live
  BY DEF Decrement, Live, TypeOK
<1>5. /\ Cardinality(Counted(ch0) \ {s}) = Cardinality(Counted(ch0)) - 1
      /\ Cardinality(Counted(ch0) \ {s}) \in Nat
  <2>1. IsFiniteSet(Counted(ch0) \ {s})
    BY <1>1, CountedFinite, FS_RemoveElement
  <2> QED
    BY <1>1, <2>1, CountedFinite, FS_RemoveElement, FS_CardinalityType
<1>6. channels[ch0] = Cardinality(Counted(ch0))
  BY <1>1 DEF CountIsSubscribers
<1>7. channels' = [channels EXCEPT ![ch0] = @ - 1]
  BY DEF Decrement
<1>8. channels' \in [Channels -> Nat]
  BY <1>1, <1>5, <1>6, <1>7 DEF TypeOK
<1>9. CountIsSubscribers'
  BY <1>1, <1>2, <1>3, <1>5, <1>6, <1>7 DEF CountIsSubscribers, TypeOK
<1>10. channels'[ch0] = 0 <=> Counted(ch0) \ {s} = {}
  <2>1. channels'[ch0] = Cardinality(Counted(ch0) \ {s})
    BY <1>1, <1>5, <1>6, <1>7 DEF TypeOK
  <2>2. IsFiniteSet(Counted(ch0) \ {s})
    BY CountedFinite, <1>1, FS_RemoveElement
  <2> QED
    BY <2>1, <2>2, FS_EmptySet
<1> QED
  BY <1>1, <1>2, <1>3, <1>4, <1>8, <1>9, <1>10

\* listen adds s, and nothing else, to what is counted.
LEMMA ListenCounted ==
    ASSUME TypeOK, CountIsSubscribers, NEW s \in Subs, NEW ch \in Channels, Listen(s, ch)
    PROVE  /\ s \notin Counted(ch)
           /\ Counted(ch)' = Counted(ch) \cup {s}
           /\ \A d \in Channels \ {ch} : Counted(d)' = Counted(d)
           /\ Live' = Live \cup {s}
           /\ channels' \in [Channels -> Nat]
           /\ CountIsSubscribers'
<1>1. s \notin Counted(ch) /\ Counted(ch)' = Counted(ch) \cup {s}
  BY DEF Listen, Counted, TypeOK
<1>2. \A d \in Channels \ {ch} : Counted(d)' = Counted(d)
  BY DEF Listen, Counted, TypeOK
<1>3. Live' = Live \cup {s}
  BY DEF Listen, Live, TypeOK
<1>4. Cardinality(Counted(ch) \cup {s}) = Cardinality(Counted(ch)) + 1
  BY <1>1, CountedFinite, FS_AddElement
<1>5. channels' = [channels EXCEPT ![ch] = @ + 1]
  BY DEF Listen
<1>6. channels' \in [Channels -> Nat]
  BY <1>5 DEF TypeOK
<1>7. CountIsSubscribers'
  BY <1>1, <1>2, <1>4, <1>5 DEF CountIsSubscribers, TypeOK
<1> QED
  BY <1>1, <1>2, <1>3, <1>6, <1>7

-----------------------------------------------------------------------------
(* The inductive invariant *)

\* The counters are right before the first subscription.
LEMMA LedgerInit == Init => LedgerInv
<1> SUFFICES ASSUME Init PROVE LedgerInv
  OBVIOUS
<1>1. TypeOK
  <2>1. faults \in 0 .. MaxFaults /\ channels \in [Channels -> Nat]
    BY PubSubAssumption DEF Init
  <2>2. /\ serverListens \in [Conns -> SUBSET Topics]
        /\ connState \in [Conns -> {"unused", "open", "errored", "closed"}]
        /\ subState \in [Subs -> {"unused", "live", "dropped", "gone"}]
    BY DEF Init
  <2>3. /\ published \in [Messages -> Topics \cup {None}]
        /\ subChannel \in [Subs -> Channels \cup {None}]
        /\ subConn \in [Subs -> Conns \cup {None}]
    BY DEF Init
  <2> QED
    BY <2>1, <2>2, <2>3 DEF Init, TypeOK
<1>2. MadeInv /\ SessionInv
  BY PubSubAssumption DEF Init, MadeInv, SessionInv
<1>3. \A ch \in Channels : Counted(ch) = {}
  BY DEF Init, Counted
<1>4. CountIsSubscribers
  BY <1>3, FS_EmptySet DEF Init, CountIsSubscribers
<1> QED
  BY <1>1, <1>2, <1>4 DEF LedgerInv

\* Steps that leave the counters, and what they count, as they are.
LEMMA QuietKeepsCount ==
    ASSUME CountIsSubscribers, UNCHANGED channels,
           \A ch \in Channels : Counted(ch)' = Counted(ch)
    PROVE  CountIsSubscribers'
BY DEF CountIsSubscribers

\* No step of the client, the application or the server makes a counter wrong.
LEMMA LedgerStep == LedgerInv /\ [Next]_vars => LedgerInv'
<1> SUFFICES ASSUME LedgerInv, [Next]_vars PROVE LedgerInv'
  OBVIOUS
<1> USE DEF LedgerInv
<1>0. CASE UNCHANGED vars
  BY <1>0 DEF vars, connVars, ledgerVars, actorVars, netVars, execVars, TypeOK, MadeInv,
              SessionInv, CountIsSubscribers, Counted
<1>1. ASSUME NEW c \in Conns, Connect(c) PROVE LedgerInv'
  <2> USE <1>1 DEF Connect, NewConnection, ledgerVars, actorVars, netVars
  <2>1. TypeOK'
    BY DEF TypeOK
  <2>2. MadeInv' /\ SessionInv'
    BY DEF TypeOK, MadeInv, SessionInv
  <2>3. CountIsSubscribers'
    BY QuietKeepsCount DEF Counted
  <2> QED
    BY <2>1, <2>2, <2>3
<1>2. ASSUME NEW c \in Conns, ConnectFails(c) \/ ConnectPubSubOnlyFails(c)
      PROVE  LedgerInv'
  <2> USE <1>2 DEF ConnectFails, ConnectPubSubOnlyFails, NewConnection, ledgerVars,
                   actorVars, netVars, execVars
  <2>1. TypeOK'
    BY DEF TypeOK
  <2>2. MadeInv' /\ SessionInv'
    BY DEF TypeOK, MadeInv, SessionInv
  <2>3. CountIsSubscribers'
    BY QuietKeepsCount DEF Counted
  <2> QED
    BY <2>1, <2>2, <2>3
<1>12. ASSUME NEW c \in Conns, ConnectionLost(c) PROVE LedgerInv'
  <2> USE <1>12 DEF ConnectionLost, ledgerVars, actorVars
  <2>1. TypeOK'
    BY PubSubAssumption DEF TypeOK
  <2>2. MadeInv' /\ SessionInv'
    BY DEF TypeOK, MadeInv, SessionInv
  <2>3. CountIsSubscribers'
    BY QuietKeepsCount DEF Counted
  <2> QED
    BY <2>1, <2>2, <2>3
<1>3. CASE Disconnect
  <2> USE <1>3 DEF Disconnect, ledgerVars, actorVars
  <2>1. TypeOK'
    BY DEF TypeOK
  <2>2. MadeInv' /\ SessionInv'
    BY PubSubAssumption DEF TypeOK, MadeInv, SessionInv
  <2>3. CountIsSubscribers'
    BY QuietKeepsCount DEF Counted
  <2> QED
    BY <2>1, <2>2, <2>3
<1>4. ASSUME NEW s \in Subs, NEW ch \in Channels, Listen(s, ch) PROVE LedgerInv'
  <2>1. CountIsSubscribers' /\ channels' \in [Channels -> Nat]
    BY <1>4, ListenCounted
  <2>2. TypeOK'
    BY <1>4, <2>1, TopicType
       DEF Listen, CanExec, connVars, actorVars, netVars, TypeOK
  <2>3. MadeInv' /\ SessionInv'
    BY <1>4, PubSubAssumption
       DEF Listen, CanExec, connVars, TypeOK, MadeInv, SessionInv
  <2> QED
    BY <2>1, <2>2, <2>3
<1>5. ASSUME NEW ch \in Channels, ListenFails(ch) PROVE LedgerInv'
  <2> USE <1>5 DEF ListenFails, CanExec, connVars, ledgerVars, actorVars, netVars
  <2>1. TypeOK'
    BY TopicType, PubSubAssumption DEF TypeOK
  <2>2. MadeInv' /\ SessionInv'
    BY DEF TypeOK, MadeInv, SessionInv
  <2>3. CountIsSubscribers'
    BY QuietKeepsCount DEF Counted
  <2> QED
    BY <2>1, <2>2, <2>3
<1>6. ASSUME NEW s \in Subs, Drop(s) PROVE LedgerInv'
  <2>1. UNCHANGED subChannel /\ subState' = Released(held', snapshot)
    BY <1>6 DEF Drop, ledgerVars
  <2>2. /\ subState' \in [Subs -> {"unused", "live", "dropped", "gone"}]
        /\ \A ch \in Channels : Counted(ch)' = Counted(ch)
        /\ \A r \in Subs : subState'[r] = "unused" <=> subState[r] = "unused"
    BY <2>1, ReleasedKeepsCounted DEF TypeOK
  <2> USE <1>6, <2>2 DEF Drop, connVars, ledgerVars, actorVars, netVars, execVars
  <2>3. TypeOK'
    BY DEF TypeOK
  <2>4. MadeInv' /\ SessionInv'
    BY DEF TypeOK, MadeInv, SessionInv
  <2>5. CountIsSubscribers'
    BY QuietKeepsCount
  <2> QED
    BY <2>3, <2>4, <2>5
<1>7. ASSUME NEW s \in Subs,
             Unsubscribe(s) \/ UnsubscribeLast(s) \/ UnsubscribeLastFails(s)
      PROVE  LedgerInv'
  <2>1. Decrement(s) /\ UNCHANGED <<subChannel, subConn, connState, connection>>
    BY <1>7 DEF Unsubscribe, UnsubscribeLast, UnsubscribeLastFails, connVars
  <2>2. CountIsSubscribers' /\ channels' \in [Channels -> Nat]
    BY <2>1, DecrementCounted
  <2>3. subChannel[s] \in Channels
    BY <2>1, DecrementCounted
  <2>4. /\ serverListens' \in [Conns -> SUBSET Topics]
        /\ \A c \in Conns : serverListens'[c] \subseteq serverListens[c]
    BY <1>7 DEF Unsubscribe, UnsubscribeLast, UnsubscribeLastFails, execVars, TypeOK,
                CanExec, Unlistened
  <2>5. subState' = [subState EXCEPT ![s] = "gone"] /\ subState[s] = "dropped"
    BY <2>1 DEF Decrement
  <2>6. faulted' \subseteq Topics /\ faults' \in 0 .. MaxFaults
    BY <1>7, <2>3, TopicType, PubSubAssumption
       DEF Unsubscribe, UnsubscribeLast, UnsubscribeLastFails, execVars, TypeOK
  <2>7. TypeOK'
    BY <1>7, <2>2, <2>4, <2>5, <2>6
       DEF Unsubscribe, UnsubscribeLast, UnsubscribeLastFails, connVars, actorVars,
           netVars, TypeOK
  <2>8. MadeInv'
    BY <2>1, <2>5 DEF TypeOK, MadeInv
  <2>9. SessionInv'
    BY <2>1, <2>4 DEF SessionInv
  <2> QED
    BY <2>2, <2>7, <2>8, <2>9
<1>8. ASSUME NEW m \in Messages, NEW t \in Sources, Publish(m, t)
      PROVE  LedgerInv'
  <2> USE <1>8 DEF Publish, connVars, ledgerVars, actorVars, execVars
  <2>1. owed' \subseteq Subs \X Messages \X Conns
    BY DEF TypeOK, MadeInv, Live
  <2>2. /\ wire' \subseteq Conns \X Messages
        /\ published' \in [Messages -> Topics \cup {None}]
    BY PubSubAssumption DEF TypeOK
  <2>3. TypeOK'
    BY <2>1, <2>2 DEF TypeOK
  <2>4. MadeInv' /\ SessionInv'
    BY DEF MadeInv, SessionInv
  <2>5. CountIsSubscribers'
    BY QuietKeepsCount DEF Counted
  <2> QED
    BY <2>3, <2>4, <2>5
<1>9. ASSUME NEW c \in Conns, NEW m \in Messages,
             Receive(c, m) \/ ListenerIgnores(c, m) \/ StartListener(c, m)
      PROVE  LedgerInv'
  <2> USE <1>9 DEF Receive, ListenerIgnores, StartListener, connVars, ledgerVars,
                   actorVars, netVars, execVars
  <2>1. TypeOK'
    BY DEF TypeOK, Live, Matching
  <2>2. MadeInv' /\ SessionInv'
    BY DEF MadeInv, SessionInv
  <2>3. CountIsSubscribers'
    BY QuietKeepsCount DEF Counted
  <2> QED
    BY <2>1, <2>2, <2>3
<1>10. ASSUME NEW s \in Subs, InvokeCallback(s) PROVE LedgerInv'
  <2> USE <1>10 DEF InvokeCallback, connVars, ledgerVars, netVars, execVars
  <2>1. TypeOK'
    BY DEF TypeOK
  <2>2. MadeInv' /\ SessionInv'
    BY DEF MadeInv, SessionInv
  <2>3. CountIsSubscribers'
    BY QuietKeepsCount DEF Counted
  <2> QED
    BY <2>1, <2>2, <2>3
<1>11. CASE EndListener
  <2>1. UNCHANGED subChannel /\ subState' = Released(held, {})
    BY <1>11 DEF EndListener, ledgerVars
  <2>2. /\ subState' \in [Subs -> {"unused", "live", "dropped", "gone"}]
        /\ \A ch \in Channels : Counted(ch)' = Counted(ch)
        /\ \A r \in Subs : subState'[r] = "unused" <=> subState[r] = "unused"
    BY <2>1, ReleasedKeepsCounted DEF TypeOK
  <2> USE <1>11, <2>2 DEF EndListener, connVars, ledgerVars, netVars, execVars
  <2>3. TypeOK'
    BY DEF TypeOK
  <2>4. MadeInv' /\ SessionInv'
    BY DEF TypeOK, MadeInv, SessionInv
  <2>5. CountIsSubscribers'
    BY QuietKeepsCount
  <2> QED
    BY <2>3, <2>4, <2>5
<1> QED
  BY <1>0, <1>1, <1>2, <1>3, <1>4, <1>5, <1>6, <1>7, <1>8, <1>9, <1>10, <1>11,
     <1>12
     DEF Next, ConnectionStep, SubscriptionStep, NotificationStep

\* The types hold and every counter is exact, together: the counters are only natural
\* numbers because they count something.
THEOREM LedgerInvariant == Spec => []LedgerInv
BY LedgerInit, LedgerStep, PTL DEF Spec

-----------------------------------------------------------------------------
(* What holds of the counters *)

\* The type invariant; in particular no counter is ever negative.
THEOREM TypeCorrect == Spec => []TypeOK
BY LedgerInvariant, PTL DEF LedgerInv

\* SQLiteCloud.channels counts the subscriptions that are alive or about to be
\* uncounted, whatever the interleaving of listen, deinit, Tasks and reconnections.
THEOREM CountersAreExact == Spec => []CountIsSubscribers
BY LedgerInvariant, PTL DEF LedgerInv

-----------------------------------------------------------------------------
(* What the server has registered *)

\* A readonly client cannot send a LISTEN, so it has no subscription.
ReadonlyInv == readonly => \A s \in Subs : subState[s] = "unused"

\* Only topics of channels the application uses are registered.
RegisteredInv ==
    \A c \in Conns : serverListens[c] \subseteq {Topic(ch) : ch \in Channels}

\* The inductive invariant of the registrations.
RegistrationInv ==
    LedgerInv /\ ReadonlyInv /\ RegisteredInv /\ LiveIsListened /\ ListenedIsCounted

\* Nothing is registered before the first connection.
LEMMA RegistrationInit == Init => RegistrationInv
BY LedgerInit
   DEF Init, RegistrationInv, ReadonlyInv, RegisteredInv, LiveIsListened,
       ListenedIsCounted, Live

\* What an UNLISTEN leaves alone.
LEMMA UnlistenedKeeps ==
    ASSUME NEW ch0 \in Channels, NEW ch \in Channels, NEW L,
           ChannelName[ch] # ChannelName[ch0], Topic(ch) \in L
    PROVE  Topic(ch) \in Unlistened(L, ChannelName[ch0])
BY DEF Unlistened, Topic

\* No step separates what the server has registered from what the client counts.
LEMMA RegistrationStep == RegistrationInv /\ [Next]_vars => RegistrationInv'
<1> SUFFICES ASSUME RegistrationInv, [Next]_vars PROVE RegistrationInv'
  OBVIOUS
<1> USE DEF RegistrationInv
<1>a. LedgerInv'
  BY LedgerStep
<1>b. TypeOK /\ MadeInv /\ SessionInv /\ CountIsSubscribers
  BY DEF LedgerInv
\* A step that touches neither the server nor the connection nor a counter, and
\* makes no subscription, preserves the rest.
<1>q. ASSUME UNCHANGED <<connection, readonly, channels, subChannel, subConn,
                         serverListens, faulted>>,
             connection \in Conns => connState'[connection] = connState[connection],
             Live' \subseteq Live,
             \A s \in Subs : subState'[s] = "unused" <=> subState[s] = "unused"
      PROVE  RegistrationInv'
  <2>1. ReadonlyInv' /\ RegisteredInv' /\ ListenedIsCounted'
    BY <1>q DEF ReadonlyInv, RegisteredInv, ListenedIsCounted
  <2>2. connection # None => connection \in Conns
    BY <1>b DEF TypeOK
  <2>3. LiveIsListened'
    BY <1>q, <2>2 DEF LiveIsListened, UniqueName
  <2> QED
    BY <1>a, <2>1, <2>3
<1>0. CASE UNCHANGED vars
  BY <1>0, <1>q DEF vars, connVars, ledgerVars, execVars, Live
<1>1. ASSUME NEW c \in Conns, Connect(c) PROVE RegistrationInv'
  <2> USE <1>1 DEF Connect, NewConnection, ledgerVars
  <2>1. ReadonlyInv' /\ RegisteredInv'
    BY DEF ReadonlyInv, RegisteredInv
  <2>2. LiveIsListened'
    BY <1>b DEF LiveIsListened, Live, MadeInv
  <2>3. ListenedIsCounted'
    BY <1>b DEF ListenedIsCounted, SessionInv
  <2> QED
    BY <1>a, <2>1, <2>2, <2>3
<1>2. ASSUME NEW c \in Conns, ConnectFails(c) \/ ConnectPubSubOnlyFails(c)
      PROVE  RegistrationInv'
  <2>1. /\ connState[c] = "unused"
        /\ connState' \in {[connState EXCEPT ![c] = "errored"],
                           [connState EXCEPT ![c] = "open"]}
    BY <1>2 DEF ConnectFails, ConnectPubSubOnlyFails, NewConnection
  <2>2. connection \in Conns => connState'[connection] = connState[connection]
    BY <1>b, <2>1, PubSubAssumption DEF SessionInv, TypeOK
  <2> QED
    BY <1>2, <1>q, <2>2 DEF ConnectFails, ConnectPubSubOnlyFails, ledgerVars, execVars,
                             Live
<1>12. ASSUME NEW c \in Conns, ConnectionLost(c) PROVE RegistrationInv'
  <2> USE <1>12 DEF ConnectionLost, ledgerVars
  <2>1. ReadonlyInv' /\ RegisteredInv'
    BY <1>b DEF ReadonlyInv, RegisteredInv, TypeOK
  <2>2. LiveIsListened'
    BY <1>b DEF LiveIsListened, Live, UniqueName, TypeOK
  <2>3. ListenedIsCounted'
    BY <1>b DEF ListenedIsCounted, TypeOK
  <2> QED
    BY <1>a, <2>1, <2>2, <2>3
<1>3. CASE Disconnect
  <2> USE <1>3 DEF Disconnect, ledgerVars
  <2>1. ReadonlyInv' /\ RegisteredInv'
    BY <1>b DEF ReadonlyInv, RegisteredInv, TypeOK
  <2>2. LiveIsListened'
    BY <1>b, PubSubAssumption DEF LiveIsListened, Live, MadeInv
  <2>3. ListenedIsCounted'
    BY DEF ListenedIsCounted
  <2> QED
    BY <1>a, <2>1, <2>2, <2>3
<1>4. ASSUME NEW s \in Subs, NEW ch \in Channels, Listen(s, ch) PROVE RegistrationInv'
  <2>1. /\ connection \in Conns
        /\ UNCHANGED <<connection, connState, readonly, faulted>>
        /\ ~readonly
        /\ serverListens' = [serverListens EXCEPT ![connection] = @ \cup {Topic(ch)}]
        /\ channels' = [channels EXCEPT ![ch] = @ + 1]
        /\ subChannel' = [subChannel EXCEPT ![s] = ch]
        /\ subConn' = [subConn EXCEPT ![s] = connection]
    BY <1>4, <1>b DEF Listen, CanExec, connVars, TypeOK
  <2>2. Live' = Live \cup {s} /\ s \notin Live
    BY <1>4, <1>b, ListenCounted DEF Listen, Live
  <2>3. ReadonlyInv' /\ RegisteredInv'
    BY <1>b, <2>1 DEF ReadonlyInv, RegisteredInv, TypeOK
  <2>4. LiveIsListened'
    BY <1>b, <2>1, <2>2 DEF LiveIsListened, UniqueName, TypeOK, Live
  <2>5. ListenedIsCounted'
    <3>1. \A d \in Channels : channels'[d] >= channels[d]
      BY <1>b, <2>1 DEF TypeOK
    <3>2. channels'[ch] > 0
      BY <1>b, <2>1 DEF TypeOK
    <3>3. \A d \in Channels : channels[d] > 0 => channels'[d] > 0
      BY <1>b, <2>1 DEF TypeOK
    <3> QED
      BY <1>b, <2>1, <3>2, <3>3 DEF ListenedIsCounted, TypeOK
  <2> QED
    BY <1>a, <2>3, <2>4, <2>5
<1>5. ASSUME NEW ch \in Channels, ListenFails(ch) PROVE RegistrationInv'
  <2> USE <1>5 DEF ListenFails, CanExec, connVars, ledgerVars
  <2>0. connection \in Conns
    BY <1>b DEF TypeOK
  <2>1. ReadonlyInv' /\ RegisteredInv'
    BY <1>b DEF ReadonlyInv, RegisteredInv, TypeOK
  <2>2. LiveIsListened'
    BY <1>b DEF LiveIsListened, Live, UniqueName, TypeOK
  <2>3. ListenedIsCounted'
    BY <1>b, <2>0 DEF ListenedIsCounted, TypeOK
  <2> QED
    BY <1>a, <2>1, <2>2, <2>3
<1>6. ASSUME NEW s \in Subs, Drop(s) PROVE RegistrationInv'
  <2>1. subState' = Released(held', snapshot) /\ UNCHANGED subChannel
    BY <1>6 DEF Drop, ledgerVars
  <2>2. Live' \subseteq Live
        /\ \A r \in Subs : subState'[r] = "unused" <=> subState[r] = "unused"
    BY <1>b, <2>1, ReleasedKeepsCounted DEF TypeOK
  <2> QED
    BY <1>6, <1>q, <2>2 DEF Drop, connVars, ledgerVars, execVars
<1>7. ASSUME NEW s \in Subs,
             Unsubscribe(s) \/ UnsubscribeLast(s) \/ UnsubscribeLastFails(s)
      PROVE  RegistrationInv'
  <2> DEFINE ch0 == subChannel[s]
  <2>1. /\ Decrement(s)
        /\ UNCHANGED <<subChannel, subConn, connection, connState, readonly>>
    BY <1>7 DEF Unsubscribe, UnsubscribeLast, UnsubscribeLastFails, connVars
  <2>2. ch0 \in Channels /\ Live' = Live
    BY <1>b, <2>1, DecrementCounted
  <2>3. ~readonly
    BY <2>1 DEF ReadonlyInv, Decrement
  <2>4. \A d \in Channels : d # ch0 => channels'[d] = channels[d]
    BY <1>b, <2>1 DEF Decrement, TypeOK
  <2>5. channels'[ch0] = 0 => \A r \in Live : subChannel[r] # ch0
    <3>1. channels'[ch0] = 0 => Counted(ch0) \ {s} = {}
      BY <1>b, <2>1, DecrementCounted
    <3>2. s \notin Live
      BY <2>1 DEF Decrement, Live
    <3> QED
      BY <3>1, <3>2 DEF Counted, Live
  <2>6. channels'[ch0] \in Nat
    BY <1>a, <2>2 DEF LedgerInv, TypeOK
  <2>7. \A c \in Conns : serverListens'[c] \subseteq serverListens[c]
    BY <1>7, <1>b DEF Unsubscribe, UnsubscribeLast, UnsubscribeLastFails, execVars,
                     TypeOK, CanExec, Unlistened
  <2>8. ReadonlyInv' /\ RegisteredInv'
    BY <2>1, <2>3, <2>7 DEF ReadonlyInv, RegisteredInv
  <2>9. \/ UNCHANGED serverListens
        \/ /\ channels'[ch0] = 0
           /\ serverListens' = [serverListens EXCEPT ![connection] =
                                   Unlistened(@, ChannelName[ch0])]
    BY <1>7 DEF Unsubscribe, UnsubscribeLast, UnsubscribeLastFails, execVars
  <2>10. LiveIsListened'
    <3> SUFFICES ASSUME NEW r \in Live, NEW q \in Subs,
                        subChannel[q] = subChannel[r], subConn[q] = connection,
                        connection # None, connState[connection] = "open",
                        UniqueName(subChannel[r])
                 PROVE  Topic(subChannel[r]) \in serverListens'[connection]
      BY <2>1, <2>2 DEF LiveIsListened, UniqueName
    <3>1. subChannel[r] \in Channels /\ connection \in Conns
      BY <1>b DEF MadeInv, Live, TypeOK
    <3>2. Topic(subChannel[r]) \in serverListens[connection]
      BY DEF LiveIsListened
    <3>3. CASE UNCHANGED serverListens
      BY <3>2, <3>3
    <3>4. CASE /\ channels'[ch0] = 0
               /\ serverListens' = [serverListens EXCEPT ![connection] =
                                       Unlistened(@, ChannelName[ch0])]
      <4>1. subChannel[r] # ch0
        BY <2>5, <3>4
      <4>2. ChannelName[subChannel[r]] # ChannelName[ch0]
        BY <2>2, <4>1 DEF UniqueName
      <4> QED
        BY <1>b, <2>2, <3>1, <3>2, <3>4, <4>2, UnlistenedKeeps DEF TypeOK
    <3> QED
      BY <2>9, <3>3, <3>4
  <2>11. ListenedIsCounted'
    <3> SUFFICES ASSUME connection # None,
                        NEW t \in serverListens'[connection], t \notin faulted'
                 PROVE  \E ch \in Channels : Topic(ch) = t /\ channels'[ch] > 0
      BY <2>1 DEF ListenedIsCounted
    <3>1. connection \in Conns
      BY <1>b DEF TypeOK
    <3>2. faulted \subseteq faulted'
      BY <1>7 DEF Unsubscribe, UnsubscribeLast, UnsubscribeLastFails, execVars
    <3>3. PICK ch \in Channels : Topic(ch) = t /\ channels[ch] > 0
      BY <2>7, <3>1, <3>2 DEF ListenedIsCounted
    <3>4. CASE ch # ch0
      BY <2>4, <3>3, <3>4
    <3>5. CASE ch = ch0
      <4>1. CASE channels'[ch0] # 0
        BY <2>6, <3>3, <3>5, <4>1
      <4>2. CASE channels'[ch0] = 0
        <5>1. CanExec
          BY <1>b, <2>3, <2>7, <3>1 DEF CanExec, SessionInv
        <5>2. t.name = ChannelName[ch0]
          BY <3>3, <3>5 DEF Topic
        <5>3. CASE UnsubscribeLast(s)
          <6>1. serverListens'[connection] =
                   Unlistened(serverListens[connection], ChannelName[ch0])
            BY <1>b, <3>1, <5>3 DEF UnsubscribeLast, TypeOK
          <6> QED
            BY <5>2, <6>1 DEF Unlistened
        <5>4. CASE UnsubscribeLastFails(s)
          BY <3>3, <3>5, <5>4 DEF UnsubscribeLastFails
        <5> QED
          BY <1>7, <4>2, <5>1, <5>3, <5>4 DEF Unsubscribe
      <4> QED
        BY <4>1, <4>2
    <3> QED
      BY <3>4, <3>5
  <2> QED
    BY <1>a, <2>8, <2>10, <2>11
<1>8. ASSUME NEW m \in Messages, NEW t \in Sources, Publish(m, t)
      PROVE  RegistrationInv'
  BY <1>8, <1>q DEF Publish, connVars, ledgerVars, execVars, Live
<1>9. ASSUME NEW c \in Conns, NEW m \in Messages,
             Receive(c, m) \/ ListenerIgnores(c, m) \/ StartListener(c, m)
      PROVE  RegistrationInv'
  BY <1>9, <1>q DEF Receive, ListenerIgnores, StartListener, connVars, ledgerVars,
                   execVars, Live
<1>10. ASSUME NEW s \in Subs, InvokeCallback(s) PROVE RegistrationInv'
  BY <1>10, <1>q DEF InvokeCallback, connVars, ledgerVars, execVars, Live
<1>11. CASE EndListener
  <2>1. subState' = Released(held, {}) /\ UNCHANGED subChannel
    BY <1>11 DEF EndListener, ledgerVars
  <2>2. Live' \subseteq Live
        /\ \A r \in Subs : subState'[r] = "unused" <=> subState[r] = "unused"
    BY <1>b, <2>1, ReleasedKeepsCounted DEF TypeOK
  <2> QED
    BY <1>11, <1>q, <2>2 DEF EndListener, connVars, ledgerVars, execVars
<1> QED
  BY <1>0, <1>1, <1>2, <1>3, <1>4, <1>5, <1>6, <1>7, <1>8, <1>9, <1>10, <1>11,
     <1>12
     DEF Next, ConnectionStep, SubscriptionStep, NotificationStep

\* The counters, the type of the connection and the registrations agree, together.
THEOREM RegistrationInvariant == Spec => []RegistrationInv
BY RegistrationInit, RegistrationStep, PTL DEF Spec

\* A live subscription of the current connection stays registered on the server.
THEOREM SubscribersStayRegistered == Spec => []LiveIsListened
BY RegistrationInvariant, PTL DEF RegistrationInv

\* Nothing stays registered without a counted subscription, failed commands aside.
THEOREM NoStrayRegistration == Spec => []ListenedIsCounted
BY RegistrationInvariant, PTL DEF RegistrationInv

-----------------------------------------------------------------------------
(* The registry is implemented, when no two channels share a name *)

\* The abstract variables, as functions of the state of PubSub.
Members == [ch \in Channels |-> Counted(ch)]
Registered == IF connection = None THEN {} ELSE serverListens[connection]

\* The initial states of the client map to the initial state of the registry.
LEMMA RegistryInit == Init => Registry!Init
BY DEF Init, Registry!Init, Counted

\* A step that changes neither the session, nor what is counted, nor what is
\* registered is a stutter of the registry.
LEMMA RegistryStutter ==
    ASSUME UNCHANGED <<connection, serverListens>>,
           \A ch \in Channels : Counted(ch)' = Counted(ch)
    PROVE  UNCHANGED Registry!vars
<1>1. Members' = Members
  BY DEF Members
<1>2. Registered' = Registered
  BY DEF Registered
<1> QED
  BY <1>1, <1>2 DEF Registry!vars, Members, Registered

\* With unique names an UNLISTEN removes one topic.
LEMMA UnlistenedOne ==
    ASSUME \A ch \in Channels : UniqueName(ch), NEW ch0 \in Channels,
           NEW L, L \subseteq {Topic(ch) : ch \in Channels}
    PROVE  Unlistened(L, ChannelName[ch0]) = L \ {Topic(ch0)}
BY DEF Unlistened, UniqueName, Topic

\* Every step of the client is a step of the registry or a stutter.
LEMMA RegistryStep ==
    ASSUME \A ch \in Channels : UniqueName(ch), RegistrationInv, [Next]_vars
    PROVE  [Registry!Next]_Registry!vars
<1>b. TypeOK /\ MadeInv /\ SessionInv /\ CountIsSubscribers
  BY DEF RegistrationInv, LedgerInv
<1>0. CASE UNCHANGED vars
  BY <1>0, RegistryStutter DEF vars, connVars, ledgerVars, execVars, Counted
<1>1. ASSUME NEW c \in Conns, Connect(c) PROVE Registry!Open(c)
  <2>1. connection' = c /\ connection # c
    BY <1>1, <1>b, PubSubAssumption DEF Connect, NewConnection, SessionInv
  <2>2. Members' = Members
    BY <1>1 DEF Connect, ledgerVars, Members, Counted
  <2>3. Registered' = {}
    BY <1>1, <1>b, <2>1, PubSubAssumption DEF Connect, NewConnection, SessionInv, Registered
  <2> QED
    BY <2>1, <2>2, <2>3 DEF Registry!Open, Members, Registered
<1>2. ASSUME NEW c \in Conns, ConnectFails(c) \/ ConnectPubSubOnlyFails(c)
      PROVE  UNCHANGED Registry!vars
  BY <1>2, RegistryStutter
     DEF ConnectFails, ConnectPubSubOnlyFails, ledgerVars, execVars, Counted
<1>12. ASSUME NEW c \in Conns, ConnectionLost(c)
       PROVE  Registry!Lost \/ UNCHANGED Registry!vars
  <2>1. Members' = Members /\ UNCHANGED connection
    BY <1>12 DEF ConnectionLost, ledgerVars, Members, Counted
  <2>2. connection \in Conns => serverListens'[connection] =
                                   IF c = connection THEN {} ELSE serverListens[connection]
    BY <1>12, <1>b DEF ConnectionLost, TypeOK
  <2>3. CASE connection # None
    BY <1>b, <2>1, <2>2, <2>3
       DEF Registry!Lost, Registry!vars, Members, Registered, TypeOK
  <2>4. CASE connection = None
    BY <2>1, <2>4 DEF Registry!vars, Members, Registered
  <2> QED
    BY <2>3, <2>4
<1>3. CASE Disconnect
  <2>1. Members' = Members
    BY <1>3 DEF Disconnect, ledgerVars, Members, Counted
  <2>2. Registered' = {} /\ connection # None /\ connection' = None
    BY <1>3 DEF Disconnect, Registered
  <2>3. Registry!Close
    BY <2>1, <2>2 DEF Registry!Close, Members, Registered
  <2> QED
    BY <2>3 DEF Registry!Next
<1>4. ASSUME NEW s \in Subs, NEW ch \in Channels, Listen(s, ch)
      PROVE  Registry!Join(s, ch)
  <2>1. connection # None /\ connection \in Conns /\ UNCHANGED connection
    BY <1>4, <1>b DEF Listen, CanExec, connVars, TypeOK
  <2>2. \A d \in Channels : s \notin Counted(d)
    BY <1>4 DEF Listen, Counted
  <2>3. Members' = [Members EXCEPT ![ch] = @ \cup {s}]
    BY <1>4, <1>b, ListenCounted DEF Members
  <2>4. Registered' = Registered \cup {Topic(ch)}
    BY <1>4, <1>b, <2>1 DEF Listen, Registered, TypeOK
  <2>5. \A d \in Channels : s \notin Members[d]
    BY <2>2 DEF Members
  <2> QED
    BY <2>1, <2>3, <2>4, <2>5 DEF Registry!Join, Members, Registered
<1>5. ASSUME NEW ch \in Channels, ListenFails(ch)
      PROVE  Registry!StrayRegistration(Topic(ch)) \/ UNCHANGED Registry!vars
  <2>1. connection # None /\ connection \in Conns /\ UNCHANGED connection
    BY <1>5, <1>b DEF ListenFails, CanExec, connVars, TypeOK
  <2>2. Members' = Members
    BY <1>5 DEF ListenFails, ledgerVars, Members, Counted
  <2>3. Registered' = Registered \cup {Topic(ch)} \/ Registered' = Registered
    BY <1>5, <1>b, <2>1 DEF ListenFails, Registered, TypeOK
  <2> QED
    BY <2>1, <2>2, <2>3 DEF Registry!StrayRegistration, Registry!vars, Members, Registered
<1>6. ASSUME NEW s \in Subs, Drop(s) PROVE UNCHANGED Registry!vars
  <2>1. subState' = Released(held', snapshot) /\ UNCHANGED subChannel
    BY <1>6 DEF Drop, ledgerVars
  <2>2. \A ch \in Channels : Counted(ch)' = Counted(ch)
    BY <1>b, <2>1, ReleasedKeepsCounted DEF TypeOK
  <2> QED
    BY <1>6, <2>2, RegistryStutter DEF Drop, connVars, execVars
<1>7. ASSUME NEW s \in Subs,
             Unsubscribe(s) \/ UnsubscribeLast(s) \/ UnsubscribeLastFails(s)
      PROVE  Registry!Leave(s, subChannel[s]) /\ subChannel[s] \in Channels
  <2> DEFINE ch0 == subChannel[s]
  <2>1. Decrement(s) /\ UNCHANGED <<subChannel, connection>>
    BY <1>7 DEF Unsubscribe, UnsubscribeLast, UnsubscribeLastFails, connVars
  <2>2. /\ ch0 \in Channels
        /\ s \in Counted(ch0)
        /\ channels'[ch0] = 0 => Counted(ch0) \ {s} = {}
    BY <1>b, <2>1, DecrementCounted
  <2>3. Members' = [Members EXCEPT ![ch0] = @ \ {s}]
    BY <1>b, <2>1, DecrementCounted DEF Members
  <2>4. \/ UNCHANGED serverListens
        \/ /\ channels'[ch0] = 0 /\ connection # None
           /\ serverListens' = [serverListens EXCEPT ![connection] =
                                   Unlistened(@, ChannelName[ch0])]
    BY <1>7 DEF Unsubscribe, UnsubscribeLast, UnsubscribeLastFails, execVars, CanExec
  <2>5. \/ Registered' = Registered
        \/ /\ Members'[ch0] = {}
           /\ Registered' = Registered \ {Topic(ch0)}
    <3>1. CASE UNCHANGED serverListens
      BY <2>1, <3>1 DEF Registered
    <3>2. CASE /\ channels'[ch0] = 0 /\ connection # None
               /\ serverListens' = [serverListens EXCEPT ![connection] =
                                       Unlistened(@, ChannelName[ch0])]
      <4>1. connection \in Conns
        BY <1>b, <3>2 DEF TypeOK
      <4>2. Unlistened(serverListens[connection], ChannelName[ch0])
               = serverListens[connection] \ {Topic(ch0)}
        BY <2>2, <4>1, UnlistenedOne DEF RegistrationInv, RegisteredInv
      <4>3. Registered' = Registered \ {Topic(ch0)}
        BY <1>b, <2>1, <3>2, <4>1, <4>2 DEF Registered, TypeOK
      <4>4. Members'[ch0] = {}
        BY <2>2, <2>3, <3>2 DEF Members
      <4> QED
        BY <4>3, <4>4
    <3> QED
      BY <2>4, <3>1, <3>2
  <2>6. s \in Members[ch0]
    BY <2>2 DEF Members
  <2> QED
    BY <2>1, <2>2, <2>3, <2>5, <2>6 DEF Registry!Leave, Members, Registered
<1>8. ASSUME NEW m \in Messages, NEW t \in Sources, Publish(m, t)
      PROVE  UNCHANGED Registry!vars
  BY <1>8, RegistryStutter DEF Publish, connVars, ledgerVars, execVars, Counted
<1>9. ASSUME NEW c \in Conns, NEW m \in Messages,
             Receive(c, m) \/ ListenerIgnores(c, m) \/ StartListener(c, m)
      PROVE  UNCHANGED Registry!vars
  BY <1>9, RegistryStutter DEF Receive, ListenerIgnores, StartListener, connVars,
                              ledgerVars, execVars, Counted
<1>10. ASSUME NEW s \in Subs, InvokeCallback(s) PROVE UNCHANGED Registry!vars
  BY <1>10, RegistryStutter DEF InvokeCallback, connVars, ledgerVars, execVars, Counted
<1>11. CASE EndListener
  <2>1. subState' = Released(held, {}) /\ UNCHANGED subChannel
    BY <1>11 DEF EndListener, ledgerVars
  <2>2. \A ch \in Channels : Counted(ch)' = Counted(ch)
    BY <1>b, <2>1, ReleasedKeepsCounted DEF TypeOK
  <2> QED
    BY <1>11, <2>2, RegistryStutter DEF EndListener, connVars, execVars
<1> QED
  BY <1>0, <1>1, <1>2, <1>3, <1>4, <1>5, <1>6, <1>7, <1>8, <1>9, <1>10, <1>11, <1>12,
     TopicType
     DEF Next, ConnectionStep, SubscriptionStep, NotificationStep, Registry!Next

\* Counters, deinits and Tasks implement the registry: a subscription joins its
\* channel once and leaves it once, and the channel is only unregistered when its
\* last subscription leaves.  The assumption is needed: UNLISTEN carries only a name.
THEOREM ImplementsRegistry ==
    ASSUME \A ch \in Channels : UniqueName(ch)
    PROVE  Spec => RegistrySpec
<1>1. RegistrationInv /\ [Next]_vars => [Registry!Next]_Registry!vars
  BY RegistryStep
<1> QED
  BY <1>1, RegistryInit, RegistrationInvariant, PTL DEF Spec, RegistrySpec, Registry!Spec

-----------------------------------------------------------------------------
(* Notifications.  One is published once, and an application that disconnects before it *)
(* connects has one connection that is registered for anything, so all copies of the    *)
(* notification are one, and it is in one place: on the wire, a Task, or being          *)
(* delivered.  While it is delivered, the subscriptions still to be called are those    *)
(* that have not been called.                                                           *)

\* What the channels the application uses can tell it about.
Heard == {t \in Sources : \E ch \in Channels : Covers(Topic(ch), t)}

\* Notifications that have been sent and not delivered to the end.
InFlight == wire \cup tasks \cup applying

\* What is in flight or was delivered has been published, and has the name of the
\* subscriptions it is delivered to.
NamedInv ==
    /\ \A x \in InFlight : published[x[2]] \in Heard
    /\ applying = {} => todo = {}
    /\ \A s \in todo :
         /\ subState[s] # "unused"
         /\ \A a \in applying : published[a[2]].name = ChannelName[subChannel[s]]
    /\ \A d \in delivered :
         /\ subState[d[1]] # "unused"
         /\ published[d[2]] \in Heard
         /\ published[d[2]].name = ChannelName[subChannel[d[1]]]

\* The inductive invariant of names.
DeliveryInv == RegistrationInv /\ NamedInv

\* Each notification has one connection and is in one place.
PlaceInv ==
    /\ \A x, y \in InFlight : x[2] = y[2] => x[1] = y[1]
    /\ wire \cap tasks = {} /\ (wire \cup tasks) \cap applying = {}
    /\ \A a, b \in applying : a = b
    /\ \A d \in delivered :
         /\ \A x \in wire \cup tasks : x[2] # d[2]
         /\ \A a \in applying : a[2] = d[2] => a[1] = d[3] /\ d[1] \notin todo
         /\ \A e \in delivered : d[2] = e[2] => d[3] = e[3]

-----------------------------------------------------------------------------
(* Names *)

\* None is nothing one can be told about.
LEMMA NoneIsNoTopic == None \notin Heard
BY PubSubAssumption DEF Heard

\* Whatever is sent to a connection is covered by a channel the application uses,
\* because nothing else is registered (SQLiteCloud.listen).
LEMMA SentIsHeard ==
    ASSUME RegistrationInv, NEW m \in Messages, NEW t \in Sources, Publish(m, t)
    PROVE  /\ wire' \subseteq wire \cup {<<c, m>> : c \in Conns}
           /\ wire' = wire \/ t \in Heard
<1>1. wire' = wire \cup
         {<<c, m>> : c \in {d \in Conns : \E r \in serverListens[d] : Covers(r, t)}}
  BY DEF Publish
<1>2. ASSUME NEW d \in Conns, NEW r \in serverListens[d], Covers(r, t) PROVE t \in Heard
  BY <1>2 DEF RegistrationInv, RegisteredInv, Heard
<1> QED
  BY <1>1, <1>2

\* A step that makes no new subscription and publishes, delivers and starts nothing.
LEMMA NamedQuiet ==
    ASSUME NamedInv, UNCHANGED <<published, subChannel, todo, applying, delivered>>,
           wire' \cup tasks' \subseteq InFlight,
           \A s \in Subs : subState'[s] = "unused" => subState[s] = "unused",
           TypeOK
    PROVE  NamedInv'
BY DEF NamedInv, InFlight, TypeOK

\* What a notification in flight is about does not change, and it only reaches
\* subscriptions of that name.
LEMMA NamedStep == DeliveryInv /\ [Next]_vars => NamedInv'
<1> SUFFICES ASSUME DeliveryInv, [Next]_vars PROVE NamedInv'
  OBVIOUS
<1>b. RegistrationInv /\ NamedInv /\ TypeOK /\ MadeInv
  BY DEF DeliveryInv, RegistrationInv, LedgerInv
<1>0. CASE UNCHANGED vars
  BY <1>0, <1>b, NamedQuiet
     DEF vars, connVars, ledgerVars, actorVars, netVars, execVars, InFlight
<1>1. ASSUME NEW c \in Conns,
             \/ Connect(c) \/ ConnectFails(c) \/ ConnectPubSubOnlyFails(c)
             \/ ConnectionLost(c)
      PROVE  NamedInv'
  BY <1>1, <1>b, NamedQuiet
     DEF Connect, ConnectFails, ConnectPubSubOnlyFails, ConnectionLost, ledgerVars,
         actorVars, netVars, InFlight
<1>2. CASE Disconnect
  BY <1>2, <1>b, NamedQuiet DEF Disconnect, ledgerVars, actorVars, InFlight
<1>3. ASSUME NEW s \in Subs, NEW ch \in Channels, Listen(s, ch) PROVE NamedInv'
  <2>1. /\ subState[s] = "unused" /\ subState' = [subState EXCEPT ![s] = "live"]
        /\ subChannel' = [subChannel EXCEPT ![s] = ch]
        /\ UNCHANGED <<published, wire, tasks, applying, todo, delivered>>
    BY <1>3 DEF Listen, actorVars, netVars
  <2>2. \A r \in Subs : subState[r] # "unused" =>
           subState'[r] # "unused" /\ subChannel'[r] = subChannel[r]
    BY <1>b, <2>1 DEF TypeOK
  <2> QED
    BY <1>b, <2>1, <2>2 DEF NamedInv, InFlight, TypeOK
<1>4. ASSUME NEW ch \in Channels, ListenFails(ch) PROVE NamedInv'
  BY <1>4, <1>b, NamedQuiet DEF ListenFails, ledgerVars, actorVars, netVars, InFlight
<1>5. ASSUME NEW s \in Subs, Drop(s) PROVE NamedInv'
  BY <1>5, <1>b, NamedQuiet
     DEF Drop, Released, ledgerVars, actorVars, netVars, InFlight, TypeOK
<1>6. ASSUME NEW s \in Subs,
             Unsubscribe(s) \/ UnsubscribeLast(s) \/ UnsubscribeLastFails(s)
      PROVE  NamedInv'
  BY <1>6, <1>b, NamedQuiet
     DEF Unsubscribe, UnsubscribeLast, UnsubscribeLastFails, Decrement, actorVars,
         netVars, InFlight, TypeOK
<1>7. ASSUME NEW m \in Messages, NEW t \in Sources, Publish(m, t)
      PROVE  NamedInv'
  <2>1. /\ published[m] = None /\ published' = [published EXCEPT ![m] = t]
        /\ UNCHANGED <<tasks, applying, todo, delivered, subState, subChannel>>
    BY <1>7 DEF Publish, ledgerVars, actorVars
  <2>2. /\ wire' \subseteq wire \cup {<<c, m>> : c \in Conns}
        /\ wire' = wire \/ t \in Heard
    BY <1>7, <1>b, SentIsHeard
  <2>3. /\ published'[m] = t
        /\ \A n \in Messages : published[n] \in Heard => published'[n] = published[n]
    BY <1>b, <2>1, NoneIsNoTopic DEF TypeOK
  <2>4. \A x \in InFlight' : published'[x[2]] \in Heard
    <3>1. \A x \in InFlight : published'[x[2]] \in Heard
      BY <1>b, <2>3 DEF NamedInv, InFlight, TypeOK
    <3>2. InFlight' \subseteq InFlight \cup {<<c, m>> : c \in Conns}
          /\ (InFlight' = InFlight \/ t \in Heard)
      BY <2>1, <2>2 DEF InFlight
    <3> QED
      BY <2>3, <3>1, <3>2
  <2>5. \A s \in todo', a \in applying' :
           published'[a[2]].name = ChannelName[subChannel[s]]
    BY <1>b, <2>1, <2>3 DEF NamedInv, InFlight, TypeOK
  <2>6. \A d \in delivered' : published'[d[2]] = published[d[2]]
    BY <1>b, <2>1, <2>3 DEF NamedInv, TypeOK
  <2> QED
    BY <1>b, <2>1, <2>4, <2>5, <2>6 DEF NamedInv
<1>8. ASSUME NEW c \in Conns, NEW m \in Messages, Receive(c, m) \/ ListenerIgnores(c, m)
      PROVE  NamedInv'
  BY <1>8, <1>b, NamedQuiet
     DEF Receive, ListenerIgnores, ledgerVars, actorVars, InFlight
<1>9. ASSUME NEW c \in Conns, NEW m \in Messages, StartListener(c, m) PROVE NamedInv'
  <2>1. /\ <<c, m>> \in tasks /\ tasks' \subseteq tasks
        /\ applying' = {<<c, m>>} /\ todo' = Matching(m)
        /\ UNCHANGED <<published, wire, delivered, subState, subChannel>>
    BY <1>9 DEF StartListener, ledgerVars
  <2>2. \A s \in todo' : subState[s] # "unused"
                         /\ published[m].name = ChannelName[subChannel[s]]
    BY <2>1 DEF Matching, Live
  <2>3. <<c, m>> \in InFlight /\ InFlight' \subseteq InFlight
    BY <2>1 DEF InFlight
  <2> QED
    BY <1>b, <2>1, <2>2, <2>3 DEF NamedInv
<1>10. ASSUME NEW s \in Subs, InvokeCallback(s) PROVE NamedInv'
  <2>1. /\ s \in todo /\ todo' \subseteq todo
        /\ delivered' = delivered \cup {<<s, a[2], a[1]>> : a \in applying}
        /\ UNCHANGED <<published, wire, tasks, applying, subState, subChannel>>
    BY <1>10 DEF InvokeCallback, ledgerVars, netVars
  <2>2. \A a \in applying : published[a[2]] \in Heard
    BY <1>b DEF NamedInv, InFlight
  <2>3. applying = {} => todo' = {}
    BY <1>b, <2>1 DEF NamedInv
  <2> QED
    BY <1>b, <2>1, <2>2, <2>3 DEF NamedInv, InFlight
<1>11. CASE EndListener
  BY <1>11, <1>b
     DEF EndListener, Released, ledgerVars, netVars, NamedInv, InFlight, TypeOK
<1> QED
  BY <1>0, <1>1, <1>2, <1>3, <1>4, <1>5, <1>6, <1>7, <1>8, <1>9, <1>10, <1>11
     DEF Next, ConnectionStep, SubscriptionStep, NotificationStep

\* Names are right from the start.
THEOREM DeliveryInvariant == Spec => []DeliveryInv
<1>1. Init => NamedInv
  BY DEF Init, NamedInv, InFlight
<1> QED
  BY <1>1, NamedStep, RegistrationInvariant, PTL DEF Spec, DeliveryInv

\* With names of their own, channels and tables only hear their own notifications.
THEOREM NoStrayDelivery == Spec => []OnlyOwnTopic
<1>1. DeliveryInv => OnlyOwnTopic
  <2> SUFFICES ASSUME DeliveryInv, NEW d \in delivered, OwnName(subChannel[d[1]])
               PROVE  Covers(Topic(subChannel[d[1]]), published[d[2]])
    BY DEF OnlyOwnTopic
  <2>1. published[d[2]] \in Heard /\ published[d[2]].name = ChannelName[subChannel[d[1]]]
    BY DEF DeliveryInv, NamedInv
  <2> QED
    BY <2>1 DEF OwnName, Heard, Covers
<1> QED
  BY <1>1, DeliveryInvariant, PTL

-----------------------------------------------------------------------------
(* One session at a time *)

\* A step that makes no connection the current one, registers and sends nothing.
LEMMA SessionQuiet ==
    ASSUME OneSession, UNCHANGED connection, wire' \subseteq wire,
           \A c \in Conns : serverListens'[c] \subseteq serverListens[c]
    PROVE  OneSession'
BY DEF OneSession

\* Commands go to the current connection, and the one before was closed.
LEMMA SessionStep == OneSession /\ RegistrationInv /\ [Next]_vars => OneSession'
<1> SUFFICES ASSUME OneSession, RegistrationInv, [Next]_vars PROVE OneSession'
  OBVIOUS
<1>b. TypeOK /\ SessionInv
  BY DEF RegistrationInv, LedgerInv
<1>0. CASE UNCHANGED vars
  BY <1>0, SessionQuiet DEF vars, connVars, netVars, execVars
<1>1. ASSUME NEW c \in Conns, Connect(c) PROVE OneSession'
  BY <1>1, PubSubAssumption DEF Connect, NewConnection, OneSession, netVars
<1>2. ASSUME NEW c \in Conns, ConnectFails(c) \/ ConnectPubSubOnlyFails(c)
      PROVE  OneSession'
  BY <1>2, SessionQuiet DEF ConnectFails, ConnectPubSubOnlyFails, netVars, execVars
<1>3. ASSUME NEW c \in Conns, ConnectionLost(c) PROVE OneSession'
  BY <1>3, <1>b, SessionQuiet DEF ConnectionLost, TypeOK
<1>4. CASE Disconnect
  <2>1. connection \in Conns
    BY <1>4, <1>b DEF Disconnect, TypeOK
  <2> QED
    BY <1>4, <1>b, <2>1 DEF Disconnect, OneSession, TypeOK
<1>5. ASSUME NEW s \in Subs, NEW ch \in Channels, Listen(s, ch) PROVE OneSession'
  BY <1>5, <1>b DEF Listen, CanExec, OneSession, TypeOK, connVars, netVars
<1>6. ASSUME NEW ch \in Channels, ListenFails(ch) PROVE OneSession'
  BY <1>6, <1>b DEF ListenFails, CanExec, OneSession, TypeOK, connVars, netVars
<1>7. ASSUME NEW s \in Subs, Drop(s) PROVE OneSession'
  BY <1>7, SessionQuiet DEF Drop, connVars, netVars, execVars
<1>8. ASSUME NEW s \in Subs,
             Unsubscribe(s) \/ UnsubscribeLast(s) \/ UnsubscribeLastFails(s)
      PROVE  OneSession'
  BY <1>8, <1>b, SessionQuiet
     DEF Unsubscribe, UnsubscribeLast, UnsubscribeLastFails, Unlistened, CanExec,
         connVars, netVars, execVars, TypeOK
<1>9. ASSUME NEW m \in Messages, NEW t \in Sources, Publish(m, t)
      PROVE  OneSession'
  BY <1>9 DEF Publish, OneSession, connVars, execVars
<1>10. ASSUME NEW c \in Conns, NEW m \in Messages,
              Receive(c, m) \/ ListenerIgnores(c, m) \/ StartListener(c, m)
       PROVE  OneSession'
  BY <1>10, SessionQuiet
     DEF Receive, ListenerIgnores, StartListener, connVars, netVars, execVars
<1>11. ASSUME NEW s \in Subs, InvokeCallback(s) PROVE OneSession'
  BY <1>11, SessionQuiet DEF InvokeCallback, connVars, netVars, execVars
<1>12. CASE EndListener
  BY <1>12, SessionQuiet DEF EndListener, connVars, netVars, execVars
<1> QED
  BY <1>0, <1>1, <1>2, <1>3, <1>4, <1>5, <1>6, <1>7, <1>8, <1>9, <1>10, <1>11, <1>12
     DEF Next, ConnectionStep, SubscriptionStep, NotificationStep

\* Nothing arrives on a connection the actor has left, if it leaves by disconnect.
THEOREM SessionsDoNotOverlap == Spec => []OneSession
<1>1. Init => OneSession
  BY DEF Init, OneSession
<1> QED
  BY <1>1, SessionStep, RegistrationInvariant, PTL DEF Spec

-----------------------------------------------------------------------------
(* At most once *)

\* A step that moves nothing but takes notifications off the wire.
LEMMA PlaceQuiet ==
    ASSUME PlaceInv, wire' \subseteq wire, tasks' \subseteq tasks,
           UNCHANGED <<applying, todo, delivered>>
    PROVE  PlaceInv'
BY DEF PlaceInv, InFlight

\* A notification stays in one place, on one connection.
LEMMA PlaceStep ==
    ASSUME ~MayOverlap, OneSession, DeliveryInv, PlaceInv, [Next]_vars
    PROVE  PlaceInv'
<1>b. TypeOK /\ SessionInv /\ NamedInv
  BY DEF DeliveryInv, RegistrationInv, LedgerInv
<1>0. CASE UNCHANGED vars
  BY <1>0, PlaceQuiet DEF vars, actorVars, netVars
<1>1. ASSUME NEW c \in Conns,
             \/ Connect(c) \/ ConnectFails(c) \/ ConnectPubSubOnlyFails(c)
             \/ ConnectionLost(c)
      PROVE  PlaceInv'
  BY <1>1, PlaceQuiet
     DEF Connect, ConnectFails, ConnectPubSubOnlyFails, ConnectionLost, actorVars,
         netVars
<1>2. CASE Disconnect
  BY <1>2, PlaceQuiet DEF Disconnect, actorVars
<1>3. ASSUME NEW s \in Subs, NEW ch \in Channels, Listen(s, ch) PROVE PlaceInv'
  BY <1>3, PlaceQuiet DEF Listen, actorVars, netVars
<1>11. ASSUME NEW ch \in Channels, ListenFails(ch) PROVE PlaceInv'
  BY <1>11, PlaceQuiet DEF ListenFails, actorVars, netVars
<1>4. ASSUME NEW s \in Subs,
             \/ Drop(s) \/ Unsubscribe(s) \/ UnsubscribeLast(s)
             \/ UnsubscribeLastFails(s)
      PROVE  PlaceInv'
  BY <1>4, PlaceQuiet
     DEF Drop, Unsubscribe, UnsubscribeLast, UnsubscribeLastFails, actorVars, netVars
<1>5. ASSUME NEW m \in Messages, NEW t \in Sources, Publish(m, t)
      PROVE  PlaceInv'
  <2>1. /\ published[m] = None
        /\ wire' \subseteq wire \cup {<<connection, m>>}
        /\ UNCHANGED <<tasks, applying, todo, delivered>>
    BY <1>5 DEF Publish, actorVars, OneSession
  <2>2. \A x \in InFlight : x[2] # m
    BY <1>b, <2>1, NoneIsNoTopic DEF NamedInv
  <2>3. \A d \in delivered : d[2] # m
    BY <1>b, <2>1, NoneIsNoTopic DEF NamedInv
  <2> QED
    BY <2>1, <2>2, <2>3 DEF PlaceInv, InFlight
<1>6. ASSUME NEW c \in Conns, NEW m \in Messages, Receive(c, m) PROVE PlaceInv'
  <2>1. /\ <<c, m>> \in wire /\ wire' = wire \ {<<c, m>>}
        /\ tasks' = tasks \cup {<<c, m>>}
        /\ UNCHANGED <<applying, todo, delivered>>
    BY <1>6 DEF Receive, actorVars
  <2> QED
    BY <2>1 DEF PlaceInv, InFlight
<1>7. ASSUME NEW c \in Conns, NEW m \in Messages, ListenerIgnores(c, m)
      PROVE  PlaceInv'
  BY <1>7, PlaceQuiet DEF ListenerIgnores, actorVars
<1>8. ASSUME NEW c \in Conns, NEW m \in Messages, StartListener(c, m) PROVE PlaceInv'
  <2>1. /\ applying = {} /\ <<c, m>> \in tasks /\ tasks' = tasks \ {<<c, m>>}
        /\ applying' = {<<c, m>>}
        /\ UNCHANGED <<wire, delivered>>
    BY <1>8 DEF StartListener, Idle
  <2> QED
    BY <2>1 DEF PlaceInv, InFlight
<1>9. ASSUME NEW s \in Subs, InvokeCallback(s) PROVE PlaceInv'
  <2>1. /\ s \in todo /\ todo' = todo \ {s}
        /\ delivered' = delivered \cup {<<s, a[2], a[1]>> : a \in applying}
        /\ UNCHANGED <<wire, tasks, applying>>
    BY <1>9 DEF InvokeCallback, netVars
  <2>2. PICK a \in applying : applying = {a}
    BY <1>b, <2>1 DEF NamedInv, PlaceInv
  <2>3. delivered' = delivered \cup {<<s, a[2], a[1]>>}
    BY <2>1, <2>2
  <2>4. \A x \in wire \cup tasks : x[2] # a[2]
    <3> SUFFICES ASSUME NEW x \in wire \cup tasks, x[2] = a[2] PROVE FALSE
      OBVIOUS
    <3>1. x[1] = a[1]
      BY <2>2 DEF PlaceInv, InFlight
    <3>2. x = a
      BY <1>b, <3>1 DEF TypeOK
    <3> QED
      BY <3>2 DEF PlaceInv
  <2>5. \A d \in delivered : d[2] = a[2] => d[3] = a[1] /\ d[1] \notin todo
    BY <2>2 DEF PlaceInv
  <2> QED
    BY <2>1, <2>2, <2>3, <2>4, <2>5 DEF PlaceInv, InFlight
<1>10. CASE EndListener
  BY <1>10 DEF EndListener, netVars, PlaceInv, InFlight
<1> QED
  BY <1>0, <1>1, <1>2, <1>3, <1>4, <1>5, <1>6, <1>7, <1>8, <1>9, <1>10, <1>11
     DEF Next, ConnectionStep, SubscriptionStep, NotificationStep

\* No callback is run twice for a notification, or is about to be, if the application
\* never connects over an open connection.
THEOREM DeliveredAtMostOnce == Spec => []AtMostOnce
<1>1. Init => (~MayOverlap => PlaceInv)
  BY DEF Init, PlaceInv, InFlight
<1>2. OneSession /\ DeliveryInv /\ (~MayOverlap => PlaceInv) /\ [Next]_vars
         => (~MayOverlap => PlaceInv)'
  BY PlaceStep
<1>3. DeliveryInv /\ (~MayOverlap => PlaceInv) => AtMostOnce
  BY DEF DeliveryInv, RegistrationInv, LedgerInv, TypeOK, PlaceInv, AtMostOnce
<1> QED
  BY <1>1, <1>2, <1>3, SessionsDoNotOverlap, DeliveryInvariant, PTL DEF Spec
=============================================================================
