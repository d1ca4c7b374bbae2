----------------------- MODULE SubscriptionRegistry -----------------------
(***************************************************************************)
(* What the subscription bookkeeping of SQLiteCloud promises, without      *)
(* counters, object lifetimes or Tasks: each channel has a set of members, *)
(* a subscription joins once and leaves once, and the current session is   *)
(* registered for a channel's topic from the first join to the last leave. *)
(***************************************************************************)
EXTENDS Naturals

CONSTANTS
    Conns,     \* identities of the sessions
    Channels,  \* what can be listened to
    Subs,      \* the subscriptions
    Topics,    \* what the server registers
    Topic(_),  \* the topic of a channel
    None       \* no session

VARIABLES
    session,   \* the current session or None
    members,   \* the subscriptions of each channel
    listened   \* the topics the current session is registered for

vars == <<session, members, listened>>

Init ==
    /\ session = None
    /\ members = [ch \in Channels |-> {}]
    /\ listened = {}

\* A new session starts with nothing registered; the members stay.
Open(c) ==
    /\ session # c
    /\ session' = c
    /\ listened' = {}
    /\ UNCHANGED members

Close ==
    /\ session # None
    /\ session' = None
    /\ listened' = {}
    /\ UNCHANGED members

\* The session goes on, but the server has dropped its registrations.
Lost ==
    /\ session # None
    /\ listened' = {}
    /\ UNCHANGED <<session, members>>

Join(s, ch) ==
    /\ session # None
    /\ \A d \in Channels : s \notin members[d]
    /\ members' = [members EXCEPT ![ch] = @ \cup {s}]
    /\ listened' = listened \cup {Topic(ch)}
    /\ UNCHANGED session

\* Only the last member's leaving may end the registration, and it may fail to.
Leave(s, ch) ==
    /\ s \in members[ch]
    /\ members' = [members EXCEPT ![ch] = @ \ {s}]
    /\ \/ listened' = listened
       \/ /\ members'[ch] = {}
          /\ listened' = listened \ {Topic(ch)}
    /\ UNCHANGED session

\* A failed LISTEN may have registered its topic.
StrayRegistration(t) ==
    /\ session # None
    /\ listened' = listened \cup {t}
    /\ UNCHANGED <<session, members>>

Next ==
    \/ \E c \in Conns : Open(c)
    \/ Close
    \/ Lost
    \/ \E s \in Subs, ch \in Channels : Join(s, ch) \/ Leave(s, ch)
    \/ \E t \in Topics : StrayRegistration(t)

Spec == Init /\ [][Next]_vars
=============================================================================
