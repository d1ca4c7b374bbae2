----------------------------- MODULE MC_PubSub -----------------------------
(***************************************************************************)
(* Instances of PubSub: one channel and one table, with names of their     *)
(* own, and all tables.                                                    *)
(***************************************************************************)
EXTENDS PubSub, TLC

CONSTANTS chan, tab, all, a, b, star, c1, c2, s1, s2, s3, m1, m2

\* The channel and the table have names of their own.
DistinctName == (chan :> a) @@ (tab :> b) @@ (all :> star)
TableOnly == (chan :> FALSE) @@ (tab :> TRUE) @@ (all :> TRUE)

\* Both are written to or notified.
ChannelAndTable == {[table |-> FALSE, name |-> a], [table |-> TRUE, name |-> b]}

\* Connections and subscriptions are interchangeable.
Interchangeable == Permutations(Conns) \cup Permutations(Subs)
=============================================================================
