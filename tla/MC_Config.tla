------------------------------ MODULE MC_Config ------------------------------
(***************************************************************************)
(* An instance of Config: connection strings with up to two query items of *)
(* the same or different names, with values of every kind.                 *)
(***************************************************************************)
EXTENDS Config, TLC

CONSTANTS two, nine, huge, true, false, other

\* nine does not fit an Int32, huge no Int.
Numbers == (two :> 2) @@ (nine :> 9) @@ (huge :> 99)
Truths == (true :> TRUE) @@ (false :> FALSE)

\* A key of each kind.
Items == [name : {"timeout", "maxrows", "compression", "family", "apikey",
                  "root_certificate"},
          value : Optional(Texts)]
Queries == {<<>>} \cup {<<i>> : i \in Items} \cup {<<i, j>> : <<i, j>> \in Items \X Items}

ConnectionStrings ==
    [host : {{}, {other}}, user : {{}, {other}}, password : {{}, {true}},
     port : {{}, {9}}, path : {<<Slash, other>>}, items : Queries]

\* What an application sets by hand: everything, or as little as possible.
ByHand ==
    {[hostname |-> other, port |-> p, username |-> u, password |-> u, apiKey |-> k,
      family |-> "ipv6", dbname |-> d, numbers |-> [x \in NumberKeys |-> n],
      flags |-> [x \in FlagKeys |-> TRUE], texts |-> [x \in TextKeys |-> {}]] :
        <<p, u, k, d, n>> \in {<<q, v, l, e, m>> \in {{}, {2}, {9}} \X Optional({other})
                                  \X Optional({true}) \X Optional({<<other>>}) \X {0, 9} :
                                (v = {}) # (l = {})}}
=============================================================================
