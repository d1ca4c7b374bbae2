----------------------------- MODULE MC_Execute -----------------------------
(***************************************************************************)
(* Instances of Execute: lists of up to MaxParams parameters, of up to two *)
(* bytes each.                                                             *)
(***************************************************************************)
EXTENDS Execute

CONSTANT MaxParams

\* Numbers of one and of two digits, empty texts and BLOBs, a NUL at the end of a text
\* and at the beginning of a BLOB, a BLOB that is no UTF-8.
Values ==
    {[kind |-> "integer", bytes |-> <<Ascii>>],
     [kind |-> "double",  bytes |-> <<Ascii, Ascii>>],
     [kind |-> "null",    bytes |-> <<>>]}
    \cup [kind : {"string"}, bytes : {<<>>, <<Ascii, NUL>>}]
    \cup [kind : {"blob"}, bytes : {<<>>, <<NUL, Ascii>>, <<Invalid>>}]

Lists(S) == UNION {[1 .. n -> S] : n \in 0 .. MaxParams}

AllLists == Lists(Values)
\* Lists of nulls and strings.
NullLists ==
    Lists({[kind |-> "null", bytes |-> <<>>], [kind |-> "string", bytes |-> <<Ascii>>]})
=============================================================================
