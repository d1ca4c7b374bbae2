-------------------------------- MODULE MC_VM --------------------------------
(***************************************************************************)
(* An instance of VM: two rows of two columns whose types differ from row  *)
(* to row, one parameter, and values at the limits of bindValue.           *)
(***************************************************************************)
EXTENDS VM

CONSTANTS t1, t2

Integer(n) == [type |-> "integer", data |-> <<n>>]
Text(s) == [type |-> "text", data |-> s]

\* The second text has a NUL.
TwoRows == << <<Integer(7), Text(<<1, 0, 2>>)>>, <<Text(<<3>>), NoValue>> >>

Given(kind, data) == [kind |-> kind, data |-> data]
\* Numbers in and out of the range of Int32, a text with a NUL, an empty BLOB.
BindValues ==
    {Given("integer", <<3>>), Given("integer", <<9>>), Given("integer64", <<9>>),
     Given("string", <<1, 0, 2>>), Given("blob", <<>>)}
=============================================================================
