------------------------- MODULE MCSemanticService -------------------------
(***************************************************************************)
(* SemanticService for TLC: a batch of two items and a single operation    *)
(* under one key.                                                          *)
(***************************************************************************)
EXTENDS SemanticService

CONSTANTS batch, single

MCChar == {NUL, "v", "c", "1", "n", "a"}
MCValidate == <<"v">>
MCCheck == <<"c">>

Item(o, s, v) == [operation |-> o, subject |-> s, version |-> <<"1">>, value |-> v]

\* Two rules for the same value, and two checks that share a key.
name == Item(Validate, <<"n">>, <<"a">>)
address == Item(Validate, <<"a">>, <<"a">>)
left == Item(Check, <<"n", NUL, "1", NUL, "a">>, <<"a">>)
right == Item(Check, <<"n">>, <<"a", NUL, "1", NUL, "a">>)

MCSubject == {name, address, left, right}
MCFewSubjects == {name, address}

\* The same item twice, an item that is refused beside one that is not, two
\* different items; single operations that share an item with the batch, or
\* their key with another.
MCJobs ==
  [r \in Conn |->
     IF r \in Single THEN {<<name>>, <<left>>, <<right>>}
     ELSE {<<name>>, <<name, name>>, <<Bad, address>>, <<address, name>>}]

\* A smaller choice.
MCFewJobs ==
  [r \in Conn |-> IF r \in Single THEN {<<name>>} ELSE {<<name, Bad>>}]
=============================================================================
