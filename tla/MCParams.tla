------------------------------ MODULE MCParams ------------------------------
(* Handlers that take one value or two.                                     *)
EXTENDS Params, TLC

OneType == [p \in ValParams |-> <<"value">>]
Infos == {"value", "io"}
Kinds == {<<>>, <<"value">>, <<"value", "value">>, <<"io">>, <<"io", "value">>}

Interchangeable == Permutations(ValParams) \cup Permutations(Impls)
=============================================================================
