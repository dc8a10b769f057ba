-------------------------- MODULE MCTokenSetBuilder --------------------------
(***************************************************************************)
(* Instances of TokenSetBuilder for TLC.                                   *)
(***************************************************************************)
EXTENDS TokenSetBuilder

CONSTANT MaxWordLength, MaxTermLength

MCAlphabet == <<"a", "b", "c">>

(* The word with the third letter is two edits away from "ca". *)
MCWords == BoundedSeq({"a", "b"}, MaxWordLength) \union {<<"a", "b", "c">>}

MCClauses ==
    [term : BoundedSeq({"a", "b", "*"}, MaxTermLength) \ {<<>>}] \union
    [term : BoundedSeq({"a", "b"}, MaxTermLength) \ {<<>>}, editDistance : {1, 2}] \union
    [term : {<<"c", "a">>, <<"a", "*">>, <<"*", "b", "*">>}, editDistance : {0, 1, 2}]

(* An index of numbers, each with all its words in order. *)
DigitAlphabet == <<"0", "1">>

Numbers == {
    <<"0","0","0","0","0">>, <<"0","0","0","0","1">>, <<"0","0","0","1">>,
    <<"0","0","0","1","0">>, <<"0","0","1">>, <<"0","0","1","0","1">>,
    <<"0","0","1","1","0">>, <<"0","0","1","1","1">>, <<"0","1">>,
    <<"0","1","0","0","1">>, <<"0","1","0","1">>, <<"0","1","0","1","1">>,
    <<"0","1","1","0">>, <<"0","1","1","1">>, <<"1","0","0">>,
    <<"1","0","0","0","1">>, <<"1","1","0","0">>, <<"1","1","0","1","1">>,
    <<"1","1","1">>}

InsertAll ==
    \/ \E word \in Words \ inserted :
           /\ \A v \in Words \ inserted : ~ Before(v, word)
           /\ Insert(word)
    \/ Words = inserted /\ Finish

NumbersSpec == Init /\ [][InsertAll]_vars
=============================================================================
