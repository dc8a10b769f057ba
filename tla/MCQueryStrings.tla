---------------------------- MODULE MCQueryStrings ----------------------------
(***************************************************************************)
(* An instance of QueryStrings for TLC: every short string over letters,   *)
(* a digit, a separator and the characters that mean something, and some   *)
(* longer ones with several clauses.                                       *)
(***************************************************************************)
EXTENDS QueryStrings, SequencesExt

CONSTANT MaxLength

MCInputs ==
    BoundedSeq({"t", "A", "2", " ", ":", "~", "^", "\\"}, MaxLength) \union
    {<<"t", ":", "A", "^", "2", "2", "~", "2", " ", "t", "\\", ":">>,
     <<"A", "~", "2", " ", " ", "t", ":", "t", "^", "2", " ", "A">>,
     <<"\\", "~", "A", "^", "2", "^", "t", ":", "A">>}

MCLowerCase(c) == IF c = "A" THEN "a" ELSE c

MCFields == {<<"t">>, <<"k">>}
=============================================================================
