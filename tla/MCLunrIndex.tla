----------------------------- MODULE MCLunrIndex -----------------------------
(***************************************************************************)
(* An instance of LunrIndex for TLC: three documents of two fields.        *)
(***************************************************************************)
EXTENDS LunrIndex

MCAlphabet == <<",", "a", "b", "s">>

MCLowerCase(c) == IF c = "A" THEN "a" ELSE c

MCFields == {<<"t">>, <<"k">>}

(* A stemmer that takes a final "s" off longer words. *)
MCStem(w) == IF Len(w) > 1 /\ Last(w) = "s" THEN Front(w) ELSE w

MCStopWords == {<<"b", "a">>, <<"b", "s">>}

Text(title, keywords) == (<<"t">> :> title) @@ (<<"k">> :> keywords)

(* One reference has the character that joins field and reference in it;   *)
(* one title is punctuation only, one is empty.                            *)
MCDocuments ==
    (<<"x">> :> Text(<<"A", "s", " ", "b">>, <<"b", ".", "a", ",">>)) @@
    (<<"y", "/", "z">> :> Text(<<",">>, <<"a", "b", " ", "b", "s", " ", "b">>)) @@
    (<<"w">> :> Text(<<>>, <<"b", "a", " ", "a", "a", " ", "a">>))

MCInputs ==
    BoundedSeq({"a", "b", "s", "*", " "}, 2) \union
    {<<"t", ":", "a">>, <<"k", ":", "b", "*">>, <<"a", "~", "1">>, <<"a", "b", "~", "1">>,
     <<"a", "b", "~", "2">>, <<"a", "^", "0">>, <<"a", "^", "2", " ", "b">>,
     <<"t", ":", "A", " ", "k", ":", "b">>, <<"b", ".", "a">>, <<"a", ",">>,
     <<"b", "a", "~", "1", " ", "b", "^", "3">>, <<"a", "*", "b">>, <<"a", "~">>,
     <<"a", "b", "s">>, <<"\\", "*">>}
=============================================================================
