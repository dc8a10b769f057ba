------------------------ MODULE MCDocumentationSearch ------------------------
(***************************************************************************)
(* An instance of DocumentationSearch for TLC.                             *)
(***************************************************************************)
EXTENDS DocumentationSearch, TLC

CONSTANTS abc, abcd, none, bad

(* Three hits, one hit, none, and a query that cannot be parsed. *)
MCHitsOf == (abc :> <<1, 2, 3>>) @@ (abcd :> <<4>>) @@ (none :> <<>>)
=============================================================================
