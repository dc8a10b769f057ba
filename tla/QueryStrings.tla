----------------------------- MODULE QueryStrings -----------------------------
(***************************************************************************)
(* What lunr makes of a query string (docs/styles/lunr.js, QueryLexer,     *)
(* QueryParser and Query): the lexer cuts it into lexemes, each of its     *)
(* state functions an action and each turn of the loop of lexText a step;  *)
(* the parser makes clauses of them, or throws a QueryParseError.          *)
(* Positions count from 0 as in the code; str[p + 1] is the character at   *)
(* position p.                                                             *)
(***************************************************************************)
EXTENDS Naturals, Sequences, FiniteSets

CONSTANTS Inputs,         \* the strings that may be typed, sequences of characters
          Separators,     \* QueryLexer.termSeparator
          Fields,         \* Query.allFields, the names as sequences of characters
          LowerCase(_)    \* toLowerCase of one character

ASSUME InputsAssumption == \A s \in Inputs : s \in Seq(STRING)

VARIABLES str, pos, start, escapeCharPositions, lexemes,   \* the lexer
          state,                                           \* the next state function
          lexemeIdx, currentClause, clauses                \* the parser and its query

lexer == <<pos, start, escapeCharPositions, lexemes>>
parser == <<lexemeIdx, currentClause, clauses>>
queryVars == <<str, lexer, state, parser>>

DigitValue == [d \in {"0", "1", "2", "3", "4", "5", "6", "7", "8", "9"} |->
    CASE d = "0" -> 0 [] d = "1" -> 1 [] d = "2" -> 2 [] d = "3" -> 3 [] d = "4" -> 4
      [] d = "5" -> 5 [] d = "6" -> 6 [] d = "7" -> 7 [] d = "8" -> 8 [] d = "9" -> 9]

(* The separators are blanks and hyphens. *)
ASSUME SeparatorsAssumption == Separators \cap DOMAIN DigitValue = {}

LexStates == {"lexText", "lexField", "lexTerm", "lexEditDistance", "lexBoost", "lexEOS"}
ParseStates == {"parseFieldOrTerm", "parseField", "parseTerm", "parseEditDistance", "parseBoost"}
Ended == {"done", "error"}

NoClause == [c \in {} |-> 0]

StartQuery(input) ==
    /\ str = input
    /\ pos = 0
    /\ start = 0
    /\ escapeCharPositions = {}
    /\ lexemes = <<>>
    /\ state = "lexText"
    /\ lexemeIdx = 1
    /\ currentClause = NoClause
    /\ clauses = <<>>

QueryInit == \E input \in Inputs : StartQuery(input)

-----------------------------------------------------------------------------
(* The lexer. *)

More(p) == p < Len(str)

Char == str[pos + 1]

(* Mutant: escape characters stay in the lexeme. *)
SliceWithEscapes(from, to) ==
    SubSeq(str, from + 1, IF to > Len(str) THEN Len(str) ELSE to)

(* The characters from one position to another, without escape characters; *)
(* an escape character at the end of the string has moved pos beyond it.   *)
SliceString(from, to) ==
    LET kept == {p \in from .. (to - 1) : p < Len(str) /\ p \notin escapeCharPositions}
        At(i) == CHOOSE p \in kept : Cardinality({q \in kept : q < p}) = i - 1
    IN  [i \in 1 .. Cardinality(kept) |-> str[At(i) + 1]]

(* Mutant: the escape characters of a lexeme are not forgotten. *)
EmitKeepingEscapes(type, end) ==
    /\ lexemes' = Append(lexemes, [type |-> type, str |-> SliceString(start, end),
                                   start |-> start, end |-> end])
    /\ UNCHANGED escapeCharPositions

Emit(type, end) ==
    /\ lexemes' = Append(lexemes, [type |-> type, str |-> SliceString(start, end),
                                   start |-> start, end |-> end])
    /\ escapeCharPositions' = {}

Ignore(from, p) == IF from = p THEN p + 1 ELSE p

(* Where the run of digits from position p on ends. *)
DigitRunEnd(p) ==
    CHOOSE e \in p .. Len(str) :
        /\ \A q \in p .. (e - 1) : str[q + 1] \in DOMAIN DigitValue
        /\ e = Len(str) \/ str[e + 1] \notin DOMAIN DigitValue

LexTextEnds ==
    /\ state = "lexText"
    /\ ~ More(pos)
    /\ state' = "lexEOS"
    /\ UNCHANGED <<str, lexer, parser>>

(* Mutant: the lexer backs up in front of the escape character. *)
EscapeInPlace ==
    /\ state = "lexText" /\ More(pos)
    /\ Char = "\\"
    /\ escapeCharPositions' = escapeCharPositions \union {pos}
    /\ UNCHANGED <<str, pos, start, lexemes, state, parser>>

EscapeCharacter ==
    /\ state = "lexText" /\ More(pos)
    /\ Char = "\\"
    /\ escapeCharPositions' = escapeCharPositions \union {pos}
    /\ pos' = pos + 2
    /\ UNCHANGED <<str, start, lexemes, state, parser>>

ReadFieldMark ==
    /\ state = "lexText" /\ More(pos)
    /\ Char = ":"
    /\ pos' = pos + 1
    /\ state' = "lexField"
    /\ UNCHANGED <<str, start, escapeCharPositions, lexemes, parser>>

(* "~" and "^" end a term; the lexer stays in front of them. *)
ReadOperator ==
    /\ state = "lexText" /\ More(pos)
    /\ Char \in {"~", "^"}
    /\ IF pos > start
       THEN Emit("TERM", pos) /\ start' = pos
       ELSE UNCHANGED <<start, escapeCharPositions, lexemes>>
    /\ state' = IF Char = "~" THEN "lexEditDistance" ELSE "lexBoost"
    /\ UNCHANGED <<str, pos, parser>>

ReadCharacter ==
    /\ state = "lexText" /\ More(pos)
    /\ Char \notin {"\\", ":", "~", "^"}
    /\ pos' = pos + 1
    /\ state' = IF Char \in Separators THEN "lexTerm" ELSE "lexText"
    /\ UNCHANGED <<str, start, escapeCharPositions, lexemes, parser>>

LexField ==
    /\ state = "lexField"
    /\ Emit("FIELD", pos - 1)
    /\ pos' = Ignore(pos - 1, pos - 1)
    /\ start' = pos'
    /\ state' = "lexText"
    /\ UNCHANGED <<str, parser>>

LexTerm ==
    /\ state = "lexTerm"
    /\ IF pos - start > 1
       THEN /\ Emit("TERM", pos - 1)
            /\ pos' = Ignore(pos - 1, pos - 1)
       ELSE /\ pos' = Ignore(start, pos)
            /\ UNCHANGED <<escapeCharPositions, lexemes>>
    /\ start' = pos'
    /\ state' = IF More(pos') THEN "lexText" ELSE "parseFieldOrTerm"
    /\ UNCHANGED <<str, parser>>

LexNumber(type) ==
    LET from == Ignore(start, pos) IN
    /\ pos' = DigitRunEnd(from)
    /\ start' = pos'
    /\ lexemes' = Append(lexemes, [type |-> type, str |-> SubSeq(str, from + 1, pos'),
                                   start |-> from, end |-> pos'])
    /\ escapeCharPositions' = {}
    /\ state' = "lexText"
    /\ UNCHANGED <<str, parser>>

LexEditDistance == state = "lexEditDistance" /\ LexNumber("EDIT_DISTANCE")

LexBoost == state = "lexBoost" /\ LexNumber("BOOST")

LexEOS ==
    /\ state = "lexEOS"
    /\ IF pos > start
       THEN Emit("TERM", pos) /\ start' = pos
       ELSE UNCHANGED <<start, escapeCharPositions, lexemes>>
    /\ state' = "parseFieldOrTerm"
    /\ UNCHANGED <<str, pos, parser>>

-----------------------------------------------------------------------------
(* The parser. *)

HasLexeme(i) == i <= Len(lexemes)

(* The properties of a clause that were given, and the defaults.  The      *)
(* parser never asks for automatic wildcards.                              *)
Clause(given) ==
    LET default == [fields |-> Fields, boost |-> 1, usePipeline |-> TRUE]
    IN  [p \in DOMAIN given \union DOMAIN default |->
            IF p \in DOMAIN given THEN given[p] ELSE default[p]]

With(given, p, value) == [q \in DOMAIN given \union {p} |-> IF q = p THEN value ELSE given[q]]

Throw ==
    /\ state' = "error"
    /\ UNCHANGED <<str, lexer, parser>>

ParseFieldOrTerm ==
    /\ state = "parseFieldOrTerm"
    /\ \/ /\ ~ HasLexeme(lexemeIdx)
          /\ state' = "done"
          /\ UNCHANGED <<str, lexer, parser>>
       \/ /\ HasLexeme(lexemeIdx) /\ lexemes[lexemeIdx].type \in {"FIELD", "TERM"}
          /\ state' = IF lexemes[lexemeIdx].type = "FIELD" THEN "parseField" ELSE "parseTerm"
          /\ UNCHANGED <<str, lexer, parser>>
       \/ /\ HasLexeme(lexemeIdx) /\ lexemes[lexemeIdx].type \notin {"FIELD", "TERM"}
          /\ Throw

ParseField ==
    /\ state = "parseField"
    /\ LET f == lexemes[lexemeIdx].str
           accepted == /\ f \in Fields
                       /\ HasLexeme(lexemeIdx + 1)
                       /\ lexemes[lexemeIdx + 1].type = "TERM"
       IN  \/ /\ accepted
              /\ currentClause' = With(currentClause, "fields", {f})
              /\ lexemeIdx' = lexemeIdx + 1
              /\ state' = "parseTerm"
              /\ UNCHANGED <<str, lexer, clauses>>
           \/ ~ accepted /\ Throw

(* Mutant: nextClause goes on with the clause it has completed. *)
ContinueWithSameClause(clause, i) ==
    /\ lexemeIdx' = i
    /\ LET next == IF HasLexeme(i) THEN lexemes[i].type ELSE "EOS"
       IN  IF next \in {"EDIT_DISTANCE", "BOOST"}
           THEN /\ currentClause' = clause
                /\ state' = IF next = "BOOST" THEN "parseBoost" ELSE "parseEditDistance"
                /\ UNCHANGED clauses
           ELSE /\ clauses' = Append(clauses, Clause(clause))
                /\ currentClause' = clause
                /\ state' = CASE next = "TERM" -> "parseTerm"
                              [] next = "FIELD" -> "parseField"
                              [] OTHER -> "done"
    /\ UNCHANGED <<str, lexer>>

(* The lexeme after a term or one of its operators completes the clause    *)
(* (nextClause) or adds to it; the clause is as the lexeme before left it. *)
Continue(clause, i) ==
    /\ lexemeIdx' = i
    /\ LET next == IF HasLexeme(i) THEN lexemes[i].type ELSE "EOS"
       IN  IF next \in {"EDIT_DISTANCE", "BOOST"}
           THEN /\ currentClause' = clause
                /\ state' = IF next = "BOOST" THEN "parseBoost" ELSE "parseEditDistance"
                /\ UNCHANGED clauses
           ELSE /\ clauses' = Append(clauses, Clause(clause))
                /\ currentClause' = NoClause
                /\ state' = CASE next = "TERM" -> "parseTerm"
                              [] next = "FIELD" -> "parseField"
                              [] OTHER -> "done"
    /\ UNCHANGED <<str, lexer>>

ParseTerm ==
    /\ state = "parseTerm"
    /\ LET s == lexemes[lexemeIdx].str
           c == With(currentClause, "term", [i \in DOMAIN s |-> LowerCase(s[i])])
       IN  Continue(IF \E i \in DOMAIN s : s[i] = "*" THEN With(c, "usePipeline", FALSE) ELSE c,
                    lexemeIdx + 1)

(* parseInt of a run of digits; of no digits it is not a number. *)
ParseInt(s) ==
    LET v[n \in 0 .. Len(s)] == IF n = 0 THEN 0 ELSE 10 * v[n - 1] + DigitValue[s[n]]
    IN  v[Len(s)]

ParseNumber(property) ==
    LET s == lexemes[lexemeIdx].str IN
    \/ s = <<>> /\ Throw
    \/ s # <<>> /\ Continue(With(currentClause, property, ParseInt(s)), lexemeIdx + 1)

ParseEditDistance == state = "parseEditDistance" /\ ParseNumber("editDistance")

ParseBoost == state = "parseBoost" /\ ParseNumber("boost")

-----------------------------------------------------------------------------

QueryNext ==
    \/ LexTextEnds
    \/ EscapeCharacter
    \/ ReadFieldMark
    \/ ReadOperator
    \/ ReadCharacter
    \/ LexField
    \/ LexTerm
    \/ LexEditDistance
    \/ LexBoost
    \/ LexEOS
    \/ ParseFieldOrTerm
    \/ ParseField
    \/ ParseTerm
    \/ ParseEditDistance
    \/ ParseBoost

(* JavaScript runs a search to its end. *)
QuerySpec == QueryInit /\ [][QueryNext]_queryVars /\ WF_queryVars(QueryNext)

-----------------------------------------------------------------------------

Lexeme == [type : {"TERM", "FIELD", "EDIT_DISTANCE", "BOOST"}, str : Seq(STRING),
           start : Nat, end : Nat]

(* The lexemes are stretches of the string that follow one another, and    *)
(* the escape characters remembered are those of the stretch being read:   *)
(* none is left from an earlier lexeme, although only emit forgets them.   *)
(* An escape character that ends the string takes pos one beyond the end.  *)
LexemesInOrder ==
    /\ pos \in Nat /\ start \in Nat /\ escapeCharPositions \subseteq Nat
    /\ lexemes \in Seq(Lexeme)
    /\ start <= pos /\ pos <= Len(str) + 1
    /\ \A p \in escapeCharPositions : start <= p /\ p + 2 <= pos
    /\ \A i \in DOMAIN lexemes :
           /\ lexemes[i].start <= lexemes[i].end
           /\ lexemes[i].end <= IF i = Len(lexemes) THEN start ELSE lexemes[i + 1].start

(* Position i of the string follows an escape character that counts. *)
Escaped(i) ==
    LET e[j \in 0 .. Len(str)] == j > 1 /\ str[j - 1] = "\\" /\ ~ e[j - 1]
    IN  e[i]

Literals ==
    {i \in 1 .. Len(str) : Escaped(i) \/ str[i] \notin {"\\", ":", "~", "^"} \union Separators}

CharactersOf(lexs) ==
    LET chars[n \in 0 .. Len(lexs)] == IF n = 0 THEN <<>> ELSE chars[n - 1] \o lexs[n].str
    IN  chars[Len(lexs)]

(* A lexed string has lost only its separators, operators and escape       *)
(* characters: every other character, and every escaped one, is in exactly *)
(* one lexeme, in its place (QueryLexer.emit, ignore, backup, sliceString).*)
LiteralsKept ==
    state \in ParseStates \union Ended =>
        CharactersOf(lexemes) =
            [n \in 1 .. Cardinality(Literals) |->
                str[CHOOSE i \in Literals : Cardinality({j \in Literals : j <= i}) = n]]

Terms == {i \in DOMAIN lexemes : lexemes[i].type = "TERM"}

(* The operators of the term at i: those before the next term or field. *)
OperatorsOf(i, type) ==
    {j \in DOMAIN lexemes : /\ j > i /\ lexemes[j].type = type
                            /\ \A k \in (i + 1) .. j : lexemes[k].type \in {"EDIT_DISTANCE", "BOOST"}}

Latest(S) == CHOOSE i \in S : \A j \in S : j <= i

MeansTerm(clause, i) ==
    /\ clause.term = [n \in DOMAIN lexemes[i].str |-> LowerCase(lexemes[i].str[n])]
    /\ clause.fields = IF i > 1 /\ lexemes[i - 1].type = "FIELD" THEN {lexemes[i - 1].str} ELSE Fields
    /\ clause.boost = IF OperatorsOf(i, "BOOST") = {} THEN 1
                      ELSE ParseInt(lexemes[Latest(OperatorsOf(i, "BOOST"))].str)
    /\ IF OperatorsOf(i, "EDIT_DISTANCE") = {} THEN "editDistance" \notin DOMAIN clause
       ELSE clause.editDistance = ParseInt(lexemes[Latest(OperatorsOf(i, "EDIT_DISTANCE"))].str)

WellFormed ==
    \A i \in DOMAIN lexemes :
        CASE lexemes[i].type = "FIELD" -> lexemes[i].str \in Fields /\ i + 1 \in Terms
          [] lexemes[i].type = "TERM" -> TRUE
          [] OTHER -> lexemes[i].str # <<>> /\ i > 1 /\ lexemes[i - 1].type # "FIELD"

(* The n-th clause of a parsed query is the n-th term with the field in    *)
(* front of it and the last of its own operators of each kind: none of     *)
(* these leaks into a later clause.  A query is refused exactly when an    *)
(* operator lacks its term or number, or a field is unknown or lacks its   *)
(* term (QueryParser's state functions, nextClause).                       *)
ClausesMeanTerms ==
    /\ state = "done" =>
           /\ WellFormed
           /\ Len(clauses) = Cardinality(Terms)
           /\ \A i \in Terms : MeansTerm(clauses[Cardinality({j \in Terms : j <= i})], i)
    /\ state = "error" => ~ WellFormed

(* Every string is parsed or refused in the end: neither loop runs for     *)
(* ever (lexText, acceptDigitRun, QueryParser.parse).                      *)
QueriesEnd == <>(state \in Ended)
=============================================================================
