-------------------------------- MODULE Jsmn --------------------------------
(***************************************************************************)
(* jsmn.h as the rover builds it: not strict, without links to parents.    *)
(*                                                                         *)
(* jsmn_parse walks through a message and fills an array of tokens.  Here  *)
(* the message is read lexeme by lexeme, a step each; js is what has been  *)
(* read.  A lexeme is one of the six signs { } [ ] : , or a quoted string, *)
(* or a primitive (any other run of characters), or "bad": a character or  *)
(* an escape that is refused, or "cut": a string without its end.  White   *)
(* space between lexemes changes nothing and is left out.                  *)
(*                                                                         *)
(* start and end of a token are the numbers of lexemes; a bracket that is  *)
(* not closed yet has the end -1.  Tokens are numbered from 1, so the      *)
(* toksuper -1 of the code is 0.                                           *)
(***************************************************************************)
EXTENDS Integers, Selection

CONSTANT NUM_TOKENS     \* jsonParser.c: 128

ASSUME TokensAssumption == NUM_TOKENS \in Nat \ {0}

JSMN_ERROR_NOMEM == -1
JSMN_ERROR_INVAL == -2
JSMN_ERROR_PART  == -3

\* No result yet.
RUNNING == -4

VARIABLES js, tokens, toksuper, result

jsmnVars == <<js, tokens, toksuper, result>>

Lexeme(kind, text) == [kind |-> kind, text |-> text]

\* jsmn_init.
JsmnInit == js = << >> /\ tokens = << >> /\ toksuper = 0 /\ result = RUNNING

JsmnReset == js' = << >> /\ tokens' = << >> /\ toksuper' = 0 /\ result' = RUNNING

Containers == {"object", "array"}

Token(type, start, end) == [type |-> type, start |-> start, end |-> end, size |-> 0]

IsOpen(t) == t.end = -1

OpenTokens == {i \in DOMAIN tokens : IsOpen(tokens[i])}

\* Fault: the scan starts at the first token.
Innermost_First(S) == IF S = {} THEN 0 ELSE CHOOSE i \in S : \A j \in S : j >= i

\* Where a scan back from the last token ends: 0 when nothing is found.
Innermost(S) == IF S = {} THEN 0 ELSE CHOOSE i \in S : \A j \in S : j <= i

Read(x) ==
    /\ result = RUNNING
    /\ js' = Append(js, x)

Fail(error) == result' = error /\ UNCHANGED <<tokens, toksuper>>

\* A new token is counted in the one it belongs to.
Add(t) ==
    tokens' = Append([i \in DOMAIN tokens |->
                        IF i = toksuper THEN [tokens[i] EXCEPT !.size = @ + 1] ELSE tokens[i]], t)

\* Fault: the end of the array is not looked at.
Full_Never == FALSE

\* jsmn_alloc_token.
Full == Len(tokens) >= NUM_TOKENS

OpenBracket(x, type) ==
    /\ Read(x)
    /\ IF Full THEN Fail(JSMN_ERROR_NOMEM)
       ELSE /\ Add(Token(type, Len(js'), -1))
            /\ toksuper' = Len(tokens')
            /\ UNCHANGED result

\* Fault: any closing bracket ends the innermost open one.
CloseBracket_AnyKind(x, type) ==
    /\ Read(x)
    /\ LET i == Innermost(OpenTokens)
       IN  IF i = 0 THEN Fail(JSMN_ERROR_INVAL)
           ELSE /\ tokens' = [tokens EXCEPT ![i].end = Len(js')]
                /\ toksuper' = Innermost(OpenTokens \ {i})
                /\ UNCHANGED result

CloseBracket(x, type) ==
    /\ Read(x)
    /\ LET i == Innermost(OpenTokens)
       IN  IF i = 0 \/ (i # 0 /\ tokens[i].type # type) THEN Fail(JSMN_ERROR_INVAL)
           ELSE /\ tokens' = [tokens EXCEPT ![i].end = Len(js')]
                /\ toksuper' = Innermost(OpenTokens \ {i})
                /\ UNCHANGED result

\* jsmn_parse_string and jsmn_parse_primitive.
Scalar(x, type) ==
    /\ Read(x)
    /\ IF Full THEN Fail(JSMN_ERROR_NOMEM)
       ELSE Add(Token(type, Len(js'), Len(js'))) /\ UNCHANGED <<toksuper, result>>

Colon(x) ==
    /\ Read(x)
    /\ toksuper' = Len(tokens)
    /\ UNCHANGED <<tokens, result>>

\* Fault: the name stays the one that the next token belongs to.
Comma_KeepSuper(x) == Read(x) /\ UNCHANGED <<tokens, toksuper, result>>

Comma(x) ==
    /\ Read(x)
    /\ toksuper' = IF toksuper # 0 /\ tokens[toksuper].type \notin Containers /\ OpenTokens # {}
                   THEN Innermost(OpenTokens) ELSE toksuper
    /\ UNCHANGED <<tokens, result>>

Refuse(x, error) == Read(x) /\ Fail(error)

\* One turn of the loop of jsmn_parse.
ParseLexeme(x) ==
    \/ x.kind = "{" /\ OpenBracket(x, "object")
    \/ x.kind = "[" /\ OpenBracket(x, "array")
    \/ x.kind = "}" /\ CloseBracket(x, "object")
    \/ x.kind = "]" /\ CloseBracket(x, "array")
    \/ x.kind \in {"string", "primitive"} /\ Scalar(x, x.kind)
    \/ x.kind = ":" /\ Colon(x)
    \/ x.kind = "," /\ Comma(x)
    \/ x.kind = "bad" /\ Refuse(x, JSMN_ERROR_INVAL)
    \/ x.kind = "cut" /\ Refuse(x, JSMN_ERROR_PART)

\* The message is over: the number of tokens, unless one is open.
EndOfMessage ==
    /\ result = RUNNING
    /\ result' = IF OpenTokens = {} THEN Len(tokens) ELSE JSMN_ERROR_PART
    /\ UNCHANGED <<js, tokens, toksuper>>

-----------------------------------------------------------------------------
(***************************************************************************)
(* Properties.                                                             *)
(***************************************************************************)
JsmnTypeOK ==
    /\ tokens \in Seq([type : Containers \cup {"string", "primitive"},
                       start : Nat \ {0}, end : Nat \cup {-1}, size : Nat])
    /\ Len(tokens) <= NUM_TOKENS /\ toksuper \in 0..Len(tokens)
    /\ result \in -4..NUM_TOKENS

OpenKinds == Selected([n \in DOMAIN tokens |-> tokens[n].type], OpenTokens)

Verdict ==
    CASE result = RUNNING         -> "reading"
      [] result >= 0              -> "whole"
      [] result = JSMN_ERROR_PART /\ OpenTokens # {} -> "unfinished"
      [] OTHER                    -> "refused"

BracketOf ==
    [sign \in {"{", "}", "[", "]"} |->
        [kind |-> IF sign \in {"{", "}"} THEN "object" ELSE "array", opens |-> sign \in {"{", "["}]]

Signs == [n \in DOMAIN js |-> js[n].kind]

BracketsRead == Chosen(Signs, BracketOf)

\* jsmn keeps no stack: it looks for open tokens from the end of its array.
Brackets == INSTANCE Nesting WITH
    Kinds <- Containers, brackets <- BracketsRead, stack <- OpenKinds, verdict <- Verdict

\* The array of tokens does the work of a stack of brackets: a message is accepted
\* only when every closing bracket ends the innermost open one of its own kind.
ImplementsNesting == Brackets!Spec
=============================================================================
