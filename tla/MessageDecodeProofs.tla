------------------------ MODULE MessageDecodeProofs ------------------------
(***************************************************************************)
(* Messages of any length, made of any lexemes, read into an array of any  *)
(* number of tokens.                                                       *)
(***************************************************************************)
EXTENDS MessageDecode, SelectionProofs, WellFoundedInduction

TokenRecord == [type : Containers \cup {"string", "primitive"},
                start : Nat \ {0}, end : Nat \cup {-1}, size : Nat]

TokensSay ==
    /\ tokens \in Seq(TokenRecord) /\ Len(tokens) <= NUM_TOKENS
    /\ toksuper \in 0..Len(tokens)
    /\ \A n \in OpenTokens : tokens[n].type \in Containers

\* What jsmn has read, and what its array holds; only a bracket lacks its end.
JsmnInv ==
    /\ TokensSay
    /\ js \in Seq(Lexemes)
    /\ result \in -4..NUM_TOKENS

-----------------------------------------------------------------------------
(***************************************************************************)
(* The array of tokens.                                                    *)
(***************************************************************************)
LEMMA OpenPlaces ==
    ASSUME TokensSay
    PROVE  /\ Len(tokens) \in Nat /\ DOMAIN tokens = 1..Len(tokens)
           /\ OpenTokens \in SUBSET (1..Len(tokens))
           /\ \A n \in 1..Len(tokens) : tokens[n] \in TokenRecord
<1>1. tokens \in Seq(TokenRecord)
    BY DEF TokensSay
<1>2. Len(tokens) \in Nat /\ DOMAIN tokens = 1..Len(tokens)
    BY <1>1, LenProperties
<1>3. \A n \in 1..Len(tokens) : tokens[n] \in TokenRecord
    BY <1>1, ElementOfSeq
<1>. QED
    BY <1>2, <1>3 DEF OpenTokens

\* The scan back from the last token finds the last one that is open.
LEMMA LastOfPlaces ==
    ASSUME NEW N \in Nat, NEW S \in SUBSET (1..N)
    PROVE  /\ Innermost(S) \in 0..N
           /\ S = {} <=> Innermost(S) = 0
           /\ S # {} => Innermost(S) \in S /\ \A j \in S : j <= Innermost(S)
<1>1. CASE S = {}
    BY <1>1 DEF Innermost
<1>2. CASE S # {}
    <2>. DEFINE m == Cardinality(S)
                c == InOrder(S)
    <2>1. m \in Nat /\ Lists(c, S, m)
        BY Places, InOrderLists
    <2>. HIDE DEF m, c
    <2>a. /\ c \in [1..m -> S] /\ \A j \in S : j \in Nat \ {0}
          /\ \A k, l \in 1..m : k < l => c[k] < c[l]
          /\ \A j \in S : \E k \in 1..m : c[k] = j
        BY <2>1 DEF Lists
    <2>2. m # 0
        <3>1. PICK j \in S : TRUE
            BY <1>2
        <3>2. PICK k \in 1..m : c[k] = j
            BY <2>a
        <3>. QED
            BY <2>1, <3>2
    <2>3. c[m] \in S /\ \A j \in S : j <= c[m]
        <3>1. m \in 1..m /\ \A k \in 1..m : c[k] \in Nat
            <4>1. m \in 1..m
                BY <2>1, <2>2
            <4>2. \A k \in 1..m : c[k] \in S
                BY <2>a
            <4>. QED
                BY <2>a, <4>1, <4>2
        <3>2. \A k \in 1..m : c[k] <= c[m]
            <4>1. ASSUME NEW k \in 1..m, k # m PROVE c[k] < c[m]
                <5>1. k < m
                    BY <2>1, <4>1
                <5>. QED
                    BY <2>a, <3>1, <5>1
            <4>. QED
                BY <3>1, <4>1
        <3>. QED
            BY <2>a, <3>1, <3>2
    <2>4. \E k \in S : \A j \in S : j <= k
        BY <2>3
    <2>5. Innermost(S) = CHOOSE k \in S : \A j \in S : j <= k
        BY <1>2 DEF Innermost
    <2>6. Innermost(S) \in S /\ \A j \in S : j <= Innermost(S)
        BY <2>4, <2>5
    <2>7. Innermost(S) \in 1..N
        BY <2>6
    <2>8. Innermost(S) \in 0..N /\ Innermost(S) # 0
        BY <2>7
    <2>. QED
        BY <1>2, <2>6, <2>8
<1>. QED
    BY <1>1, <1>2

LEMMA TokenAdded ==
    ASSUME TokensSay, NEW t \in TokenRecord, Add(t)
    PROVE  LET N == Len(tokens)
           IN  /\ tokens' \in Seq(TokenRecord) /\ Len(tokens') = N + 1
               /\ tokens'[N + 1] = t
               /\ \A n \in 1..N : /\ tokens'[n].type = tokens[n].type
                                  /\ tokens'[n].start = tokens[n].start
                                  /\ tokens'[n].end = tokens[n].end
                                  /\ tokens'[n].size =
                                        IF n = toksuper THEN tokens[n].size + 1 ELSE tokens[n].size
               /\ OpenTokens' = OpenTokens \cup (IF IsOpen(t) THEN {N + 1} ELSE {})
<1>. DEFINE N == Len(tokens)
            up == [n \in DOMAIN tokens |->
                     IF n = toksuper THEN [tokens[n] EXCEPT !.size = @ + 1] ELSE tokens[n]]
<1>1. N \in Nat /\ DOMAIN tokens = 1..N /\ \A n \in 1..N : tokens[n] \in TokenRecord
    BY OpenPlaces
<1>2. \A n \in 1..N : /\ up[n] \in TokenRecord
                      /\ up[n].type = tokens[n].type
                      /\ up[n].start = tokens[n].start
                      /\ up[n].end = tokens[n].end
                      /\ up[n].size = IF n = toksuper THEN tokens[n].size + 1 ELSE tokens[n].size
    BY <1>1 DEF TokenRecord
<1>3. up \in Seq(TokenRecord) /\ Len(up) = N
    <2>1. up \in [1..N -> TokenRecord]
        BY <1>1, <1>2
    <2>. QED
        BY <1>1, <2>1
<1>4. tokens' = Append(up, t)
    BY DEF Add
<1>. HIDE DEF up
<1>5. /\ tokens' \in Seq(TokenRecord) /\ Len(tokens') = N + 1 /\ tokens'[N + 1] = t
      /\ \A n \in 1..N : tokens'[n] = up[n]
    BY <1>3, <1>4, AppendProperties
<1>6. DOMAIN tokens' = 1..(N + 1)
    BY <1>5, LenProperties
<1>7. OpenTokens' = OpenTokens \cup (IF IsOpen(t) THEN {N + 1} ELSE {})
    BY <1>1, <1>2, <1>5, <1>6 DEF OpenTokens, IsOpen
<1>. QED
    BY <1>2, <1>5, <1>7

\* A token that gets its end.
LEMMA TokenClosed ==
    ASSUME TokensSay, NEW n \in OpenTokens, NEW e \in Nat,
           tokens' = [tokens EXCEPT ![n].end = e]
    PROVE  /\ tokens' \in Seq(TokenRecord) /\ Len(tokens') = Len(tokens)
           /\ \A k \in 1..Len(tokens) : /\ tokens'[k].type = tokens[k].type
                                        /\ tokens'[k].start = tokens[k].start
                                        /\ tokens'[k].size = tokens[k].size
           /\ OpenTokens' = OpenTokens \ {n}
<1>. DEFINE N == Len(tokens)
<1>1. /\ N \in Nat /\ DOMAIN tokens = 1..N /\ n \in 1..N
      /\ \A k \in 1..N : tokens[k] \in TokenRecord
    BY OpenPlaces
<1>2. \A k \in 1..N : tokens'[k] = IF k = n THEN [tokens[k] EXCEPT !.end = e] ELSE tokens[k]
    BY <1>1
<1>3. DOMAIN tokens' = 1..N
    BY <1>1
<1>4. \A k \in 1..N : /\ tokens'[k] \in TokenRecord
                      /\ tokens'[k].type = tokens[k].type
                      /\ tokens'[k].start = tokens[k].start
                      /\ tokens'[k].size = tokens[k].size
                      /\ tokens'[k].end = IF k = n THEN e ELSE tokens[k].end
    BY <1>1, <1>2 DEF TokenRecord
<1>5. tokens' \in Seq(TokenRecord) /\ Len(tokens') = N
    <2>1. tokens' \in [1..N -> TokenRecord]
        BY <1>1, <1>3, <1>4
    <2>. QED
        BY <1>1, <2>1
<1>6. OpenTokens' = OpenTokens \ {n}
    BY <1>1, <1>3, <1>4 DEF OpenTokens, IsOpen
<1>. QED
    BY <1>4, <1>5, <1>6

-----------------------------------------------------------------------------
(***************************************************************************)
(* What jsmn keeps.                                                        *)
(***************************************************************************)
LEMMA StartSays ==
    /\ JsmnInit => JsmnInv
    /\ JsmnReset => JsmnInv'
<1>1. NUM_TOKENS \in Nat
    BY TokensAssumption
<1>2. << >> \in Seq(TokenRecord) /\ << >> \in Seq(Lexemes) /\ Len(<< >>) = 0 /\ DOMAIN << >> = {}
    OBVIOUS
<1>3. JsmnInit => JsmnInv
    BY <1>1, <1>2 DEF JsmnInit, JsmnInv, TokensSay, OpenTokens, RUNNING
<1>4. JsmnReset => JsmnInv'
    BY <1>1, <1>2 DEF JsmnReset, JsmnInv, TokensSay, OpenTokens, RUNNING
<1>. QED
    BY <1>3, <1>4

LEMMA Reading ==
    ASSUME JsmnInv, NEW x \in Lexemes, Read(x)
    PROVE  js' \in Seq(Lexemes) /\ Len(js') = Len(js) + 1 /\ Len(js') \in Nat \ {0} /\ result = RUNNING
<1>1. js \in Seq(Lexemes) /\ js' = Append(js, x) /\ result = RUNNING
    BY DEF JsmnInv, Read
<1>. QED
    BY <1>1, AppendProperties, LenProperties

LEMMA FailKeeps ==
    ASSUME JsmnInv, NEW x \in Lexemes, Read(x), NEW e \in -3..-1, Fail(e)
    PROVE  JsmnInv'
<1>1. js' \in Seq(Lexemes)
    BY Reading
<1>2. NUM_TOKENS \in Nat
    BY TokensAssumption
<1>3. TokensSay'
    BY DEF JsmnInv, TokensSay, Fail, OpenTokens
<1>4. result' \in -4..NUM_TOKENS
    BY <1>2 DEF Fail
<1>. QED
    BY <1>1, <1>3, <1>4 DEF JsmnInv

LEMMA AddKeeps ==
    ASSUME TokensSay, ~Full, NEW t \in TokenRecord, Add(t), toksuper' \in 0..Len(tokens'),
           IsOpen(t) => t.type \in Containers
    PROVE  TokensSay'
<1>. DEFINE N == Len(tokens)
<1>1. /\ tokens' \in Seq(TokenRecord) /\ Len(tokens') = N + 1
      /\ tokens'[N + 1] = t
      /\ \A n \in 1..N : tokens'[n].type = tokens[n].type
      /\ OpenTokens' = OpenTokens \cup (IF IsOpen(t) THEN {N + 1} ELSE {})
    BY TokenAdded
<1>2. N \in Nat /\ OpenTokens \in SUBSET (1..N) /\ \A n \in OpenTokens : tokens[n].type \in Containers
    BY OpenPlaces DEF TokensSay
<1>3. Len(tokens') <= NUM_TOKENS
    BY <1>1, <1>2, TokensAssumption DEF Full
<1>4. \A n \in OpenTokens' : tokens'[n].type \in Containers
    <2>1. \A n \in OpenTokens : tokens'[n].type \in Containers
        BY <1>1, <1>2
    <2>. QED
        BY <1>1, <2>1
<1>. QED
    BY <1>1, <1>3, <1>4 DEF TokensSay

LEMMA CloseKeeps ==
    ASSUME TokensSay, NEW n \in OpenTokens, NEW e \in Nat,
           tokens' = [tokens EXCEPT ![n].end = e], toksuper' = Innermost(OpenTokens \ {n})
    PROVE  TokensSay'
<1>1. /\ tokens' \in Seq(TokenRecord) /\ Len(tokens') = Len(tokens)
      /\ \A k \in 1..Len(tokens) : tokens'[k].type = tokens[k].type
      /\ OpenTokens' = OpenTokens \ {n}
    BY TokenClosed
<1>2. Len(tokens) \in Nat /\ OpenTokens \in SUBSET (1..Len(tokens))
    BY OpenPlaces
<1>3. toksuper' \in 0..Len(tokens)
    <2>1. OpenTokens \ {n} \in SUBSET (1..Len(tokens))
        BY <1>2
    <2>. QED
        BY <1>2, <2>1, LastOfPlaces
<1>4. \A k \in OpenTokens' : tokens'[k].type \in Containers
    BY <1>1, <1>2 DEF TokensSay
<1>. QED
    BY <1>1, <1>3, <1>4 DEF TokensSay

LEMMA LexemeKeeps ==
    ASSUME JsmnInv, NEW x \in Lexemes, ParseLexeme(x)
    PROVE  JsmnInv'
<1>0. /\ TokensSay /\ Len(tokens) \in Nat /\ NUM_TOKENS \in Nat
      /\ toksuper \in 0..Len(tokens) /\ result \in -4..NUM_TOKENS
      /\ JSMN_ERROR_NOMEM \in -3..-1 /\ JSMN_ERROR_INVAL \in -3..-1 /\ JSMN_ERROR_PART \in -3..-1
    BY OpenPlaces, TokensAssumption
       DEF JsmnInv, TokensSay, JSMN_ERROR_NOMEM, JSMN_ERROR_INVAL, JSMN_ERROR_PART
<1>1. ASSUME NEW type \in Containers, OpenBracket(x, type) PROVE JsmnInv'
    <2>1. Read(x)
        BY <1>1 DEF OpenBracket
    <2>2. js' \in Seq(Lexemes) /\ Len(js') \in Nat \ {0}
        BY <2>1, Reading
    <2>3. CASE Full
        BY <1>0, <1>1, <2>1, <2>3, FailKeeps DEF OpenBracket
    <2>4. CASE ~Full
        <3>. DEFINE t == Token(type, Len(js'), -1)
        <3>1. Add(t) /\ toksuper' = Len(tokens') /\ result' = result
            BY <1>1, <2>4 DEF OpenBracket
        <3>2. t \in TokenRecord /\ t.type = type
            BY <2>2 DEF Token, TokenRecord
        <3>. HIDE DEF t
        <3>3. Len(tokens') = Len(tokens) + 1
            BY <1>0, <3>1, <3>2, TokenAdded
        <3>4. toksuper' \in 0..Len(tokens')
            BY <1>0, <3>1, <3>3
        <3>5. TokensSay'
            BY <1>0, <1>1, <2>4, <3>1, <3>2, <3>4, AddKeeps
        <3>. QED
            BY <1>0, <2>2, <3>1, <3>5 DEF JsmnInv
    <2>. QED
        BY <2>3, <2>4
<1>2. ASSUME NEW type, CloseBracket(x, type) PROVE JsmnInv'
    <2>. DEFINE n == Innermost(OpenTokens)
    <2>1. Read(x)
        BY <1>2 DEF CloseBracket
    <2>2. js' \in Seq(Lexemes) /\ Len(js') \in Nat \ {0}
        BY <2>1, Reading
    <2>3. CASE n = 0 \/ (n # 0 /\ tokens[n].type # type)
        <3>1. Fail(JSMN_ERROR_INVAL)
            BY <1>2, <2>3 DEF CloseBracket
        <3>. QED
            BY <1>0, <2>1, <3>1, FailKeeps
    <2>4. CASE ~(n = 0 \/ (n # 0 /\ tokens[n].type # type))
        <3>1. /\ tokens' = [tokens EXCEPT ![n].end = Len(js')]
              /\ toksuper' = Innermost(OpenTokens \ {n}) /\ result' = result
            BY <1>2, <2>4 DEF CloseBracket
        <3>2. n \in OpenTokens
            BY <1>0, <2>4, OpenPlaces, LastOfPlaces
        <3>. HIDE DEF n
        <3>3. TokensSay'
            BY <1>0, <2>2, <3>1, <3>2, CloseKeeps
        <3>. QED
            BY <1>0, <2>2, <3>1, <3>3 DEF JsmnInv
    <2>. QED
        BY <2>3, <2>4
<1>3. ASSUME x.kind \in {"string", "primitive"}, Scalar(x, x.kind) PROVE JsmnInv'
    <2>1. Read(x)
        BY <1>3 DEF Scalar
    <2>2. js' \in Seq(Lexemes) /\ Len(js') \in Nat \ {0}
        BY <2>1, Reading
    <2>3. CASE Full
        BY <1>0, <1>3, <2>1, <2>3, FailKeeps DEF Scalar
    <2>4. CASE ~Full
        <3>. DEFINE t == Token(x.kind, Len(js'), Len(js'))
        <3>1. Add(t) /\ toksuper' = toksuper /\ result' = result
            BY <1>3, <2>4 DEF Scalar
        <3>2. t \in TokenRecord /\ ~IsOpen(t)
            BY <1>3, <2>2 DEF Token, TokenRecord, IsOpen
        <3>. HIDE DEF t
        <3>3. Len(tokens') = Len(tokens) + 1
            BY <1>0, <3>1, <3>2, TokenAdded
        <3>4. toksuper' \in 0..Len(tokens')
            BY <1>0, <3>1, <3>3
        <3>5. TokensSay'
            BY <1>0, <2>4, <3>1, <3>2, <3>4, AddKeeps
        <3>. QED
            BY <1>0, <2>2, <3>1, <3>5 DEF JsmnInv
    <2>. QED
        BY <2>3, <2>4
<1>4. ASSUME Colon(x) PROVE JsmnInv'
    <2>1. js' \in Seq(Lexemes) /\ tokens' = tokens /\ toksuper' = Len(tokens) /\ result' = result
        BY <1>4, Reading DEF Colon
    <2>. QED
        BY <1>0, <2>1 DEF JsmnInv, TokensSay, OpenTokens
<1>5. ASSUME Comma(x) PROVE JsmnInv'
    <2>1. js' \in Seq(Lexemes) /\ tokens' = tokens /\ result' = result
        BY <1>5, Reading DEF Comma
    <2>2. Innermost(OpenTokens) \in 0..Len(tokens)
        BY <1>0, OpenPlaces, LastOfPlaces
    <2>3. toksuper' \in 0..Len(tokens)
        BY <1>0, <1>5, <2>2 DEF Comma
    <2>. QED
        BY <1>0, <2>1, <2>3 DEF JsmnInv, TokensSay, OpenTokens
<1>6. ASSUME NEW e \in -3..-1, Refuse(x, e) PROVE JsmnInv'
    BY <1>6, FailKeeps DEF Refuse
<1>7. {"object", "array"} \subseteq Containers
    BY DEF Containers
<1>. QED
    BY <1>0, <1>1, <1>2, <1>3, <1>4, <1>5, <1>6, <1>7 DEF ParseLexeme

LEMMA EndKeeps ==
    ASSUME JsmnInv, EndOfMessage
    PROVE  JsmnInv'
<1>1. /\ tokens' = tokens /\ toksuper' = toksuper /\ js' = js
      /\ result' \in {Len(tokens), JSMN_ERROR_PART}
    BY DEF EndOfMessage
<1>2. Len(tokens) \in Nat /\ Len(tokens) <= NUM_TOKENS /\ NUM_TOKENS \in Nat
    BY OpenPlaces, TokensAssumption DEF JsmnInv, TokensSay
<1>3. result' \in -4..NUM_TOKENS
    BY <1>1, <1>2 DEF JSMN_ERROR_PART
<1>. QED
    BY <1>1, <1>3 DEF JsmnInv, TokensSay, OpenTokens

-----------------------------------------------------------------------------
(***************************************************************************)
(* The stack of brackets that the array stands for.                        *)
(***************************************************************************)
BracketSet == [kind : Containers, opens : BOOLEAN]

LEMMA BracketSigns ==
    /\ BracketOf \in [{"{", "}", "[", "]"} -> BracketSet]
    /\ BracketOf["{"] = Brackets!Bracket("object", TRUE)
    /\ BracketOf["}"] = Brackets!Bracket("object", FALSE)
    /\ BracketOf["["] = Brackets!Bracket("array", TRUE)
    /\ BracketOf["]"] = Brackets!Bracket("array", FALSE)
<1>1. BracketOf \in [{"{", "}", "[", "]"} -> BracketSet]
    BY DEF BracketOf, BracketSet, Containers
<1>2. \A sign \in {"{", "}", "[", "]"} :
          BracketOf[sign] = [kind |-> IF sign \in {"{", "}"} THEN "object" ELSE "array",
                             opens |-> sign \in {"{", "["}]
    BY DEF BracketOf
<1>3. /\ ("{" \in {"{", "["}) = TRUE /\ ("}" \in {"{", "["}) = FALSE
      /\ ("[" \in {"{", "["}) = TRUE /\ ("]" \in {"{", "["}) = FALSE
    OBVIOUS
<1>4. BracketOf["{"] = Brackets!Bracket("object", TRUE)
    BY <1>2, <1>3, Zenon DEF Brackets!Bracket
<1>5. BracketOf["}"] = Brackets!Bracket("object", FALSE)
    BY <1>2, <1>3, Zenon DEF Brackets!Bracket
<1>6. BracketOf["["] = Brackets!Bracket("array", TRUE)
    BY <1>2, <1>3, Zenon DEF Brackets!Bracket
<1>7. BracketOf["]"] = Brackets!Bracket("array", FALSE)
    BY <1>2, <1>3, Zenon DEF Brackets!Bracket
<1>. QED
    BY <1>1, <1>4, <1>5, <1>6, <1>7, Zenon

LEMMA SignRead ==
    ASSUME js \in Seq(Lexemes), NEW x \in Lexemes, js' = Append(js, x)
    PROVE  /\ x.kind \in DOMAIN BracketOf => BracketsRead' = Append(BracketsRead, BracketOf[x.kind])
           /\ x.kind \notin DOMAIN BracketOf => BracketsRead' = BracketsRead
<1>. DEFINE K == {y.kind : y \in Lexemes}
<1>1. Signs \in Seq(K) /\ x.kind \in K /\ Signs' = Append(Signs, x.kind)
    <2>1. Len(js) \in Nat /\ DOMAIN js = 1..Len(js) /\ \A n \in 1..Len(js) : js[n] \in Lexemes
        BY LenProperties, ElementOfSeq
    <2>2. /\ Len(js') = Len(js) + 1 /\ DOMAIN js' = 1..(Len(js) + 1) /\ js'[Len(js) + 1] = x
          /\ \A n \in 1..Len(js) : js'[n] = js[n]
        BY AppendProperties, LenProperties
    <2>3. Signs \in [1..Len(js) -> K]
        BY <2>1 DEF Signs
    <2>4. Signs \in Seq(K) /\ Len(Signs) = Len(js)
        BY <2>1, <2>3
    <2>5. Signs' = [n \in 1..(Len(js) + 1) |-> IF n = Len(js) + 1 THEN x.kind ELSE Signs[n]]
        BY <2>1, <2>2 DEF Signs
    <2>6. Append(Signs, x.kind) = [n \in 1..(Len(js) + 1) |-> IF n = Len(js) + 1 THEN x.kind ELSE Signs[n]]
        BY <2>1, <2>4
    <2>. QED
        BY <2>4, <2>5, <2>6
<1>. HIDE DEF K
<1>2. /\ x.kind \in DOMAIN BracketOf =>
            Chosen(Signs', BracketOf) = Chosen(Signs, BracketOf) \o <<BracketOf[x.kind]>>
      /\ x.kind \notin DOMAIN BracketOf => Chosen(Signs', BracketOf) = Chosen(Signs, BracketOf)
    <2>1. \A g : /\ x.kind \in DOMAIN g =>
                        Chosen(Append(Signs, x.kind), g) = Chosen(Signs, g) \o <<g[x.kind]>>
                 /\ x.kind \notin DOMAIN g => Chosen(Append(Signs, x.kind), g) = Chosen(Signs, g)
        BY <1>1, WordOn
    <2>. QED
        BY <1>1, <2>1, Zenon
<1>3. BracketsRead \in Seq(BracketSet)
    BY <1>1, BracketSigns, ChosenType DEF BracketsRead
<1>4. BracketsRead = Chosen(Signs, BracketOf) /\ BracketsRead' = Chosen(Signs', BracketOf)
    BY DEF BracketsRead, BracketOf
<1>5. ASSUME x.kind \in DOMAIN BracketOf
      PROVE  BracketsRead \o <<BracketOf[x.kind]>> = Append(BracketsRead, BracketOf[x.kind])
    <2>1. BracketOf[x.kind] \in BracketSet
        BY <1>5, BracketSigns
    <2>. QED
        BY <1>3, <2>1, FirstTaken
<1>. QED
    BY <1>2, <1>4, <1>5

TypesOf == [n \in DOMAIN tokens |-> tokens[n].type]

LEMMA StackType ==
    ASSUME TokensSay
    PROVE  /\ OpenKinds \in Seq(Containers)
           /\ OpenKinds = << >> <=> OpenTokens = {}
<1>1. /\ Len(tokens) \in Nat /\ OpenTokens \in SUBSET (1..Len(tokens))
      /\ \A n \in OpenTokens : TypesOf[n] \in Containers
    BY OpenPlaces DEF TokensSay, TypesOf
<1>2. OpenKinds = Selected(TypesOf, OpenTokens)
    BY DEF OpenKinds, TypesOf
<1>3. OpenKinds \in Seq(Containers) /\ Len(OpenKinds) = Cardinality(OpenTokens)
    BY <1>1, <1>2, SelectedType
<1>4. Cardinality(OpenTokens) = 0 <=> OpenTokens = {}
    BY <1>1, Places, FS_EmptySet
<1>. QED
    BY <1>3, <1>4, EmptySeq, LenProperties

\* The same tokens are the same stack.
LEMMA StackStays ==
    ASSUME tokens' = tokens
    PROVE  OpenTokens' = OpenTokens /\ OpenKinds' = OpenKinds
BY DEF OpenTokens, OpenKinds

\* A token that is added lies on top of it, or, with an end, nowhere in it.
LEMMA StackGrows ==
    ASSUME TokensSay, NEW t \in TokenRecord, Add(t)
    PROVE  OpenKinds' = IF IsOpen(t) THEN Append(OpenKinds, t.type) ELSE OpenKinds
<1>. DEFINE N == Len(tokens)
            s == TypesOf
            r == TypesOf'
<1>1. N \in Nat /\ DOMAIN tokens = 1..N /\ OpenTokens \in SUBSET (1..N)
    BY OpenPlaces
<1>2. /\ tokens' \in Seq(TokenRecord) /\ Len(tokens') = N + 1 /\ tokens'[N + 1] = t
      /\ \A n \in 1..N : tokens'[n].type = tokens[n].type
      /\ OpenTokens' = OpenTokens \cup (IF IsOpen(t) THEN {N + 1} ELSE {})
    BY TokenAdded
<1>3. DOMAIN tokens' = 1..(N + 1)
    BY <1>2, LenProperties
<1>4. (\A n \in OpenTokens : r[n] = s[n]) /\ r[N + 1] = t.type
    BY <1>1, <1>2, <1>3 DEF TypesOf
<1>5. OpenKinds = Selected(s, OpenTokens) /\ OpenKinds' = Selected(r, OpenTokens')
    BY DEF OpenKinds, TypesOf
<1>. HIDE DEF s, r
<1>6. /\ Selected(r, OpenTokens) = Selected(s, OpenTokens)
      /\ Selected(r, OpenTokens \cup {N + 1}) = Selected(s, OpenTokens) \o <<r[N + 1]>>
    <2>1. \A y, z : (\A n \in OpenTokens : z[n] = y[n]) =>
              /\ Selected(z, OpenTokens) = Selected(y, OpenTokens)
              /\ Selected(z, OpenTokens \cup {N + 1}) = Selected(y, OpenTokens) \o <<z[N + 1]>>
        BY <1>1, SelectedGrows
    <2>. QED
        BY <1>4, <2>1, Zenon
<1>7. CASE IsOpen(t)
    <2>1. OpenKinds' = OpenKinds \o <<t.type>>
        BY <1>2, <1>4, <1>5, <1>6, <1>7
    <2>2. OpenKinds \in Seq(Containers \cup {t.type})
        BY StackType
    <2>3. Append(OpenKinds, t.type) = OpenKinds \o <<t.type>>
        BY <2>2, FirstTaken
    <2>. QED
        BY <1>7, <2>1, <2>3
<1>8. CASE ~IsOpen(t)
    <2>1. OpenTokens' = OpenTokens
        BY <1>2, <1>8
    <2>. QED
        BY <1>5, <1>6, <1>8, <2>1
<1>. QED
    BY <1>7, <1>8

\* The last open token is the top of the stack, and leaves it with its end.
LEMMA StackShrinks ==
    ASSUME TokensSay, NEW e \in Nat, OpenTokens # {},
           tokens' = [tokens EXCEPT ![Innermost(OpenTokens)].end = e]
    PROVE  /\ OpenKinds # << >>
           /\ OpenKinds[Len(OpenKinds)] = tokens[Innermost(OpenTokens)].type
           /\ OpenKinds' = SubSeq(OpenKinds, 1, Len(OpenKinds) - 1)
<1>. DEFINE N == Len(tokens)
            n == Innermost(OpenTokens)
            J == OpenTokens \ {n}
            s == TypesOf
            r == TypesOf'
<1>1. N \in Nat /\ DOMAIN tokens = 1..N /\ OpenTokens \in SUBSET (1..N)
    BY OpenPlaces
<1>2. n \in OpenTokens /\ \A k \in OpenTokens : k <= n
    BY <1>1, LastOfPlaces
<1>. HIDE DEF n
<1>3. /\ tokens' \in Seq(TokenRecord) /\ Len(tokens') = N
      /\ \A k \in 1..N : tokens'[k].type = tokens[k].type
      /\ OpenTokens' = J
    BY <1>2, TokenClosed DEF n
<1>4. DOMAIN tokens' = 1..N
    BY <1>3, LenProperties
<1>5. n - 1 \in Nat /\ J \in SUBSET (1..(n - 1)) /\ OpenTokens = J \cup {(n - 1) + 1}
    <2>1. n \in 1..N
        BY <1>1, <1>2
    <2>2. \A k \in J : k \in 1..N /\ k <= n /\ k # n
        BY <1>1, <1>2
    <2>. QED
        BY <1>1, <1>2, <2>1, <2>2
<1>6. (\A k \in J : r[k] = s[k]) /\ s[n] = tokens[n].type /\ s[n] \in Containers
    BY <1>1, <1>2, <1>3, <1>4 DEF TypesOf, TokensSay
<1>7. OpenKinds = Selected(s, OpenTokens) /\ OpenKinds' = Selected(r, J)
    BY <1>3 DEF OpenKinds, TypesOf
<1>8. \A k \in J : s[k] \in Containers
    BY <1>1 DEF TypesOf, TokensSay
<1>. HIDE DEF s, r, J
<1>9. /\ Selected(r, J) = Selected(s, J)
      /\ Selected(s, J \cup {(n - 1) + 1}) = Selected(s, J) \o <<s[(n - 1) + 1]>>
    <2>1. \A y, z : (\A k \in J : z[k] = y[k]) =>
              /\ Selected(z, J) = Selected(y, J)
              /\ Selected(z, J \cup {(n - 1) + 1}) = Selected(y, J) \o <<z[(n - 1) + 1]>>
        BY <1>5, SelectedGrows
    <2>2. Selected(r, J) = Selected(s, J)
        BY <1>6, <2>1, Zenon
    <2>3. Selected(s, J \cup {(n - 1) + 1}) = Selected(s, J) \o <<s[(n - 1) + 1]>>
        BY <2>1, Zenon
    <2>. QED
        BY <2>2, <2>3
<1>. DEFINE a == Selected(s, J)
<1>11. a \in Seq(Containers)
    BY <1>5, <1>8, SelectedType
<1>. HIDE DEF a
<1>12. (n - 1) + 1 = n
    BY <1>5, <1>2, <1>1
<1>13. OpenKinds = a \o <<s[n]>> /\ OpenKinds' = a
    BY <1>5, <1>7, <1>9, <1>12 DEF a
<1>14. a \o <<s[n]>> = Append(a, s[n])
    BY <1>6, <1>11, FirstTaken
<1>15. /\ Len(Append(a, s[n])) = Len(a) + 1 /\ Append(a, s[n])[Len(a) + 1] = s[n]
       /\ SubSeq(Append(a, s[n]), 1, Len(a)) = a /\ Append(a, s[n]) # << >> /\ Len(a) \in Nat
    <2>1. Len(a) \in Nat
        BY <1>11, LenProperties
    <2>2. /\ Append(a, s[n]) \in Seq(Containers) /\ Len(Append(a, s[n])) = Len(a) + 1
          /\ Append(a, s[n])[Len(a) + 1] = s[n]
          /\ \A k \in 1..Len(a) : Append(a, s[n])[k] = a[k]
        BY <1>6, <1>11, AppendProperties
    <2>3. SubSeq(Append(a, s[n]), 1, Len(a)) = [k \in 1..Len(a) |-> Append(a, s[n])[k]]
        BY <2>1, <2>2
    <2>4. a = [k \in 1..Len(a) |-> a[k]]
        BY <1>11
    <2>5. SubSeq(Append(a, s[n]), 1, Len(a)) = a
        BY <2>2, <2>3, <2>4
    <2>. QED
        BY <1>6, <1>11, <2>1, <2>2, <2>5
<1>16. Len(OpenKinds) = Len(a) + 1 /\ Len(OpenKinds) - 1 = Len(a)
    BY <1>13, <1>14, <1>15
<1>. QED
    BY <1>6, <1>13, <1>14, <1>15, <1>16 DEF n

-----------------------------------------------------------------------------
(***************************************************************************)
(* Every step of jsmn is one of the reader's.                              *)
(***************************************************************************)
Reader == <<BracketsRead, OpenKinds, Verdict>>

LEMMA Verdicts ==
    /\ result = RUNNING => Verdict = "reading"
    /\ result \in {JSMN_ERROR_NOMEM, JSMN_ERROR_INVAL} => Verdict = "refused"
    /\ result = JSMN_ERROR_PART => Verdict = IF OpenTokens = {} THEN "refused" ELSE "unfinished"
    /\ result \in Nat => Verdict = "whole"
BY DEF Verdict, RUNNING, JSMN_ERROR_NOMEM, JSMN_ERROR_INVAL, JSMN_ERROR_PART

LEMMA VerdictsNext ==
    /\ result' = RUNNING => Verdict' = "reading"
    /\ result' \in {JSMN_ERROR_NOMEM, JSMN_ERROR_INVAL} => Verdict' = "refused"
    /\ result' = JSMN_ERROR_PART => Verdict' = IF OpenTokens' = {} THEN "refused" ELSE "unfinished"
    /\ result' \in Nat => Verdict' = "whole"
BY DEF Verdict, RUNNING, JSMN_ERROR_NOMEM, JSMN_ERROR_INVAL, JSMN_ERROR_PART

LEMMA BracketTaken ==
    ASSUME JsmnInv, NEW x \in Lexemes, Read(x)
    PROVE  /\ x.kind = "{" => Brackets!Take(Brackets!Bracket("object", TRUE))
           /\ x.kind = "}" => Brackets!Take(Brackets!Bracket("object", FALSE))
           /\ x.kind = "[" => Brackets!Take(Brackets!Bracket("array", TRUE))
           /\ x.kind = "]" => Brackets!Take(Brackets!Bracket("array", FALSE))
           /\ x.kind \notin {"{", "}", "[", "]"} => BracketsRead' = BracketsRead
<1>1. js \in Seq(Lexemes) /\ js' = Append(js, x)
    BY DEF JsmnInv, Read
<1>2. /\ x.kind \in DOMAIN BracketOf => BracketsRead' = Append(BracketsRead, BracketOf[x.kind])
      /\ x.kind \notin DOMAIN BracketOf => BracketsRead' = BracketsRead
    BY <1>1, SignRead
<1>3. DOMAIN BracketOf = {"{", "}", "[", "]"}
    BY BracketSigns
<1>. QED
    BY <1>2, <1>3, BracketSigns, Zenon DEF Brackets!Take

\* A lexeme that is refused, whatever it is.
LEMMA RefusedStep ==
    ASSUME JsmnInv, NEW x \in Lexemes, Read(x),
           NEW e \in {JSMN_ERROR_NOMEM, JSMN_ERROR_INVAL}, Fail(e)
    PROVE  Brackets!Read
<1>1. Verdict = "reading" /\ Verdict' = "refused"
    BY Verdicts, VerdictsNext DEF Read, Fail
<1>2. OpenKinds' = OpenKinds
    BY StackStays DEF Fail
<1>3. BracketsRead' = BracketsRead
        \/ \E k \in Containers, opens \in BOOLEAN : Brackets!Take(Brackets!Bracket(k, opens))
    BY BracketTaken DEF Containers
<1>. QED
    BY <1>1, <1>2, <1>3, Zenon DEF Brackets!Read, Brackets!Refuse

LEMMA LexemeStep ==
    ASSUME JsmnInv, NEW x \in Lexemes, ParseLexeme(x)
    PROVE  [Brackets!Read]_Reader
<1>0. TokensSay
    BY DEF JsmnInv
<1>1. ASSUME NEW type \in Containers, OpenBracket(x, type),
             Brackets!Take(Brackets!Bracket(type, TRUE))
      PROVE  Brackets!Read
    <2>1. Read(x)
        BY <1>1 DEF OpenBracket
    <2>2. CASE Full
        BY <1>1, <2>1, <2>2, RefusedStep DEF OpenBracket
    <2>3. CASE ~Full
        <3>. DEFINE t == Token(type, Len(js'), -1)
        <3>1. Add(t) /\ result' = result /\ result = RUNNING
            BY <1>1, <2>3 DEF OpenBracket, Read
        <3>2. t \in TokenRecord /\ IsOpen(t) /\ t.type = type
            BY <2>1, Reading DEF Token, TokenRecord, IsOpen
        <3>. HIDE DEF t
        <3>3. OpenKinds' = Append(OpenKinds, type)
            BY <1>0, <3>1, <3>2, StackGrows
        <3>4. Verdict = "reading" /\ Verdict' = Verdict
            BY <3>1, Verdicts, VerdictsNext
        <3>5. Brackets!Open(type)
            BY <1>1, <3>3, <3>4 DEF Brackets!Open
        <3>. QED
            BY <3>4, <3>5 DEF Brackets!Read
    <2>. QED
        BY <2>2, <2>3
<1>2. ASSUME NEW type \in Containers, CloseBracket(x, type),
             Brackets!Take(Brackets!Bracket(type, FALSE))
      PROVE  Brackets!Read
    <2>. DEFINE n == Innermost(OpenTokens)
    <2>1. Read(x)
        BY <1>2 DEF CloseBracket
    <2>2. CASE n = 0 \/ (n # 0 /\ tokens[n].type # type)
        <3>1. Fail(JSMN_ERROR_INVAL)
            BY <1>2, <2>2 DEF CloseBracket
        <3>. QED
            BY <2>1, <3>1, RefusedStep
    <2>3. CASE ~(n = 0 \/ (n # 0 /\ tokens[n].type # type))
        <3>1. /\ tokens' = [tokens EXCEPT ![n].end = Len(js')]
              /\ result' = result /\ result = RUNNING /\ tokens[n].type = type
            BY <1>2, <2>3 DEF CloseBracket, Read
        <3>2. Len(js') \in Nat
            BY <2>1, Reading
        <3>3. OpenTokens # {}
            BY <2>3 DEF Innermost
        <3>4. /\ OpenKinds # << >> /\ OpenKinds[Len(OpenKinds)] = type
              /\ OpenKinds' = SubSeq(OpenKinds, 1, Len(OpenKinds) - 1)
            BY <1>0, <3>1, <3>2, <3>3, StackShrinks
        <3>5. Verdict = "reading" /\ Verdict' = Verdict
            BY <3>1, Verdicts, VerdictsNext
        <3>6. Brackets!Close(type)
            BY <1>2, <3>4, <3>5 DEF Brackets!Close
        <3>. QED
            BY <3>5, <3>6 DEF Brackets!Read
    <2>. QED
        BY <2>2, <2>3
<1>3. ASSUME x.kind \in {"string", "primitive"}, Scalar(x, x.kind)
      PROVE  [Brackets!Read]_Reader
    <2>1. Read(x)
        BY <1>3 DEF Scalar
    <2>2. CASE Full
        BY <1>3, <2>1, <2>2, RefusedStep DEF Scalar
    <2>3. CASE ~Full
        <3>. DEFINE t == Token(x.kind, Len(js'), Len(js'))
        <3>1. Add(t) /\ result' = result /\ result = RUNNING
            BY <1>3, <2>3 DEF Scalar, Read
        <3>2. t \in TokenRecord /\ ~IsOpen(t)
            BY <1>3, <2>1, Reading DEF Token, TokenRecord, IsOpen
        <3>. HIDE DEF t
        <3>3. OpenKinds' = OpenKinds
            BY <1>0, <3>1, <3>2, StackGrows
        <3>4. Verdict' = Verdict
            BY <3>1, Verdicts, VerdictsNext
        <3>5. BracketsRead' = BracketsRead
            BY <1>3, <2>1, BracketTaken
        <3>. QED
            BY <3>3, <3>4, <3>5 DEF Reader
    <2>. QED
        BY <2>2, <2>3
<1>4. ASSUME x.kind \in {":", ","}, Colon(x) \/ Comma(x)
      PROVE  UNCHANGED Reader
    <2>1. Read(x) /\ tokens' = tokens /\ result' = result /\ result = RUNNING
        BY <1>4 DEF Colon, Comma, Read
    <2>2. OpenKinds' = OpenKinds
        BY <2>1, StackStays
    <2>3. Verdict' = Verdict
        BY <2>1, Verdicts, VerdictsNext
    <2>4. BracketsRead' = BracketsRead
        BY <1>4, <2>1, BracketTaken
    <2>. QED
        BY <2>2, <2>3, <2>4 DEF Reader
<1>5. ASSUME Refuse(x, JSMN_ERROR_INVAL)
      PROVE  Brackets!Read
    BY <1>5, RefusedStep DEF Refuse
<1>6. ASSUME x.kind = "cut", Refuse(x, JSMN_ERROR_PART)
      PROVE  Brackets!Read
    <2>1. Read(x) /\ tokens' = tokens /\ result' = JSMN_ERROR_PART /\ result = RUNNING
        BY <1>6 DEF Refuse, Fail, Read
    <2>2. OpenTokens' = OpenTokens /\ OpenKinds' = OpenKinds
        BY <2>1, StackStays
    <2>3. BracketsRead' = BracketsRead
        BY <1>6, <2>1, BracketTaken
    <2>4. Verdict = "reading" /\ Verdict' = IF OpenTokens = {} THEN "refused" ELSE "unfinished"
        BY <2>1, <2>2, Verdicts, VerdictsNext
    <2>5. OpenKinds = << >> <=> OpenTokens = {}
        BY <1>0, StackType
    <2>6. Brackets!Refuse \/ Brackets!End
        BY <2>2, <2>3, <2>4, <2>5 DEF Brackets!Refuse, Brackets!End
    <2>. QED
        BY <2>4, <2>6 DEF Brackets!Read
<1>7. Read(x)
    BY DEF ParseLexeme, OpenBracket, CloseBracket, Scalar, Colon, Comma, Refuse
<1>8. /\ x.kind = "{" => Brackets!Take(Brackets!Bracket("object", TRUE))
      /\ x.kind = "}" => Brackets!Take(Brackets!Bracket("object", FALSE))
      /\ x.kind = "[" => Brackets!Take(Brackets!Bracket("array", TRUE))
      /\ x.kind = "]" => Brackets!Take(Brackets!Bracket("array", FALSE))
    BY <1>7, BracketTaken
<1>9. "object" \in Containers /\ "array" \in Containers
    BY DEF Containers
<1>. QED
    BY <1>1, <1>2, <1>3, <1>4, <1>5, <1>6, <1>8, <1>9 DEF ParseLexeme

LEMMA EndStep ==
    ASSUME JsmnInv, EndOfMessage
    PROVE  Brackets!Read
<1>1. /\ tokens' = tokens /\ js' = js /\ result = RUNNING /\ TokensSay
      /\ result' = IF OpenTokens = {} THEN Len(tokens) ELSE JSMN_ERROR_PART
    BY DEF EndOfMessage, JsmnInv
<1>2. OpenTokens' = OpenTokens /\ OpenKinds' = OpenKinds
    BY <1>1, StackStays
<1>3. BracketsRead' = BracketsRead
    BY <1>1 DEF BracketsRead, Signs
<1>4. Len(tokens) \in Nat /\ (OpenKinds = << >> <=> OpenTokens = {})
    BY <1>1, OpenPlaces, StackType
<1>5. Verdict = "reading" /\ Verdict' = IF OpenKinds = << >> THEN "whole" ELSE "unfinished"
    BY <1>1, <1>2, <1>4, Verdicts, VerdictsNext
<1>. QED
    BY <1>2, <1>3, <1>5 DEF Brackets!Read, Brackets!End

\* A message that was read is left alone until the callback is done with it.
ReadInv ==
    /\ JsmnInv
    /\ pc # "parse" => result # RUNNING

LEMMA ReadNext ==
    ASSUME ReadInv, [DecodeNext]_decodeVars
    PROVE  ReadInv'
<1>1. CASE Parse
    <2>1. JsmnInv' /\ pc = "parse" /\ pc' = pc
        BY <1>1, LexemeKeeps, EndKeeps DEF Parse, ReadInv
    <2>. QED
        BY <2>1 DEF ReadInv
<1>2. CASE TakeTokens \/ TakePair \/ RunPast \/ NoPairLeft \/ Callback \/ UNCHANGED decodeVars
    <2>1. UNCHANGED jsmnVars /\ (pc' # "parse" => pc # "parse" \/ result # RUNNING)
        BY <1>2 DEF TakeTokens, TakePair, RunPast, NoPairLeft, Callback, decodeVars
    <2>2. JsmnInv'
        BY <2>1 DEF jsmnVars, ReadInv, JsmnInv, TokensSay, OpenTokens
    <2>. QED
        BY <2>1, <2>2 DEF jsmnVars, ReadInv
<1>3. CASE NextMessage
    BY <1>3, StartSays DEF NextMessage, ReadInv
<1>. QED
    BY <1>1, <1>2, <1>3 DEF DecodeNext

LEMMA ReadHolds == DecodeSpec => []ReadInv
<1>1. DecodeInit => ReadInv
    BY StartSays DEF DecodeInit, ReadInv
<1>2. ReadInv /\ [DecodeNext]_decodeVars => ReadInv'
    BY ReadNext
<1>. QED
    BY <1>1, <1>2, PTL DEF DecodeSpec

LEMMA NothingRead ==
    /\ JsmnInit => BracketsRead = << >> /\ OpenKinds = << >> /\ Verdict = "reading"
    /\ JsmnReset => BracketsRead' = << >> /\ OpenKinds' = << >> /\ Verdict' = "reading"
<1>1. DOMAIN << >> = {} /\ \A f : [n \in {} |-> f[n]] = << >>
    OBVIOUS
<1>2. Chosen(<< >>, BracketOf) = << >> /\ \A s : Selected(s, {}) = << >>
    BY ChosenNone, SelectedNone
<1>3. ASSUME JsmnInit PROVE BracketsRead = << >> /\ OpenKinds = << >> /\ Verdict = "reading"
    <2>1. js = << >> /\ tokens = << >> /\ result = RUNNING
        BY <1>3 DEF JsmnInit
    <2>2. Signs = << >> /\ OpenTokens = {}
        BY <2>1, <1>1 DEF Signs, OpenTokens
    <2>. QED
        BY <1>2, <2>1, <2>2, Verdicts DEF BracketsRead, OpenKinds
<1>4. ASSUME JsmnReset PROVE BracketsRead' = << >> /\ OpenKinds' = << >> /\ Verdict' = "reading"
    <2>1. js' = << >> /\ tokens' = << >> /\ result' = RUNNING
        BY <1>4 DEF JsmnReset
    <2>2. Signs' = << >> /\ OpenTokens' = {}
        BY <2>1, <1>1 DEF Signs, OpenTokens
    <2>3. BracketsRead' = Chosen(Signs', BracketOf)
        BY DEF BracketsRead, BracketOf
    <2>4. OpenKinds' = Selected(TypesOf', OpenTokens')
        BY DEF OpenKinds, TypesOf
    <2>. QED
        BY <1>2, <2>1, <2>2, <2>3, <2>4, VerdictsNext
<1>. QED
    BY <1>3, <1>4

\* For messages of any length and brackets nested to any depth, the array in which jsmn
\* looks for tokens without an end is a stack of brackets (src/jsmn.h:308): whatever
\* stands between them, a closing bracket is taken only when it is of the kind of the
\* innermost open one, and a message with a bracket open is not accepted.
THEOREM BracketsNest == DecodeSpec => ImplementsNesting
<1>1. DecodeInit => Brackets!Init
    BY NothingRead DEF DecodeInit, Brackets!Init
<1>2. ASSUME ReadInv, [DecodeNext]_decodeVars
      PROVE  [Brackets!Read \/ Brackets!NextMessage]_<<BracketsRead, OpenKinds, Verdict>>
    <2>1. CASE Parse
        <3>1. [Brackets!Read]_Reader
            BY <1>2, <2>1, LexemeStep, EndStep DEF Parse, ReadInv
        <3>. QED
            BY <3>1 DEF Reader
    <2>2. CASE TakeTokens \/ TakePair \/ RunPast \/ NoPairLeft \/ Callback \/ UNCHANGED decodeVars
        <3>1. js' = js /\ tokens' = tokens /\ result' = result
            BY <2>2 DEF TakeTokens, TakePair, RunPast, NoPairLeft, Callback, decodeVars, jsmnVars
        <3>. QED
            BY <3>1, StackStays DEF BracketsRead, Signs, Verdict
    <2>3. CASE NextMessage
        <3>1. JsmnReset /\ result # RUNNING
            BY <1>2, <2>3 DEF NextMessage, ReadInv
        <3>2. Verdict # "reading"
            BY <3>1 DEF Verdict
        <3>. QED
            BY <3>1, <3>2, NothingRead DEF Brackets!NextMessage
    <2>. QED
        BY <1>2, <2>1, <2>2, <2>3 DEF DecodeNext
<1>. QED
    BY <1>1, <1>2, ReadHolds, PTL DEF DecodeSpec, ImplementsNesting, Brackets!Spec

-----------------------------------------------------------------------------
(***************************************************************************)
(* A flat message, field by field.                                         *)
(***************************************************************************)
InPlace(s, k) ==
    /\ k % 4 = 2 => s[k].kind = "string"
    /\ k % 4 = 3 => s[k].kind = ":"
    /\ k % 4 = 0 => s[k].kind \in Scalars
    /\ k % 4 = 1 => s[k].kind = ","

\* The message so far is the beginning of a flat one.
FlatSoFar ==
    /\ Len(js) >= 1 /\ js[1].kind = "{"
    /\ \A k \in 2..Len(js) : InPlace(js, k)

\* The tokens of m fields and of the name of another one when r, the lexemes after
\* the last comma or the brace that were not a whole field, has come to it.
Count(m, r) == IF r < 2 THEN 2 * m + 1 ELSE 2 * m + 2

Fields(m, r) ==
    /\ Len(tokens) = Count(m, r)
    /\ tokens[1].type = "object"
    /\ tokens[1].size = IF r < 2 THEN m ELSE m + 1
    /\ \A j \in 2..Len(tokens) : /\ tokens[j].type = js[2 * (j - 1)].kind
                                 /\ tokens[j].type \in Scalars
                                 /\ tokens[j].start = 2 * (j - 1)
    /\ \A n \in 1..m : tokens[2 * n].size = 1 /\ tokens[2 * n + 1].size = 0
    /\ r >= 2 => tokens[2 * m + 2].size = 0

\* The name stays the token that the next one belongs to until the comma.
FieldsOpen(m, r) ==
    /\ Fields(m, r)
    /\ OpenTokens = {1}
    /\ toksuper = CASE r = 0 -> 2 * m [] r = 1 -> 1 [] r = 2 -> 1 [] r = 3 -> 2 * m + 2

FieldsClosed(m) ==
    /\ Fields(m, 1)
    /\ OpenTokens = {}
    /\ result \in {RUNNING, 2 * m + 1}

FlatInv ==
    /\ js = << >> => tokens = << >> /\ toksuper = 0
    /\ \A m \in Nat, r \in 0..3 :
          FlatSoFar /\ Len(js) = 4 * m + r /\ Count(m, r) <= NUM_TOKENS => FieldsOpen(m, r)
    /\ \A m \in Nat :
          Flat /\ Len(js) = 4 * m + 1 /\ 2 * m + 1 <= NUM_TOKENS => FieldsClosed(m)

LEMMA LexemeRead ==
    ASSUME js \in Seq(Lexemes), NEW x, js' = Append(js, x)
    PROVE  /\ Len(js) \in Nat /\ Len(js') = Len(js) + 1 /\ js'[Len(js) + 1] = x
           /\ \A k \in 1..Len(js) : js'[k] = js[k]
<1>1. js \in Seq(Lexemes \cup {x}) /\ x \in Lexemes \cup {x}
    <2>1. Lexemes \subseteq Lexemes \cup {x}
        OBVIOUS
    <2>. QED
        BY <2>1
<1>. QED
    BY <1>1, AppendProperties, LenProperties

LEMMA ScalarAdded ==
    ASSUME JsmnInv, NEW x \in Lexemes, x.kind \in Scalars, Scalar(x, x.kind),
           Len(tokens) < NUM_TOKENS
    PROVE  LET N == Len(tokens)
           IN  /\ Len(tokens') = N + 1
               /\ tokens'[N + 1].type = x.kind
               /\ tokens'[N + 1].start = Len(js) + 1
               /\ tokens'[N + 1].size = 0
               /\ \A n \in 1..N : /\ tokens'[n].type = tokens[n].type
                                  /\ tokens'[n].start = tokens[n].start
                                  /\ tokens'[n].size =
                                        IF n = toksuper THEN tokens[n].size + 1 ELSE tokens[n].size
               /\ OpenTokens' = OpenTokens /\ toksuper' = toksuper /\ result' = result
<1>. DEFINE t == Token(x.kind, Len(js'), Len(js'))
<1>1. Read(x) /\ TokensSay
    BY DEF Scalar, JsmnInv
<1>2. Len(js') = Len(js) + 1 /\ Len(js') \in Nat \ {0}
    BY <1>1, Reading
<1>3. ~Full
    BY OpenPlaces, <1>1, TokensAssumption DEF Full
<1>4. Add(t) /\ toksuper' = toksuper /\ result' = result
    BY <1>3 DEF Scalar
<1>5. t \in TokenRecord /\ ~IsOpen(t) /\ t.type = x.kind /\ t.start = Len(js) + 1 /\ t.size = 0
    BY <1>2 DEF Token, TokenRecord, IsOpen, Scalars
<1>. HIDE DEF t
<1>6. LET N == Len(tokens)
      IN  /\ Len(tokens') = N + 1 /\ tokens'[N + 1] = t
          /\ \A n \in 1..N : /\ tokens'[n].type = tokens[n].type
                             /\ tokens'[n].start = tokens[n].start
                             /\ tokens'[n].size =
                                   IF n = toksuper THEN tokens[n].size + 1 ELSE tokens[n].size
          /\ OpenTokens' = OpenTokens
    BY <1>1, <1>4, <1>5, TokenAdded
<1>. QED
    BY <1>4, <1>5, <1>6

LEMMA BraceRead ==
    ASSUME JsmnInv, NEW x \in Lexemes, OpenBracket(x, "object"), Len(js) = 0,
           tokens = << >>, toksuper = 0
    PROVE  FieldsOpen(0, 1)'
<1>. DEFINE t == Token("object", Len(js'), -1)
<1>1. Read(x) /\ TokensSay /\ Len(tokens) = 0
    BY DEF OpenBracket, JsmnInv
<1>2. Len(js') = 1
    BY <1>1, Reading
<1>3. ~Full
    BY <1>1, TokensAssumption DEF Full
<1>4. Add(t) /\ toksuper' = Len(tokens')
    BY <1>3 DEF OpenBracket
<1>5. t \in TokenRecord /\ IsOpen(t) /\ t.type = "object" /\ t.size = 0
    BY <1>2 DEF Token, TokenRecord, IsOpen, Containers
<1>. HIDE DEF t
<1>6. Len(tokens') = 1 /\ tokens'[1] = t /\ OpenTokens' = OpenTokens \cup {1}
    BY <1>1, <1>4, <1>5, TokenAdded
<1>7. OpenTokens = {}
    BY DEF OpenTokens
<1>. QED
    BY <1>4, <1>5, <1>6, <1>7 DEF FieldsOpen, Fields, Count

LEMMA NameRead ==
    ASSUME JsmnInv, NEW x \in Lexemes, x.kind = "string", Scalar(x, x.kind),
           NEW m \in Nat, Len(js) = 4 * m + 1, 2 * m + 2 <= NUM_TOKENS, FieldsOpen(m, 1)
    PROVE  FieldsOpen(m, 2)'
<1>1. Len(tokens) = 2 * m + 1 /\ toksuper = 1 /\ OpenTokens = {1} /\ Len(tokens) < NUM_TOKENS
    BY TokensAssumption DEF FieldsOpen, Fields, Count
<1>2. /\ Len(js') = Len(js) + 1 /\ js'[Len(js) + 1] = x
      /\ \A k \in 1..Len(js) : js'[k] = js[k]
    BY LexemeRead DEF JsmnInv, Scalar, Read
<1>3. /\ Len(tokens') = 2 * m + 2
      /\ tokens'[2 * m + 2].type = x.kind
      /\ tokens'[2 * m + 2].start = Len(js) + 1
      /\ tokens'[2 * m + 2].size = 0
      /\ \A n \in 1..(2 * m + 1) : /\ tokens'[n].type = tokens[n].type
                                   /\ tokens'[n].start = tokens[n].start
                                   /\ tokens'[n].size = IF n = 1 THEN tokens[n].size + 1 ELSE tokens[n].size
      /\ OpenTokens' = {1} /\ toksuper' = 1
    BY <1>1, ScalarAdded DEF Scalars
<1>4. tokens'[1].type = "object" /\ tokens'[1].size = m + 1
    <2>1. tokens[1].type = "object" /\ tokens[1].size = m
        BY DEF FieldsOpen, Fields
    <2>2. 1 \in 1..(2 * m + 1)
        OBVIOUS
    <2>. QED
        BY <1>3, <2>1, <2>2
<1>5. \A j \in 2..(2 * m + 2) : /\ tokens'[j].type = js'[2 * (j - 1)].kind
                                /\ tokens'[j].type \in Scalars
                                /\ tokens'[j].start = 2 * (j - 1)
    <2>1. ASSUME NEW j \in 2..(2 * m + 1)
          PROVE  /\ tokens'[j].type = js'[2 * (j - 1)].kind
                 /\ tokens'[j].type \in Scalars
                 /\ tokens'[j].start = 2 * (j - 1)
        <3>1. /\ tokens[j].type = js[2 * (j - 1)].kind /\ tokens[j].type \in Scalars
              /\ tokens[j].start = 2 * (j - 1)
            BY <1>1 DEF FieldsOpen, Fields
        <3>2. 2 * (j - 1) \in 1..Len(js) /\ j \in 1..(2 * m + 1)
            OBVIOUS
        <3>. QED
            BY <1>2, <1>3, <3>1, <3>2
    <2>2. 2 * ((2 * m + 2) - 1) = Len(js) + 1
        OBVIOUS
    <2>3. /\ tokens'[2 * m + 2].type = js'[2 * ((2 * m + 2) - 1)].kind
          /\ tokens'[2 * m + 2].type \in Scalars
          /\ tokens'[2 * m + 2].start = 2 * ((2 * m + 2) - 1)
        BY <1>2, <1>3, <2>2 DEF Scalars
    <2>4. \A j \in 2..(2 * m + 2) : j \in 2..(2 * m + 1) \/ j = 2 * m + 2
        OBVIOUS
    <2>. QED
        BY <2>1, <2>3, <2>4, Zenon
<1>6. \A n \in 1..m : tokens'[2 * n].size = 1 /\ tokens'[2 * n + 1].size = 0
    <2>1. ASSUME NEW n \in 1..m PROVE tokens'[2 * n].size = 1 /\ tokens'[2 * n + 1].size = 0
        <3>1. 2 * n \in 1..(2 * m + 1) /\ 2 * n + 1 \in 1..(2 * m + 1) /\ 2 * n # 1 /\ 2 * n + 1 # 1
            OBVIOUS
        <3>. QED
            BY <1>3, <3>1 DEF FieldsOpen, Fields
    <2>. QED
        BY <2>1
<1>. QED
    BY <1>3, <1>4, <1>5, <1>6 DEF FieldsOpen, Fields, Count

\* A sign that adds no token: two marks within the same field.
LEMMA FieldsStay ==
    ASSUME js \in Seq(Lexemes), NEW x \in Lexemes, js' = Append(js, x),
           Len(tokens') = Len(tokens),
           \A n \in 1..Len(tokens) : /\ tokens'[n].type = tokens[n].type
                                     /\ tokens'[n].start = tokens[n].start
                                     /\ tokens'[n].size = tokens[n].size,
           NEW m \in Nat, NEW r \in 0..3, NEW q \in 0..3, r < 2 <=> q < 2,
           Len(js) = 4 * m + r, Fields(m, r)
    PROVE  Fields(m, q)'
<1>1. \A k \in 1..Len(js) : js'[k] = js[k]
    BY LexemeRead
<1>2. Len(tokens) = Count(m, r) /\ Count(m, r) = Count(m, q) /\ Count(m, r) \in Nat \ {0}
      /\ 2 * (Count(m, r) - 1) <= Len(js)
    BY DEF Fields, Count
<1>3. Len(tokens') = Count(m, q) /\ tokens'[1].type = "object"
      /\ tokens'[1].size = IF q < 2 THEN m ELSE m + 1
    BY <1>2 DEF Fields
<1>4. \A j \in 2..Len(tokens) : /\ tokens'[j].type = js'[2 * (j - 1)].kind
                                /\ tokens'[j].type \in Scalars
                                /\ tokens'[j].start = 2 * (j - 1)
    <2>1. ASSUME NEW j \in 2..Len(tokens)
          PROVE  /\ tokens'[j].type = js'[2 * (j - 1)].kind
                 /\ tokens'[j].type \in Scalars
                 /\ tokens'[j].start = 2 * (j - 1)
        <3>1. /\ tokens[j].type = js[2 * (j - 1)].kind /\ tokens[j].type \in Scalars
              /\ tokens[j].start = 2 * (j - 1)
            BY DEF Fields
        <3>2. 2 * (j - 1) \in 1..Len(js) /\ j \in 1..Len(tokens)
            BY <1>2
        <3>. QED
            BY <1>1, <3>1, <3>2
    <2>. QED
        BY <2>1
<1>5. \A n \in 1..m : tokens'[2 * n].size = 1 /\ tokens'[2 * n + 1].size = 0
    <2>1. ASSUME NEW n \in 1..m PROVE tokens'[2 * n].size = 1 /\ tokens'[2 * n + 1].size = 0
        <3>1. 2 * n \in 1..Len(tokens) /\ 2 * n + 1 \in 1..Len(tokens)
            BY <1>2 DEF Count
        <3>. QED
            BY <3>1 DEF Fields
    <2>. QED
        BY <2>1
<1>6. q >= 2 => tokens'[2 * m + 2].size = 0
    BY <1>2 DEF Fields, Count
<1>. QED
    BY <1>2, <1>3, <1>4, <1>5, <1>6 DEF Fields

LEMMA ColonRead ==
    ASSUME JsmnInv, NEW x \in Lexemes, Colon(x),
           NEW m \in Nat, Len(js) = 4 * m + 2, FieldsOpen(m, 2)
    PROVE  FieldsOpen(m, 3)'
<1>1. js \in Seq(Lexemes) /\ js' = Append(js, x) /\ tokens' = tokens /\ toksuper' = Len(tokens)
    BY DEF JsmnInv, Colon, Read
<1>2. Fields(m, 2) /\ OpenTokens = {1} /\ Len(tokens) = 2 * m + 2
    BY DEF FieldsOpen, Fields, Count
<1>3. Fields(m, 3)'
    BY <1>1, <1>2, FieldsStay
<1>. QED
    BY <1>1, <1>2, <1>3, StackStays DEF FieldsOpen

LEMMA CommaRead ==
    ASSUME JsmnInv, NEW x \in Lexemes, Comma(x),
           NEW m \in Nat, m > 0, Len(js) = 4 * m, FieldsOpen(m, 0)
    PROVE  FieldsOpen(m, 1)'
<1>1. js \in Seq(Lexemes) /\ js' = Append(js, x) /\ tokens' = tokens
    BY DEF JsmnInv, Comma, Read
<1>2. Fields(m, 0) /\ OpenTokens = {1} /\ toksuper = 2 * m /\ Len(tokens) = 2 * m + 1
    BY DEF FieldsOpen, Fields, Count
<1>3. Fields(m, 1)'
    BY <1>1, <1>2, FieldsStay
<1>4. tokens[2 * m].type \notin Containers /\ toksuper # 0
    <2>1. 2 * m \in 2..Len(tokens)
        BY <1>2
    <2>2. tokens[2 * m].type \in Scalars
        BY <1>2, <2>1 DEF Fields
    <2>. QED
        BY <1>2, <2>2 DEF Scalars, Containers
<1>5. Innermost(OpenTokens) = 1
    BY <1>2 DEF Innermost
<1>6. toksuper' = 1
    BY <1>2, <1>4, <1>5 DEF Comma
<1>. QED
    BY <1>1, <1>2, <1>3, <1>6, StackStays DEF FieldsOpen

LEMMA BraceClosed ==
    ASSUME JsmnInv, NEW x \in Lexemes, CloseBracket(x, "object"),
           NEW m \in Nat, m > 0, Len(js) = 4 * m, FieldsOpen(m, 0)
    PROVE  FieldsClosed(m)'
<1>1. /\ js \in Seq(Lexemes) /\ js' = Append(js, x) /\ Read(x) /\ TokensSay
      /\ result = RUNNING /\ Len(js') \in Nat
    BY Reading DEF JsmnInv, CloseBracket, Read
<1>2. /\ Fields(m, 0) /\ OpenTokens = {1} /\ Len(tokens) = 2 * m + 1
      /\ tokens[1].type = "object"
    BY DEF FieldsOpen, Fields, Count
<1>3. Innermost(OpenTokens) = 1
    BY <1>2 DEF Innermost
<1>4. tokens' = [tokens EXCEPT ![1].end = Len(js')] /\ result' = RUNNING
    BY <1>1, <1>2, <1>3 DEF CloseBracket
<1>5. /\ Len(tokens') = Len(tokens)
      /\ \A k \in 1..Len(tokens) : /\ tokens'[k].type = tokens[k].type
                                   /\ tokens'[k].start = tokens[k].start
                                   /\ tokens'[k].size = tokens[k].size
      /\ OpenTokens' = {}
    <2>1. 1 \in OpenTokens /\ OpenTokens \ {1} = {}
        BY <1>2
    <2>. QED
        BY <1>1, <1>4, <2>1, TokenClosed
<1>6. Fields(m, 1)'
    BY <1>1, <1>2, <1>5, FieldsStay
<1>. QED
    BY <1>4, <1>5, <1>6 DEF FieldsClosed

LEMMA ValueRead ==
    ASSUME JsmnInv, NEW x \in Lexemes, x.kind \in Scalars, Scalar(x, x.kind),
           NEW m \in Nat, Len(js) = 4 * m + 3, 2 * m + 3 <= NUM_TOKENS, FieldsOpen(m, 3)
    PROVE  FieldsOpen(m + 1, 0)'
<1>1. /\ Len(tokens) = 2 * m + 2 /\ toksuper = 2 * m + 2 /\ OpenTokens = {1}
      /\ Len(tokens) < NUM_TOKENS /\ Fields(m, 3)
    BY TokensAssumption DEF FieldsOpen, Fields, Count
<1>2. /\ Len(js') = Len(js) + 1 /\ js'[Len(js) + 1] = x
      /\ \A k \in 1..Len(js) : js'[k] = js[k]
    BY LexemeRead DEF JsmnInv, Scalar, Read
<1>3. /\ Len(tokens') = 2 * m + 3
      /\ tokens'[2 * m + 3].type = x.kind
      /\ tokens'[2 * m + 3].start = Len(js) + 1
      /\ tokens'[2 * m + 3].size = 0
      /\ \A n \in 1..(2 * m + 2) : /\ tokens'[n].type = tokens[n].type
                                   /\ tokens'[n].start = tokens[n].start
                                   /\ tokens'[n].size =
                                        IF n = 2 * m + 2 THEN tokens[n].size + 1 ELSE tokens[n].size
      /\ OpenTokens' = {1} /\ toksuper' = 2 * m + 2
    BY <1>1, ScalarAdded
<1>4. tokens'[1].type = "object" /\ tokens'[1].size = m + 1
    <2>1. 1 \in 1..(2 * m + 2) /\ 1 # 2 * m + 2
        OBVIOUS
    <2>. QED
        BY <1>1, <1>3, <2>1 DEF Fields
<1>5. \A j \in 2..(2 * m + 3) : /\ tokens'[j].type = js'[2 * (j - 1)].kind
                                /\ tokens'[j].type \in Scalars
                                /\ tokens'[j].start = 2 * (j - 1)
    <2>1. ASSUME NEW j \in 2..(2 * m + 2)
          PROVE  /\ tokens'[j].type = js'[2 * (j - 1)].kind
                 /\ tokens'[j].type \in Scalars
                 /\ tokens'[j].start = 2 * (j - 1)
        <3>1. /\ tokens[j].type = js[2 * (j - 1)].kind /\ tokens[j].type \in Scalars
              /\ tokens[j].start = 2 * (j - 1)
            BY <1>1 DEF Fields
        <3>2. 2 * (j - 1) \in 1..Len(js) /\ j \in 1..(2 * m + 2)
            OBVIOUS
        <3>. QED
            BY <1>2, <1>3, <3>1, <3>2
    <2>2. 2 * ((2 * m + 3) - 1) = Len(js) + 1
        OBVIOUS
    <2>3. /\ tokens'[2 * m + 3].type = js'[2 * ((2 * m + 3) - 1)].kind
          /\ tokens'[2 * m + 3].type \in Scalars
          /\ tokens'[2 * m + 3].start = 2 * ((2 * m + 3) - 1)
        BY <1>2, <1>3, <2>2
    <2>4. \A j \in 2..(2 * m + 3) : j \in 2..(2 * m + 2) \/ j = 2 * m + 3
        OBVIOUS
    <2>. QED
        BY <2>1, <2>3, <2>4, Zenon
<1>6. \A n \in 1..(m + 1) : tokens'[2 * n].size = 1 /\ tokens'[2 * n + 1].size = 0
    <2>1. ASSUME NEW n \in 1..m PROVE tokens'[2 * n].size = 1 /\ tokens'[2 * n + 1].size = 0
        <3>1. /\ 2 * n \in 1..(2 * m + 2) /\ 2 * n + 1 \in 1..(2 * m + 2)
              /\ 2 * n # 2 * m + 2 /\ 2 * n + 1 # 2 * m + 2
            OBVIOUS
        <3>. QED
            BY <1>1, <1>3, <3>1 DEF Fields
    <2>2. tokens'[2 * m + 2].size = 1
        <3>1. tokens[2 * m + 2].size = 0 /\ 2 * m + 2 \in 1..(2 * m + 2)
            BY <1>1 DEF Fields
        <3>. QED
            BY <1>3, <3>1
    <2>3. 2 * (m + 1) = 2 * m + 2 /\ 2 * (m + 1) + 1 = 2 * m + 3
        OBVIOUS
    <2>4. tokens'[2 * (m + 1)].size = 1 /\ tokens'[2 * (m + 1) + 1].size = 0
        BY <1>3, <2>2, <2>3
    <2>5. \A n \in 1..(m + 1) : n \in 1..m \/ n = m + 1
        OBVIOUS
    <2>. QED
        BY <2>1, <2>4, <2>5, Zenon
<1>7. 2 * (m + 1) + 1 = 2 * m + 3 /\ 2 * (m + 1) = 2 * m + 2
    OBVIOUS
<1>8. Fields(m + 1, 0)'
    BY <1>3, <1>4, <1>5, <1>6, <1>7 DEF Fields, Count
<1>. QED
    BY <1>3, <1>7, <1>8 DEF FieldsOpen

LEMMA PlaceKinds ==
    ASSUME NEW s, NEW m \in Nat
    PROVE  /\ InPlace(s, 4 * m) => s[4 * m].kind \in Scalars
           /\ InPlace(s, 4 * m + 1) => s[4 * m + 1].kind = ","
           /\ InPlace(s, 4 * m + 2) => s[4 * m + 2].kind = "string"
           /\ InPlace(s, 4 * m + 3) => s[4 * m + 3].kind = ":"
<1>1. (4 * m) % 4 = 0 /\ (4 * m + 1) % 4 = 1 /\ (4 * m + 2) % 4 = 2 /\ (4 * m + 3) % 4 = 3
    OBVIOUS
<1>2. \A k \in Nat : InPlace(s, k) => /\ k % 4 = 0 => s[k].kind \in Scalars
                                      /\ k % 4 = 1 => s[k].kind = ","
                                      /\ k % 4 = 2 => s[k].kind = "string"
                                      /\ k % 4 = 3 => s[k].kind = ":"
    BY DEF InPlace
<1>3. 4 * m \in Nat /\ 4 * m + 1 \in Nat /\ 4 * m + 2 \in Nat /\ 4 * m + 3 \in Nat
    OBVIOUS
<1>. QED
    BY <1>1, <1>2, <1>3, Zenon

LEMMA FlatPlaces ==
    /\ Flat => /\ Len(js) >= 5 /\ js[1].kind = "{" /\ js[Len(js)].kind = "}"
               /\ \A k \in 2..(Len(js) - 1) : InPlace(js, k)
    /\ Flat' => /\ Len(js') >= 5 /\ js'[1].kind = "{" /\ js'[Len(js')].kind = "}"
                /\ \A k \in 2..(Len(js') - 1) : InPlace(js', k)
BY DEF Flat, InPlace

LEMMA PlacesStay ==
    ASSUME js \in Seq(Lexemes), NEW x, js' = Append(js, x)
    PROVE  \A k \in 1..Len(js) : InPlace(js', k) => InPlace(js, k)
<1>1. \A k \in 1..Len(js) : js'[k] = js[k]
    BY LexemeRead
<1>. QED
    BY <1>1 DEF InPlace

LEMMA FlatLexeme ==
    ASSUME JsmnInv, FlatInv, NEW x \in Lexemes, ParseLexeme(x)
    PROVE  FlatInv'
<1>1. /\ Len(js) \in Nat /\ Len(js') = Len(js) + 1 /\ js'[Len(js) + 1] = x
      /\ js \in Seq(Lexemes) /\ js' = Append(js, x)
      /\ \A k \in 1..Len(js) : js'[k] = js[k]
    <2>1. js \in Seq(Lexemes) /\ js' = Append(js, x)
        BY DEF JsmnInv, ParseLexeme, OpenBracket, CloseBracket, Scalar, Colon, Comma, Refuse, Read
    <2>. QED
        BY <2>1, LexemeRead
<1>. DEFINE L == Len(js)
            K == Len(js')
<1>a. L \in Nat /\ K = L + 1 /\ js'[L + 1] = x /\ L = Len(js) /\ K = Len(js')
      /\ \A k \in 1..L : js'[k] = js[k]
    BY <1>1
<1>g. L \in Nat /\ K = L + 1
    BY <1>1
<1>h. js'[L + 1] = x /\ \A k \in 1..L : js'[k] = js[k]
    BY <1>1
<1>2. js' # << >>
    BY <1>1
<1>3. \A k \in 1..Len(js) : InPlace(js', k) => InPlace(js, k)
    BY <1>1, PlacesStay
<1>4. /\ x.kind = "{" => OpenBracket(x, "object")
      /\ x.kind = "}" => CloseBracket(x, "object")
      /\ x.kind \in Scalars => Scalar(x, x.kind)
      /\ x.kind = ":" => Colon(x)
      /\ x.kind = "," => Comma(x)
    BY DEF ParseLexeme, Scalars
<1>b. FlatSoFar' => js'[1].kind = "{" /\ \A k \in 2..K : InPlace(js', k)
    BY DEF FlatSoFar
<1>c. L >= 1 /\ js[1].kind = "{" /\ (\A k \in 2..L : InPlace(js, k)) => FlatSoFar
    BY DEF FlatSoFar
<1>d. \A k \in 1..L : InPlace(js', k) => InPlace(js, k)
    BY <1>3
<1>e. \A m \in Nat, r \in 0..3 : FlatSoFar /\ L = 4 * m + r /\ Count(m, r) <= NUM_TOKENS => FieldsOpen(m, r)
    BY DEF FlatInv
<1>f. L = 0 => js = << >> /\ tokens = << >> /\ toksuper = 0
    BY <1>1, EmptySeq DEF FlatInv
<1>. HIDE DEF L, K
<1>5. ASSUME NEW m \in Nat, NEW r \in 0..3, FlatSoFar', K = 4 * m + r, Count(m, r) <= NUM_TOKENS
      PROVE  FieldsOpen(m, r)'
    <2>1. CASE L = 0
        <3>1. m = 0 /\ r = 1
            BY <1>a, <1>5, <2>1
        <3>2. x.kind = "{"
            <4>1. L + 1 = 1
                BY <2>1
            <4>. QED
                BY <1>b, <1>h, <1>5, <4>1
        <3>3. js = << >> /\ tokens = << >> /\ toksuper = 0
            BY <1>f, <2>1
        <3>4. FieldsOpen(0, 1)'
            BY <1>4, <1>a, <2>1, <3>2, <3>3, BraceRead
        <3>. QED
            BY <3>1, <3>4
    <2>2. CASE L # 0
        <3>0. 1 \in 1..L /\ L + 1 \in 2..K /\ \A k \in 2..L : k \in 1..L /\ k \in 2..K
            BY <1>a, <2>2
        <3>1. FlatSoFar
            <4>1. js[1].kind = "{" /\ L >= 1
                <5>1. js'[1].kind = "{"
                    BY <1>b, <1>5
                <5>2. js'[1] = js[1] /\ L >= 1
                    BY <1>g, <1>h, <3>0
                <5>. QED
                    BY <5>1, <5>2
            <4>2. \A k \in 2..L : InPlace(js, k)
                BY <1>b, <1>d, <1>5, <3>0
            <4>. QED
                BY <1>c, <4>1, <4>2
        <3>2. InPlace(js', L + 1) /\ js'[L + 1] = x
            BY <1>a, <1>b, <1>5, <3>0
        <3>3. CASE r = 0
            <4>1. m - 1 \in Nat /\ L = 4 * (m - 1) + 3 /\ L + 1 = 4 * m
                BY <1>a, <1>5, <3>3
            <4>2. Scalar(x, x.kind) /\ x.kind \in Scalars
                BY <1>4, <3>2, <4>1, PlaceKinds
            <4>3. /\ Count(m - 1, 3) <= NUM_TOKENS /\ 2 * (m - 1) + 3 <= NUM_TOKENS /\ 3 \in 0..3
                  /\ (m - 1) + 1 = m
                BY <1>5, <3>3, TokensAssumption DEF Count
            <4>4. FieldsOpen(m - 1, 3)
                BY <1>e, <3>1, <4>1, <4>3
            <4>. DEFINE n == m - 1
            <4>5. n \in Nat /\ L = 4 * n + 3 /\ 2 * n + 3 <= NUM_TOKENS /\ FieldsOpen(n, 3)
                BY <4>1, <4>3, <4>4
            <4>6. n + 1 = m
                BY <4>3
            <4>. HIDE DEF n
            <4>7. FieldsOpen(n + 1, 0)'
                BY <1>a, <4>2, <4>5, ValueRead
            <4>. QED
                BY <3>3, <4>6, <4>7
        <3>4. CASE r = 1
            <4>1. m > 0 /\ L = 4 * m /\ L = 4 * m + 0 /\ L + 1 = 4 * m + 1
                BY <1>a, <1>5, <2>2, <3>4
            <4>2. Comma(x)
                BY <1>4, <3>2, <4>1, PlaceKinds
            <4>3. Count(m, 0) <= NUM_TOKENS /\ 0 \in 0..3
                BY <1>5, <3>4 DEF Count
            <4>4. FieldsOpen(m, 0)
                BY <1>e, <3>1, <4>1, <4>3
            <4>. QED
                BY <1>a, <3>4, <4>1, <4>2, <4>4, CommaRead
        <3>5. CASE r = 2
            <4>1. L = 4 * m + 1 /\ L + 1 = 4 * m + 2
                BY <1>a, <1>5, <3>5
            <4>2. Scalar(x, x.kind) /\ x.kind = "string"
                BY <1>4, <3>2, <4>1, PlaceKinds DEF Scalars
            <4>3. Count(m, 1) <= NUM_TOKENS /\ 1 \in 0..3 /\ 2 * m + 2 <= NUM_TOKENS
                BY <1>5, <3>5, TokensAssumption DEF Count
            <4>4. FieldsOpen(m, 1)
                BY <1>e, <3>1, <4>1, <4>3
            <4>. QED
                BY <1>a, <3>5, <4>1, <4>2, <4>3, <4>4, NameRead
        <3>6. CASE r = 3
            <4>1. L = 4 * m + 2 /\ L + 1 = 4 * m + 3
                BY <1>a, <1>5, <3>6
            <4>2. Colon(x)
                BY <1>4, <3>2, <4>1, PlaceKinds
            <4>3. Count(m, 2) <= NUM_TOKENS /\ 2 \in 0..3
                BY <1>5, <3>6 DEF Count
            <4>4. FieldsOpen(m, 2)
                BY <1>e, <3>1, <4>1, <4>3
            <4>. QED
                BY <1>a, <3>6, <4>1, <4>2, <4>4, ColonRead
        <3>. QED
            BY <3>3, <3>4, <3>5, <3>6
    <2>. QED
        BY <2>1, <2>2
<1>6. ASSUME NEW m \in Nat, Flat', K = 4 * m + 1, 2 * m + 1 <= NUM_TOKENS
      PROVE  FieldsClosed(m)'
    <2>1. /\ K >= 5 /\ js'[1].kind = "{" /\ js'[K].kind = "}"
          /\ \A k \in 2..(K - 1) : InPlace(js', k)
        BY <1>a, <1>6, FlatPlaces
    <2>2. m > 0 /\ L = 4 * m /\ L = 4 * m + 0
        <3>1. K = 4 * m + 1 /\ K >= 5
            BY <1>6, <2>1
        <3>. QED
            BY <1>g, <3>1
    <2>3. CloseBracket(x, "object")
        BY <1>a, <1>4, <2>1
    <2>4. FlatSoFar
        <3>0. 1 \in 1..L /\ L >= 1 /\ \A k \in 2..L : k \in 1..L /\ k \in 2..(K - 1)
            BY <1>a, <2>2
        <3>1. js[1].kind = "{"
            BY <1>a, <2>1, <3>0
        <3>2. \A k \in 2..L : InPlace(js, k)
            BY <1>d, <2>1, <3>0
        <3>. QED
            BY <1>c, <3>0, <3>1, <3>2
    <2>5. FieldsOpen(m, 0)
        <3>1. Count(m, 0) <= NUM_TOKENS /\ 0 \in 0..3
            BY <1>6 DEF Count
        <3>. QED
            BY <1>e, <2>2, <2>4, <3>1
    <2>. QED
        BY <1>a, <2>2, <2>3, <2>5, BraceClosed
<1>. QED
    BY <1>2, <1>5, <1>6 DEF FlatInv, Count, K

LEMMA FlatEnd ==
    ASSUME JsmnInv, FlatInv, EndOfMessage
    PROVE  FlatInv'
<1>1. /\ tokens' = tokens /\ toksuper' = toksuper /\ js' = js
      /\ OpenTokens = {} => result' = Len(tokens)
    BY DEF EndOfMessage
<1>2. OpenTokens' = OpenTokens /\ (Flat' <=> Flat) /\ (FlatSoFar' <=> FlatSoFar)
    BY <1>1 DEF OpenTokens, Flat, FlatSoFar, InPlace
<1>3. \A m, r : Fields(m, r)' <=> Fields(m, r)
    BY <1>1 DEF Fields
<1>4. \A m, r : FieldsOpen(m, r)' <=> FieldsOpen(m, r)
    BY <1>1, <1>2, <1>3 DEF FieldsOpen
<1>5. \A m \in Nat : FieldsClosed(m) => FieldsClosed(m)'
    <2>1. \A m \in Nat : FieldsClosed(m) => Len(tokens) = 2 * m + 1 /\ OpenTokens = {} /\ Fields(m, 1)
        BY DEF FieldsClosed, Fields, Count
    <2>. QED
        BY <1>1, <1>2, <1>3, <2>1 DEF FieldsClosed
<1>. QED
    BY <1>1, <1>2, <1>4, <1>5 DEF FlatInv, Count

-----------------------------------------------------------------------------
(***************************************************************************)
(* Texts in arrays.                                                        *)
(***************************************************************************)
Plain(text) ==
    /\ Len(text) \in Nat /\ DOMAIN text = 1..Len(text)
    /\ \A k \in 1..Len(text) : text[k] # NUL

LEMMA TextPlain == ASSUME NEW v, IsText(v) PROVE Plain(v)
<1>. DEFINE S == {v[k] : k \in DOMAIN v} \ {NUL}
<1>1. v \in Seq(S) /\ NUL \notin S
    BY DEF IsText
<1>. HIDE DEF S
<1>2. Len(v) \in Nat /\ DOMAIN v = 1..Len(v) /\ \A k \in 1..Len(v) : v[k] \in S
    BY <1>1
<1>. QED
    BY <1>1, <1>2 DEF Plain

\* A text that leaves room for a NUL in an array.
Fits(v) == IsText(v) /\ Len(v) < BUF

\* Where a copy stays in bounds the text fits: the NUL that sprintf finds is not in it.
LEMMA BoundsFit ==
    ASSUME NEW mem, IsArray(mem), NEW v, Plain(v), InBounds(mem, v)
    PROVE  Len(v) < BUF
<1>1. PICK k \in 1..BUF : Memcpy(mem, v)[k] = NUL
    BY DEF InBounds
<1>2. DOMAIN mem = 1..BUF
    BY DEF IsArray
<1>3. Memcpy(mem, v)[k] = IF k <= Len(v) THEN v[k] ELSE mem[k]
    BY <1>2 DEF Memcpy
<1>4. BUF \in Nat /\ Len(v) \in Nat
    BY DecodeAssumption DEF Plain
<1>5. ~(k <= Len(v))
    BY <1>1, <1>3, <1>4 DEF Plain
<1>. QED
    BY <1>4, <1>5

LEMMA FilledMem ==
    ASSUME NEW v
    PROVE  /\ IsArray(Filled(v))
           /\ \A k \in 1..BUF : Filled(v)[k] = IF k <= Len(v) THEN v[k] ELSE NUL
BY DEF IsArray, Filled

LEMMA CopiedMem ==
    ASSUME NEW mem, IsArray(mem), NEW v
    PROVE  /\ IsArray(Memcpy(mem, v))
           /\ \A k \in 1..BUF : Memcpy(mem, v)[k] = IF k <= Len(v) THEN v[k] ELSE mem[k]
<1>1. DOMAIN mem = 1..BUF
    BY DEF IsArray
<1>. QED
    BY <1>1 DEF IsArray, Memcpy

LEMMA PrintedMem ==
    ASSUME NEW dest, IsArray(dest), NEW source
    PROVE  /\ IsArray(Sprintf(dest, source))
           /\ \A k \in 1..BUF : Sprintf(dest, source)[k] =
                 IF \E j \in 1..(k - 1) : source[j] = NUL THEN dest[k] ELSE source[k]
<1>1. DOMAIN dest = 1..BUF
    BY DEF IsArray
<1>. QED
    BY <1>1 DEF IsArray, Sprintf

\* Where two arrays agree everywhere they are the same.
LEMMA SameMem ==
    ASSUME NEW a, NEW b, IsArray(a), IsArray(b), \A k \in 1..BUF : a[k] = b[k]
    PROVE  a = b
BY DEF IsArray

\* A text that covers all that an array held is all that it holds then.
LEMMA CopyExact ==
    ASSUME NEW mem, IsArray(mem), NEW v, Plain(v), ~Beyond(mem, Len(v))
    PROVE  Memcpy(mem, v) = Filled(v)
<1>1. \A k \in 1..BUF : k <= Len(v) \/ mem[k] = NUL
    <2>1. DOMAIN mem = 1..BUF /\ BUF \in Nat /\ Len(v) \in Nat
        BY DecodeAssumption DEF IsArray, Plain
    <2>. QED
        BY <2>1 DEF Beyond
<1>2. \A k \in 1..BUF : Memcpy(mem, v)[k] = Filled(v)[k]
    BY <1>1, CopiedMem, FilledMem
<1>3. IsArray(Memcpy(mem, v)) /\ IsArray(Filled(v))
    BY CopiedMem, FilledMem
<1>. QED
    BY <1>2, <1>3, SameMem

LEMMA PrintExact ==
    ASSUME NEW dest, IsArray(dest), NEW v, Plain(v),
           \A k \in 1..BUF : k > Len(v) => dest[k] = NUL
    PROVE  Sprintf(dest, Filled(v)) = Filled(v)
<1>0. BUF \in Nat /\ Len(v) \in Nat
    BY DecodeAssumption DEF Plain
<1>1. ASSUME NEW k \in 1..BUF PROVE Sprintf(dest, Filled(v))[k] = Filled(v)[k]
    <2>1. Sprintf(dest, Filled(v))[k] =
             IF \E j \in 1..(k - 1) : Filled(v)[j] = NUL THEN dest[k] ELSE Filled(v)[k]
        BY PrintedMem
    <2>2. CASE k <= Len(v)
        <3>1. \A j \in 1..(k - 1) : j \in 1..Len(v) /\ j \in 1..BUF
            BY <1>0, <2>2
        <3>2. \A j \in 1..(k - 1) : Filled(v)[j] # NUL
            BY <3>1, FilledMem DEF Plain
        <3>. QED
            BY <2>1, <3>2
    <2>3. CASE k > Len(v)
        <3>1. Filled(v)[k] = NUL /\ dest[k] = NUL
            BY <1>0, <2>3, FilledMem
        <3>. QED
            BY <2>1, <3>1
    <2>. QED
        BY <1>0, <2>2, <2>3
<1>. QED
    BY <1>1, PrintedMem, FilledMem, SameMem

\* Whatever the arrays held, the text stands at the beginning.
LEMMA PrintPrefix ==
    ASSUME NEW dest, IsArray(dest), NEW mem, IsArray(mem), NEW v, Plain(v)
    PROVE  \A k \in 1..BUF : k <= Len(v) => Sprintf(dest, Memcpy(mem, v))[k] = v[k]
<1>0. BUF \in Nat /\ Len(v) \in Nat
    BY DecodeAssumption DEF Plain
<1>1. SUFFICES ASSUME NEW k \in 1..BUF, k <= Len(v)
               PROVE  Sprintf(dest, Memcpy(mem, v))[k] = v[k]
    OBVIOUS
<1>. DEFINE source == Memcpy(mem, v)
<1>2. Sprintf(dest, source)[k] = IF \E j \in 1..(k - 1) : source[j] = NUL THEN dest[k] ELSE source[k]
    BY PrintedMem
<1>3. \A j \in 1..k : j \in 1..Len(v) /\ j \in 1..BUF /\ j <= Len(v)
    BY <1>0, <1>1
<1>4. \A j \in 1..k : source[j] = v[j] /\ v[j] # NUL
    BY <1>3, CopiedMem DEF Plain
<1>. HIDE DEF source
<1>5. k \in 1..k /\ \A j \in 1..(k - 1) : j \in 1..k
    OBVIOUS
<1>6. ~\E j \in 1..(k - 1) : source[j] = NUL
    BY <1>4, <1>5
<1>7. Sprintf(dest, source)[k] = v[k]
    BY <1>2, <1>4, <1>5, <1>6
<1>. QED
    BY <1>7 DEF source

-----------------------------------------------------------------------------
(***************************************************************************)
(* Tokens and the lexemes that they start at.                              *)
(***************************************************************************)
StartsAt(s, t) ==
    /\ t.start \in 1..Len(s)
    /\ t.type \in Scalars => s[t.start].kind \in Scalars
    /\ t.type \in Containers => s[t.start].kind \in {"{", "["}

\* Every token starts at a lexeme of its kind, and a message that was accepted has as
\* many tokens as jsmn says.
StartInv ==
    /\ \A n \in 1..Len(tokens) : StartsAt(js, tokens[n])
    /\ result \in Nat => result = Len(tokens)

LEMMA StartsStay ==
    ASSUME js \in Seq(Lexemes), NEW x, js' = Append(js, x), NEW t, NEW u,
           StartsAt(js, t), u.start = t.start, u.type = t.type
    PROVE  StartsAt(js', u)
<1>1. /\ Len(js) \in Nat /\ Len(js') = Len(js) + 1
      /\ \A k \in 1..Len(js) : js'[k] = js[k]
    BY LexemeRead
<1>2. t.start \in 1..Len(js)
    BY DEF StartsAt
<1>3. t.start \in 1..Len(js')
    <2>. DEFINE L == Len(js)
                K == Len(js')
    <2>1. L \in Nat /\ K = L + 1 /\ t.start \in 1..L
        BY <1>1, <1>2
    <2>. HIDE DEF L, K
    <2>2. t.start \in 1..K
        BY <2>1
    <2>. QED
        BY <2>2 DEF K
<1>. QED
    BY <1>1, <1>2, <1>3 DEF StartsAt

LEMMA StartLexeme ==
    ASSUME JsmnInv, StartInv, NEW x \in Lexemes, ParseLexeme(x)
    PROVE  StartInv'
<1>. DEFINE N == Len(tokens)
            Old == \A n \in 1..N : tokens'[n].start = tokens[n].start /\ tokens'[n].type = tokens[n].type
<1>0. /\ Read(x) /\ js \in Seq(Lexemes) /\ js' = Append(js, x) /\ TokensSay /\ N \in Nat
      /\ result \notin Nat
    <2>1. Read(x) /\ TokensSay /\ js \in Seq(Lexemes)
        BY DEF ParseLexeme, OpenBracket, CloseBracket, Scalar, Colon, Comma, Refuse, JsmnInv
    <2>. QED
        BY <2>1, OpenPlaces DEF Read, RUNNING
<1>1. /\ Len(js) \in Nat /\ Len(js') = Len(js) + 1 /\ Len(js') \in Nat \ {0}
      /\ js'[Len(js')] = x /\ Len(js') \in 1..Len(js')
    BY <1>0, LexemeRead
<1>2. ASSUME Old PROVE \A n \in 1..N : StartsAt(js', tokens'[n])
    BY <1>0, <1>2, StartsStay DEF StartInv
<1>3. ASSUME Len(tokens') = N, Old, result' \notin Nat PROVE StartInv'
    BY <1>2, <1>3 DEF StartInv
<1>4. ASSUME NEW t, Len(tokens') = N + 1, Old, tokens'[N + 1] = t, StartsAt(js', t), result' \notin Nat
      PROVE  StartInv'
    <2>1. \A n \in 1..(N + 1) : n \in 1..N \/ n = N + 1
        BY <1>0
    <2>2. \A n \in 1..Len(tokens') : StartsAt(js', tokens'[n])
        BY <1>2, <1>4, <2>1
    <2>. QED
        BY <1>4, <2>2 DEF StartInv
<1>5. ASSUME NEW e \in {JSMN_ERROR_NOMEM, JSMN_ERROR_INVAL, JSMN_ERROR_PART}, Fail(e)
      PROVE  StartInv'
    <2>1. Len(tokens') = N /\ Old /\ result' \notin Nat
        BY <1>5 DEF Fail, JSMN_ERROR_NOMEM, JSMN_ERROR_INVAL, JSMN_ERROR_PART
    <2>. QED
        BY <2>1, <1>3
<1>6. ASSUME NEW type \in Containers, OpenBracket(x, type), x.kind \in {"{", "["} PROVE StartInv'
    <2>1. CASE Full
        BY <1>5, <1>6, <2>1 DEF OpenBracket
    <2>2. CASE ~Full
        <3>. DEFINE t == Token(type, Len(js'), -1)
        <3>1. Add(t) /\ result' = result
            BY <1>6, <2>2 DEF OpenBracket
        <3>2. t \in TokenRecord /\ t.type = type /\ t.start = Len(js')
            BY <1>1 DEF Token, TokenRecord
        <3>. HIDE DEF t
        <3>3. Len(tokens') = N + 1 /\ Old /\ tokens'[N + 1] = t
            BY <1>0, <3>1, <3>2, TokenAdded
        <3>4. StartsAt(js', t)
            BY <1>1, <1>6, <3>2 DEF StartsAt, Scalars, Containers
        <3>. QED
            BY <1>0, <1>4, <3>1, <3>3, <3>4
    <2>. QED
        BY <2>1, <2>2
<1>7. ASSUME NEW type, CloseBracket(x, type) PROVE StartInv'
    <2>. DEFINE n == Innermost(OpenTokens)
    <2>1. CASE n = 0 \/ (n # 0 /\ tokens[n].type # type)
        BY <1>5, <1>7, <2>1 DEF CloseBracket
    <2>2. CASE ~(n = 0 \/ (n # 0 /\ tokens[n].type # type))
        <3>1. tokens' = [tokens EXCEPT ![n].end = Len(js')] /\ result' = result
            BY <1>7, <2>2 DEF CloseBracket
        <3>2. n \in OpenTokens /\ Len(js') \in Nat
            BY <1>0, <1>1, <2>2, OpenPlaces, LastOfPlaces
        <3>. HIDE DEF n
        <3>3. Len(tokens') = N /\ Old
            BY <1>0, <3>1, <3>2, TokenClosed
        <3>. QED
            BY <1>0, <1>3, <3>1, <3>3
    <2>. QED
        BY <2>1, <2>2
<1>8. ASSUME x.kind \in Scalars, Scalar(x, x.kind) PROVE StartInv'
    <2>1. CASE Full
        BY <1>5, <1>8, <2>1 DEF Scalar
    <2>2. CASE ~Full
        <3>1. Len(tokens) < NUM_TOKENS
            BY <1>0, <2>2, TokensAssumption DEF Full
        <3>2. /\ Len(tokens') = N + 1 /\ Old /\ result' = result
              /\ tokens'[N + 1].type = x.kind /\ tokens'[N + 1].start = Len(js) + 1
            BY <1>8, <3>1, ScalarAdded
        <3>3. StartsAt(js', tokens'[N + 1])
            BY <1>1, <1>8, <3>2 DEF StartsAt, Scalars, Containers
        <3>. QED
            BY <1>0, <1>4, <3>2, <3>3
    <2>. QED
        BY <2>1, <2>2
<1>9. ASSUME Colon(x) \/ Comma(x) PROVE StartInv'
    <2>1. Len(tokens') = N /\ Old /\ result' = result
        BY <1>9 DEF Colon, Comma
    <2>. QED
        BY <1>0, <1>3, <2>1
<1>. HIDE DEF Old
<1>. QED
    BY <1>5, <1>6, <1>7, <1>8, <1>9 DEF ParseLexeme, Refuse, Scalars, Containers

LEMMA StartEnd ==
    ASSUME JsmnInv, StartInv, EndOfMessage
    PROVE  StartInv'
BY DEF StartInv, EndOfMessage, JSMN_ERROR_PART

\* The text of a token has no NUL, and begins with its bracket when it has one.
LEMMA TokenText ==
    ASSUME JsmnInv, StartInv, NEW n \in 1..Len(tokens)
    PROVE  LET t == tokens[n]
           IN  /\ Plain(TextOf(t))
               /\ t.type \in Scalars => /\ TextOf(t) = js[t.start].text
                                        /\ t.start \in DOMAIN js /\ js[t.start].kind \in Scalars
               /\ t.type \in Containers =>
                     \A k \in 1..Len(TextOf(t)) : TextOf(t)[k] \in {"{", "["}
               /\ t.type \in Scalars \/ t.type \in Containers
<1>. DEFINE t == tokens[n]
            e == t.end - t.start + 1
<1>1. /\ t.start \in 1..Len(js) /\ t \in TokenRecord
      /\ t.type \in Scalars => js[t.start].kind \in Scalars
      /\ t.type \in Containers => js[t.start].kind \in {"{", "["}
    BY OpenPlaces DEF StartInv, StartsAt, JsmnInv
<1>2. Len(js) \in Nat /\ DOMAIN js = 1..Len(js) /\ js[t.start] \in Lexemes
    BY <1>1, LenProperties, ElementOfSeq DEF JsmnInv
<1>3. e \in Int /\ (t.type \in Scalars \/ t.type \in Containers)
    <2>1. /\ t.type \in Containers \cup {"string", "primitive"}
          /\ t.start \in Nat \ {0} /\ t.end \in Nat \cup {-1}
        BY <1>1 DEF TokenRecord
    <2>2. t.start \in Int /\ t.end \in Int
        BY <2>1
    <2>3. e \in Int
        BY <2>2
    <2>. QED
        BY <2>1, <2>3 DEF Scalars
<1>4. CASE t.type \in Scalars
    <2>1. TextOf(t) = js[t.start].text /\ t.type \notin Containers
        BY <1>4 DEF TextOf, Scalars, Containers
    <2>2. IsText(js[t.start].text)
        BY <1>2, DecodeAssumption
    <2>. QED
        BY <1>1, <1>2, <1>4, <2>1, <2>2, TextPlain
<1>5. CASE t.type \in Containers
    <2>. DEFINE c == js[t.start].kind
                u == [k \in 1..e |-> c]
    <2>1. TextOf(t) = u /\ t.type \notin Scalars /\ c \in {"{", "["}
        BY <1>1, <1>5 DEF TextOf, Scalars, Containers
    <2>2. PICK m \in Nat : 1..e = 1..m
        <3>1. e >= 0 => e \in Nat
            BY <1>3
        <3>2. e < 0 => 1..e = 1..0
            BY <1>3
        <3>. QED
            BY <1>3, <3>1, <3>2
    <2>3. u = [k \in 1..m |-> c]
        BY <2>2
    <2>. HIDE DEF u, c, e
    <2>4. Len(u) = m /\ DOMAIN u = 1..m /\ \A k \in 1..m : u[k] = c
        BY <2>2, <2>3
    <2>5. Plain(u) /\ \A k \in 1..Len(u) : u[k] \in {"{", "["}
        BY <2>1, <2>2, <2>4 DEF Plain, NUL
    <2>. QED
        BY <2>1, <2>5, <1>5
<1>. QED
    BY <1>3, <1>4, <1>5

-----------------------------------------------------------------------------
(***************************************************************************)
(* The arrays and buffers of the two fields.                               *)
(***************************************************************************)
MemInv ==
    /\ pc \in {"parse", "pairs", "callback", "done", "undefined"}
    /\ i \in Nat /\ i >= 2 /\ (pc = "parse" => i = 2)
    /\ \A f \in DecodeFields : IsArray(tempValue[f]) /\ IsArray(buffer[f])
    /\ pc = "parse" => \A f \in DecodeFields : buffer[f] = Filled(<< >>)

\* A field without any text that was not in the message holds the text of one token and
\* nothing else, and so does the array that the next value is copied into.
KeptText(f) ==
    \/ buffer[f] = Filled(<< >>)
    \/ \E n \in 1..Len(tokens) : buffer[f] = Filled(TextOf(tokens[n])) /\ tempValue[f] = buffer[f]

KeptInv == \A f \in DecodeFields : f \notin unsaid => KeptText(f)

\* The values of the first p fields of a flat message.
Taken(p) ==
    \A f \in DecodeFields, n \in 1..p :
        (\A l \in 1..p : l \in Named(f) <=> l = n) =>
            /\ Len(ValueOf(n)) < BUF
            /\ \A k \in 1..BUF : k <= Len(ValueOf(n)) => buffer[f][k] = ValueOf(n)[k]
            /\ f \notin unsaid => buffer[f] = Filled(ValueOf(n))

PairInv ==
    \A m \in Nat :
        Flat /\ Len(js) = 4 * m + 1 /\ 2 * m + 1 <= NUM_TOKENS =>
            /\ pc = "pairs" => \E p \in 0..m : i = 2 * p + 2 /\ Taken(p)
            /\ pc \in {"callback", "done"} => Taken(m)

KnownIn(body) == {c \in Commands : StartsWith(body, c.prefix)}

CallInv ==
    pc = "done" =>
        outcome = [word6 |-> CloudWord(Atoi(buffer["MSGID"]), 4),
                   word3 |-> {Word3(c, buffer["Body"]) : c \in KnownIn(buffer["Body"])}]

DecodeInv == ReadInv /\ FlatInv /\ StartInv /\ MemInv /\ KeptInv /\ PairInv /\ CallInv

LEMMA EmptyMem == IsArray(Filled(<< >>)) /\ \A k \in 1..BUF : Filled(<< >>)[k] = NUL
<1>1. Len(<< >>) = 0
    OBVIOUS
<1>. QED
    BY <1>1, FilledMem

\* What one turn of the loop makes of a field.
LEMMA PairTurn ==
    ASSUME JsmnInv, StartInv, MemInv, TakePair
    PROVE  /\ result \in Nat /\ result = Len(tokens) /\ i \in 1..Len(tokens)
           /\ js' = js /\ tokens' = tokens /\ toksuper' = toksuper /\ result' = result
           /\ pc = "pairs" /\ pc' = pc /\ i' = i + 2 /\ outcome' = outcome
           /\ \E v \in Values : \A f \in DecodeFields :
                 /\ Jsoneq(tokens[i], f) => /\ InBounds(tempValue[f], v)
                                            /\ tempValue'[f] = Memcpy(tempValue[f], v)
                                            /\ buffer'[f] = Sprintf(buffer[f], tempValue'[f])
                                            /\ f \notin unsaid' => i # result /\ ~Beyond(tempValue[f], Len(v))
                 /\ ~Jsoneq(tokens[i], f) => tempValue'[f] = tempValue[f] /\ buffer'[f] = buffer[f]
                 /\ f \in unsaid => f \in unsaid'
<1>1. i <= result /\ i \in Nat /\ i >= 2
    BY DEF TakePair, MemInv
<1>2. result \in Int
    BY TokensAssumption DEF JsmnInv
<1>3. result \in Nat /\ result = Len(tokens)
    BY <1>1, <1>2 DEF StartInv
<1>4. i \in 1..Len(tokens)
    BY <1>1, <1>3
<1>5. PICK v \in Values :
          /\ \A f \in DecodeFields : Jsoneq(tokens[i], f) => InBounds(tempValue[f], v)
          /\ tempValue' = [f \in DecodeFields |->
                IF Jsoneq(tokens[i], f) THEN Memcpy(tempValue[f], v) ELSE tempValue[f]]
          /\ unsaid' = unsaid \cup {f \in DecodeFields :
                /\ Jsoneq(tokens[i], f)
                /\ i = result \/ Beyond(tempValue[f], Len(v))}
    BY DEF TakePair
<1>6. buffer' = [f \in DecodeFields |->
          IF Jsoneq(tokens[i], f) THEN Sprintf(buffer[f], tempValue'[f]) ELSE buffer[f]]
    BY DEF TakePair
<1>7. \A f \in DecodeFields :
         /\ Jsoneq(tokens[i], f) => /\ InBounds(tempValue[f], v)
                                    /\ tempValue'[f] = Memcpy(tempValue[f], v)
                                    /\ buffer'[f] = Sprintf(buffer[f], tempValue'[f])
                                    /\ f \notin unsaid' => i # result /\ ~Beyond(tempValue[f], Len(v))
         /\ ~Jsoneq(tokens[i], f) => tempValue'[f] = tempValue[f] /\ buffer'[f] = buffer[f]
         /\ f \in unsaid => f \in unsaid'
    BY <1>5, <1>6
<1>8. /\ js' = js /\ tokens' = tokens /\ toksuper' = toksuper /\ result' = result
      /\ pc = "pairs" /\ pc' = pc /\ i' = i + 2 /\ outcome' = outcome
    BY DEF TakePair, jsmnVars, Past
<1>. QED
    BY <1>3, <1>4, <1>5, <1>7, <1>8

\* A value after its name is the text of the token that follows.
LEMMA NextValue ==
    ASSUME i # result, i \in Nat, result \in Nat, i <= result, NEW v \in Values
    PROVE  i + 1 \in 1..result /\ v = TextOf(tokens[i + 1])
BY DEF Values

LEMMA PairMem ==
    ASSUME JsmnInv, StartInv, MemInv, TakePair
    PROVE  MemInv'
<1>1. /\ i' = i + 2 /\ pc = "pairs" /\ pc' = pc
      /\ i \in Nat /\ i >= 2
    BY PairTurn DEF MemInv
<1>2. ASSUME NEW f \in DecodeFields PROVE IsArray(tempValue'[f]) /\ IsArray(buffer'[f])
    <2>1. IsArray(tempValue[f]) /\ IsArray(buffer[f])
        BY DEF MemInv
    <2>2. PICK v \in Values :
             /\ Jsoneq(tokens[i], f) => /\ tempValue'[f] = Memcpy(tempValue[f], v)
                                        /\ buffer'[f] = Sprintf(buffer[f], tempValue'[f])
             /\ ~Jsoneq(tokens[i], f) => tempValue'[f] = tempValue[f] /\ buffer'[f] = buffer[f]
        BY PairTurn
    <2>3. IsArray(Memcpy(tempValue[f], v)) /\ IsArray(Sprintf(buffer[f], tempValue'[f]))
        BY <2>1, CopiedMem, PrintedMem
    <2>. QED
        BY <2>1, <2>2, <2>3, Zenon
<1>3. \A f : IsArray(tempValue[f])' <=> IsArray(tempValue'[f])
    BY DEF IsArray
<1>4. \A f : IsArray(buffer[f])' <=> IsArray(buffer'[f])
    BY DEF IsArray
<1>. QED
    BY <1>1, <1>2, <1>3, <1>4 DEF MemInv

\* A field that has no other text than those of the message takes the next value whole.
LEMMA TextTaken ==
    ASSUME JsmnInv, StartInv, MemInv, KeptInv, TakePair,
           NEW f \in DecodeFields, f \notin unsaid', Jsoneq(tokens[i], f)
    PROVE  /\ i + 1 \in 1..Len(tokens)
           /\ buffer'[f] = Filled(TextOf(tokens[i + 1])) /\ tempValue'[f] = buffer'[f]
<1>1. result \in Nat /\ result = Len(tokens) /\ i \in 1..Len(tokens)
    BY PairTurn
<1>2. PICK v \in Values :
         /\ tempValue'[f] = Memcpy(tempValue[f], v)
         /\ buffer'[f] = Sprintf(buffer[f], tempValue'[f])
         /\ i # result /\ ~Beyond(tempValue[f], Len(v)) /\ f \notin unsaid
    BY PairTurn
<1>3. KeptText(f)
    BY <1>2 DEF KeptInv
<1>4. IsArray(tempValue[f]) /\ IsArray(buffer[f]) /\ i \in Nat /\ i <= result
    BY <1>1 DEF MemInv
<1>5. i + 1 \in 1..Len(tokens) /\ v = TextOf(tokens[i + 1])
    BY <1>1, <1>2, <1>4, NextValue
<1>6. Plain(v)
    BY <1>5, TokenText
<1>7. tempValue'[f] = Filled(v)
    BY <1>2, <1>4, <1>6, CopyExact
<1>8. \A k \in 1..BUF : k > Len(v) => buffer[f][k] = NUL
    <2>1. CASE buffer[f] = Filled(<< >>)
        BY <2>1, EmptyMem
    <2>2. CASE buffer[f] = tempValue[f]
        <3>1. DOMAIN tempValue[f] = 1..BUF
            BY <1>4 DEF IsArray
        <3>2. \A k \in 1..BUF : k > Len(v) => tempValue[f][k] = NUL
            BY <1>2, <3>1 DEF Beyond
        <3>. QED
            BY <2>2, <3>2
    <2>. QED
        BY <1>3, <2>1, <2>2 DEF KeptText
<1>9. buffer'[f] = Filled(v)
    BY <1>2, <1>4, <1>6, <1>7, <1>8, PrintExact
<1>. QED
    BY <1>5, <1>7, <1>9

LEMMA PairKept ==
    ASSUME JsmnInv, StartInv, MemInv, KeptInv, TakePair
    PROVE  KeptInv'
<1>1. SUFFICES ASSUME NEW f \in DecodeFields, f \notin unsaid'
               PROVE  KeptText(f)'
    BY DEF KeptInv
<1>2. js' = js /\ tokens' = tokens
    BY PairTurn
<1>3. \A n : TextOf(tokens[n])' = TextOf(tokens[n])
    BY <1>2 DEF TextOf
<1>4. CASE ~Jsoneq(tokens[i], f)
    <2>1. tempValue'[f] = tempValue[f] /\ buffer'[f] = buffer[f] /\ f \notin unsaid
        BY <1>1, <1>4, PairTurn
    <2>2. KeptText(f)
        BY <2>1 DEF KeptInv
    <2>. QED
        BY <1>2, <1>3, <2>1, <2>2 DEF KeptText
<1>5. CASE Jsoneq(tokens[i], f)
    <2>1. \E n \in 1..Len(tokens) : buffer'[f] = Filled(TextOf(tokens[n])) /\ tempValue'[f] = buffer'[f]
        BY <1>1, <1>5, TextTaken
    <2>. QED
        BY <1>2, <1>3, <2>1 DEF KeptText, Filled
<1>. QED
    BY <1>4, <1>5

\* The tokens of a field in a flat message are its name and its value.
LEMMA FlatField ==
    ASSUME JsmnInv, StartInv, NEW m \in Nat, Flat, Len(js) = 4 * m + 1, FieldsClosed(m), NEW n \in 1..m
    PROVE  /\ Len(tokens) = 2 * m + 1 /\ NumFields = m
           /\ \A f : Jsoneq(tokens[2 * n], f) <=> n \in Named(f)
           /\ TextOf(tokens[2 * n + 1]) = ValueOf(n)
           /\ Plain(ValueOf(n))
<1>1. Len(tokens) = 2 * m + 1 /\ Fields(m, 1)
    BY DEF FieldsClosed, Fields, Count
<1>2. NumFields = m
    <2>1. (4 * m + 1) \div 4 = m
        OBVIOUS
    <2>. QED
        BY <2>1 DEF NumFields
<1>3. 2 * n \in 2..Len(tokens) /\ 2 * n + 1 \in 2..Len(tokens) /\ 2 * n + 1 \in 1..Len(tokens)
    BY <1>1
<1>4. 2 * (2 * n - 1) = 4 * n - 2 /\ 2 * ((2 * n + 1) - 1) = 4 * n
    OBVIOUS
<1>5. tokens[2 * n].type = js[4 * n - 2].kind /\ tokens[2 * n].start = 4 * n - 2
    <2>1. tokens[2 * n].type = js[2 * (2 * n - 1)].kind /\ tokens[2 * n].start = 2 * (2 * n - 1)
        BY <1>1, <1>3 DEF Fields
    <2>. QED
        BY <1>4, <2>1
<1>6. tokens[2 * n + 1].type \in Scalars /\ tokens[2 * n + 1].start = 4 * n
    <2>1. tokens[2 * n + 1].type \in Scalars /\ tokens[2 * n + 1].start = 2 * ((2 * n + 1) - 1)
        BY <1>1, <1>3 DEF Fields
    <2>. QED
        BY <1>4, <2>1
<1>7. js[4 * n - 2].kind = "string"
    <2>1. 4 * n - 2 \in 2..(Len(js) - 1)
        OBVIOUS
    <2>2. InPlace(js, 4 * n - 2)
        BY <2>1, FlatPlaces
    <2>. DEFINE l == n - 1
    <2>3. l \in Nat /\ 4 * n - 2 = 4 * l + 2
        OBVIOUS
    <2>. HIDE DEF l
    <2>. QED
        BY <2>2, <2>3, PlaceKinds
<1>8. TextOf(tokens[2 * n]) = js[4 * n - 2].text /\ tokens[2 * n].type = "string"
    BY <1>5, <1>7 DEF TextOf, Containers
<1>9. TextOf(tokens[2 * n + 1]) = ValueOf(n) /\ Plain(ValueOf(n))
    <2>1. TextOf(tokens[2 * n + 1]) = js[4 * n].text
        BY <1>3, <1>6, TokenText
    <2>2. Plain(TextOf(tokens[2 * n + 1]))
        BY <1>3, <1>6, TokenText
    <2>. QED
        BY <2>1, <2>2 DEF ValueOf
<1>10. \A f : Jsoneq(tokens[2 * n], f) <=> n \in Named(f)
    BY <1>2, <1>8 DEF Jsoneq, Named
<1>. QED
    BY <1>1, <1>2, <1>9, <1>10

LEMMA PairTaken ==
    ASSUME JsmnInv, FlatInv, StartInv, MemInv, KeptInv, PairInv, TakePair
    PROVE  PairInv'
<1>1. /\ result \in Nat /\ result = Len(tokens) /\ i \in 1..Len(tokens)
      /\ js' = js /\ tokens' = tokens /\ result' = result
      /\ pc = "pairs" /\ pc' = pc /\ i' = i + 2
    BY PairTurn
<1>2. /\ Flat' <=> Flat
      /\ \A f : Named(f)' = Named(f)
      /\ \A n : ValueOf(n)' = ValueOf(n)
    BY <1>1 DEF Flat, Named, NumFields, ValueOf
<1>3. SUFFICES ASSUME NEW m \in Nat, Flat, Len(js) = 4 * m + 1, 2 * m + 1 <= NUM_TOKENS
               PROVE  \E p \in 0..m : i' = 2 * p + 2 /\ Taken(p)'
    BY <1>1, <1>2 DEF PairInv
<1>4. FieldsClosed(m)
    BY <1>3 DEF FlatInv
<1>5. PICK p \in 0..m : i = 2 * p + 2 /\ Taken(p)
    BY <1>1, <1>3 DEF PairInv
<1>. DEFINE n == p + 1
<1>6. n \in 1..m /\ i = 2 * n /\ n \in 0..m /\ i' = 2 * n + 2 /\ i + 1 = 2 * n + 1
      /\ n \in 1..n /\ \A l \in 1..n : l = n \/ l \in 1..p
    <2>1. Len(tokens) = 2 * m + 1
        BY <1>4 DEF FieldsClosed, Fields, Count
    <2>. QED
        BY <1>1, <1>5, <2>1
<1>7. /\ \A f : Jsoneq(tokens[i], f) <=> n \in Named(f)
      /\ TextOf(tokens[i + 1]) = ValueOf(n)
      /\ Plain(ValueOf(n)) /\ i # result
    <2>1. /\ Len(tokens) = 2 * m + 1
          /\ \A f : Jsoneq(tokens[2 * n], f) <=> n \in Named(f)
          /\ TextOf(tokens[2 * n + 1]) = ValueOf(n)
          /\ Plain(ValueOf(n))
        BY <1>3, <1>4, <1>6, FlatField
    <2>2. i # result
        BY <1>1, <1>6, <2>1
    <2>. QED
        BY <1>6, <2>1, <2>2
<1>. HIDE DEF n
<1>8. ASSUME NEW f \in DecodeFields, NEW l \in 1..n, \A h \in 1..n : h \in Named(f) <=> h = l
      PROVE  /\ Len(ValueOf(l)) < BUF
             /\ \A k \in 1..BUF : k <= Len(ValueOf(l)) => buffer'[f][k] = ValueOf(l)[k]
             /\ f \notin unsaid' => buffer'[f] = Filled(ValueOf(l))
    <2>1. CASE l = n
        <3>1. Jsoneq(tokens[i], f)
            BY <1>6, <1>7, <1>8, <2>1
        <3>2. PICK v \in Values : InBounds(tempValue[f], v) /\ tempValue'[f] = Memcpy(tempValue[f], v)
                                  /\ buffer'[f] = Sprintf(buffer[f], tempValue'[f])
            BY <3>1, PairTurn
        <3>3. IsArray(tempValue[f]) /\ IsArray(buffer[f]) /\ i \in Nat /\ i <= result
            BY <1>1 DEF MemInv
        <3>4. v = ValueOf(n)
            BY <1>1, <1>7, <3>3, NextValue
        <3>5. \A k \in 1..BUF : k <= Len(v) => Sprintf(buffer[f], Memcpy(tempValue[f], v))[k] = v[k]
            BY <1>7, <3>3, <3>4, PrintPrefix
        <3>6. f \notin unsaid' => buffer'[f] = Filled(ValueOf(n))
            BY <1>7, <3>1, TextTaken
        <3>7. Len(ValueOf(n)) < BUF
            BY <1>7, <3>2, <3>3, <3>4, BoundsFit
        <3>. QED
            BY <2>1, <3>2, <3>4, <3>5, <3>6, <3>7
    <2>2. CASE l # n
        <3>1. l \in 1..p /\ \A h \in 1..p : h \in 1..n
            BY <1>6, <2>2 DEF n
        <3>2. ~Jsoneq(tokens[i], f)
            BY <1>6, <1>7, <1>8, <2>2
        <3>3. buffer'[f] = buffer[f] /\ (f \notin unsaid' => f \notin unsaid)
            BY <3>2, PairTurn
        <3>4. \A h \in 1..p : h \in Named(f) <=> h = l
            BY <1>8, <3>1
        <3>5. /\ Len(ValueOf(l)) < BUF
              /\ \A k \in 1..BUF : k <= Len(ValueOf(l)) => buffer[f][k] = ValueOf(l)[k]
              /\ f \notin unsaid => buffer[f] = Filled(ValueOf(l))
            BY <1>5, <3>1, <3>4 DEF Taken
        <3>. QED
            BY <3>3, <3>5
    <2>. QED
        BY <2>1, <2>2
<1>9. Taken(n)'
    BY <1>2, <1>8 DEF Taken, Filled
<1>. QED
    BY <1>6, <1>9

\* What was read stays as it was read.
LEMMA JsmnStays ==
    ASSUME FlatInv, StartInv, UNCHANGED jsmnVars
    PROVE  /\ FlatInv' /\ StartInv'
           /\ Flat' <=> Flat
           /\ \A f : Named(f)' = Named(f)
           /\ \A n : ValueOf(n)' = ValueOf(n)
           /\ \A n : TextOf(tokens[n])' = TextOf(tokens[n])
<1>1. tokens' = tokens /\ toksuper' = toksuper /\ js' = js /\ result' = result
    BY DEF jsmnVars
<1>2. OpenTokens' = OpenTokens /\ (Flat' <=> Flat) /\ (FlatSoFar' <=> FlatSoFar)
    BY <1>1 DEF OpenTokens, Flat, FlatSoFar, InPlace
<1>3. \A m, r : Fields(m, r)' <=> Fields(m, r)
    BY <1>1 DEF Fields
<1>4. \A m, r : FieldsOpen(m, r)' <=> FieldsOpen(m, r)
    BY <1>1, <1>2, <1>3 DEF FieldsOpen
<1>5. \A m : FieldsClosed(m)' <=> FieldsClosed(m)
    BY <1>1, <1>2, <1>3 DEF FieldsClosed
<1>6. FlatInv'
    BY <1>1, <1>2, <1>4, <1>5 DEF FlatInv
<1>7. StartInv'
    BY <1>1 DEF StartInv, StartsAt
<1>. QED
    BY <1>1, <1>2, <1>6, <1>7 DEF Named, NumFields, ValueOf, TextOf

LEMMA MemStays ==
    ASSUME KeptInv, UNCHANGED <<jsmnVars, i, tempValue, buffer, unsaid>>
    PROVE  /\ KeptInv'
           /\ \A f : IsArray(tempValue[f])' <=> IsArray(tempValue[f])
           /\ \A f : IsArray(buffer[f])' <=> IsArray(buffer[f])
           /\ \A p : Taken(p)' <=> Taken(p)
<1>1. /\ tokens' = tokens /\ js' = js /\ tempValue' = tempValue /\ buffer' = buffer
      /\ unsaid' = unsaid
    BY DEF jsmnVars
<1>2. /\ \A f : Named(f)' = Named(f)
      /\ \A n : ValueOf(n)' = ValueOf(n)
      /\ \A n : TextOf(tokens[n])' = TextOf(tokens[n])
    BY <1>1 DEF Named, NumFields, ValueOf, TextOf
<1>3. \A f : KeptText(f)' <=> KeptText(f)
    <2>1. \A f, n : (buffer[f] = Filled(TextOf(tokens[n])))' <=> buffer[f] = Filled(TextOf(tokens[n]))
        BY <1>1, <1>2 DEF Filled
    <2>2. \A f : (buffer[f] = Filled(<< >>))' <=> buffer[f] = Filled(<< >>)
        BY <1>1 DEF Filled
    <2>. QED
        BY <1>1, <2>1, <2>2 DEF KeptText
<1>4. KeptInv'
    BY <1>1, <1>3 DEF KeptInv
<1>5. /\ \A f : IsArray(tempValue[f])' <=> IsArray(tempValue[f])
      /\ \A f : IsArray(buffer[f])' <=> IsArray(buffer[f])
    BY <1>1 DEF IsArray
<1>6. \A f, n : (buffer[f] = Filled(ValueOf(n)))' <=> buffer[f] = Filled(ValueOf(n))
    BY <1>1, <1>2 DEF Filled
<1>7. \A p : Taken(p)' <=> Taken(p)
    BY <1>1, <1>2, <1>6 DEF Taken
<1>. QED
    BY <1>4, <1>5, <1>7

LEMMA NothingFlat ==
    ASSUME js = << >>
    PROVE  ~FlatSoFar /\ ~Flat
BY DEF FlatSoFar, Flat

LEMMA StartDecodes == DecodeInit => DecodeInv
<1>1. SUFFICES ASSUME DecodeInit PROVE DecodeInv
    OBVIOUS
<1>2. /\ JsmnInit /\ pc = "parse" /\ i = 2 /\ js = << >> /\ tokens = << >> /\ toksuper = 0
      /\ result = RUNNING /\ buffer = [f \in DecodeFields |-> Filled(<< >>)]
      /\ tempValue \in [DecodeFields -> Garbage]
    BY <1>1 DEF DecodeInit, JsmnInit
<1>3. ReadInv
    BY <1>2, StartSays DEF ReadInv
<1>4. ~FlatSoFar /\ ~Flat
    BY <1>2, NothingFlat
<1>5. FlatInv /\ PairInv
    BY <1>2, <1>4 DEF FlatInv, PairInv
<1>6. StartInv
    <2>1. Len(tokens) = 0 /\ result \notin Nat
        BY <1>2 DEF RUNNING
    <2>. QED
        BY <2>1 DEF StartInv
<1>7. MemInv
    <2>1. ASSUME NEW f \in DecodeFields PROVE IsArray(tempValue[f]) /\ buffer[f] = Filled(<< >>)
        <3>1. buffer[f] = Filled(<< >>)
            BY <1>2
        <3>2. IsArray(tempValue[f])
            BY <1>2, DecodeAssumption
        <3>. QED
            BY <3>1, <3>2
    <2>2. IsArray(Filled(<< >>))
        BY EmptyMem
    <2>3. \A f \in DecodeFields : IsArray(buffer[f])
        BY <2>1, <2>2
    <2>. QED
        BY <1>2, <2>1, <2>3 DEF MemInv
<1>8. KeptInv /\ CallInv
    BY <1>2, <1>7 DEF MemInv, KeptInv, KeptText, CallInv
<1>. QED
    BY <1>3, <1>5, <1>6, <1>7, <1>8 DEF DecodeInv

LEMMA DecodeKeeps ==
    ASSUME DecodeInv, [DecodeNext]_decodeVars
    PROVE  DecodeInv'
<1>0. /\ ReadInv /\ JsmnInv /\ FlatInv /\ StartInv /\ MemInv /\ KeptInv /\ PairInv /\ CallInv
      /\ ReadInv'
    BY ReadNext DEF DecodeInv, ReadInv
<1>1. CASE Parse
    <2>1. /\ pc = "parse" /\ pc' = pc /\ i' = i /\ tempValue' = tempValue /\ buffer' = buffer
          /\ EndOfMessage \/ \E x \in Lexemes : ParseLexeme(x)
        BY <1>1 DEF Parse
    <2>2. FlatInv' /\ StartInv'
        BY <1>0, <2>1, FlatLexeme, FlatEnd, StartLexeme, StartEnd
    <2>3. MemInv'
        BY <1>0, <2>1 DEF MemInv, IsArray, Filled
    <2>4. KeptInv' /\ PairInv' /\ CallInv'
        <3>1. \A f \in DecodeFields : buffer'[f] = Filled(<< >>)
            BY <1>0, <2>1 DEF MemInv
        <3>2. KeptInv'
            BY <3>1 DEF KeptInv, KeptText, Filled
        <3>. QED
            BY <2>1, <3>2 DEF PairInv, CallInv
    <2>. QED
        BY <1>0, <2>2, <2>3, <2>4 DEF DecodeInv
<1>2. CASE TakeTokens
    <2>1. /\ UNCHANGED jsmnVars /\ UNCHANGED <<jsmnVars, i, tempValue, buffer, unsaid>>
          /\ pc = "parse" /\ result # RUNNING /\ pc' \in {"callback", "pairs"}
          /\ ~(result < 1 \/ (result >= 1 /\ tokens[1].type # "object")) => pc' = "pairs"
        BY <1>2 DEF TakeTokens
    <2>2. /\ FlatInv' /\ StartInv' /\ (Flat' <=> Flat) /\ js' = js
        BY <1>0, <2>1, JsmnStays DEF jsmnVars
    <2>3. KeptInv' /\ \A f : (IsArray(tempValue[f])' <=> IsArray(tempValue[f])) /\ (IsArray(buffer[f])' <=> IsArray(buffer[f]))
        BY <1>0, <2>1, MemStays
    <2>4. MemInv'
        BY <1>0, <2>1, <2>3 DEF MemInv
    <2>5. PairInv'
        <3>1. SUFFICES ASSUME NEW m \in Nat, Flat, Len(js) = 4 * m + 1, 2 * m + 1 <= NUM_TOKENS
                       PROVE  pc' = "pairs" /\ \E p \in 0..m : i' = 2 * p + 2 /\ Taken(p)'
            BY <2>1, <2>2 DEF PairInv
        <3>2. FieldsClosed(m)
            BY <1>0, <3>1 DEF FlatInv
        <3>3. result = 2 * m + 1 /\ tokens[1].type = "object"
            BY <2>1, <3>2 DEF FieldsClosed, Fields
        <3>4. pc' = "pairs"
            BY <2>1, <3>3
        <3>5. Taken(0)'
            BY DEF Taken
        <3>6. i' = 2 * 0 + 2 /\ 0 \in 0..m
            BY <1>0, <2>1 DEF MemInv
        <3>. QED
            BY <3>4, <3>5, <3>6
    <2>6. CallInv'
        BY <2>1 DEF CallInv
    <2>. QED
        BY <1>0, <2>2, <2>3, <2>4, <2>5, <2>6 DEF DecodeInv
<1>3. CASE TakePair
    <2>1. MemInv' /\ KeptInv' /\ PairInv'
        BY <1>0, <1>3, PairMem, PairKept, PairTaken
    <2>2. UNCHANGED jsmnVars /\ pc' = "pairs"
        BY <1>0, <1>3, PairTurn DEF jsmnVars
    <2>3. FlatInv' /\ StartInv' /\ CallInv'
        BY <1>0, <2>2, JsmnStays DEF CallInv
    <2>. QED
        BY <1>0, <2>1, <2>3 DEF DecodeInv
<1>4. CASE NoPairLeft
    <2>1. /\ UNCHANGED jsmnVars /\ UNCHANGED <<jsmnVars, i, tempValue, buffer, unsaid>>
          /\ pc = "pairs" /\ i > result /\ pc' = "callback"
        BY <1>4 DEF NoPairLeft
    <2>2. /\ FlatInv' /\ StartInv' /\ (Flat' <=> Flat) /\ js' = js
        BY <1>0, <2>1, JsmnStays DEF jsmnVars
    <2>3. /\ KeptInv' /\ \A f : (IsArray(tempValue[f])' <=> IsArray(tempValue[f])) /\ (IsArray(buffer[f])' <=> IsArray(buffer[f]))
          /\ \A p : Taken(p)' <=> Taken(p)
        BY <1>0, <2>1, MemStays
    <2>4. MemInv'
        BY <1>0, <2>1, <2>3 DEF MemInv
    <2>5. PairInv'
        <3>1. SUFFICES ASSUME NEW m \in Nat, Flat, Len(js) = 4 * m + 1, 2 * m + 1 <= NUM_TOKENS
                       PROVE  Taken(m)
            BY <2>1, <2>2, <2>3 DEF PairInv
        <3>2. FieldsClosed(m)
            BY <1>0, <3>1 DEF FlatInv
        <3>3. result = 2 * m + 1
            BY <1>0, <2>1, <3>2 DEF FieldsClosed, Fields, ReadInv
        <3>4. PICK p \in 0..m : i = 2 * p + 2 /\ Taken(p)
            BY <1>0, <2>1, <3>1 DEF PairInv
        <3>5. p = m
            BY <2>1, <3>3, <3>4
        <3>. QED
            BY <3>4, <3>5
    <2>6. CallInv'
        BY <2>1 DEF CallInv
    <2>. QED
        BY <1>0, <2>2, <2>3, <2>4, <2>5, <2>6 DEF DecodeInv
<1>5. CASE Callback
    <2>1. /\ UNCHANGED jsmnVars /\ UNCHANGED <<jsmnVars, i, tempValue, buffer, unsaid>>
          /\ pc = "callback" /\ pc' = "done" /\ buffer' = buffer
          /\ outcome' = [word6 |-> CloudWord(Atoi(buffer["MSGID"]), 4),
                         word3 |-> {Word3(c, buffer["Body"]) : c \in KnownIn(buffer["Body"])}]
        BY <1>5 DEF Callback, KnownIn
    <2>2. /\ FlatInv' /\ StartInv' /\ (Flat' <=> Flat) /\ js' = js
        BY <1>0, <2>1, JsmnStays DEF jsmnVars
    <2>3. /\ KeptInv' /\ \A f : (IsArray(tempValue[f])' <=> IsArray(tempValue[f])) /\ (IsArray(buffer[f])' <=> IsArray(buffer[f]))
          /\ \A p : Taken(p)' <=> Taken(p)
        BY <1>0, <2>1, MemStays
    <2>4. MemInv'
        BY <1>0, <2>1, <2>3 DEF MemInv
    <2>5. PairInv'
        BY <1>0, <2>1, <2>2, <2>3 DEF PairInv
    <2>6. CallInv'
        BY <2>1 DEF CallInv
    <2>. QED
        BY <1>0, <2>2, <2>3, <2>4, <2>5, <2>6 DEF DecodeInv
<1>6. CASE NextMessage
    <2>1. /\ JsmnReset /\ pc' = "parse" /\ i' = 2 /\ js' = << >> /\ tokens' = << >> /\ toksuper' = 0
          /\ result' = RUNNING /\ buffer' = [f \in DecodeFields |-> Filled(<< >>)]
          /\ tempValue' \in [DecodeFields -> Garbage] \cup {tempValue}
        BY <1>6 DEF NextMessage, JsmnReset
    <2>2. ~FlatSoFar' /\ ~Flat'
        BY <2>1 DEF FlatSoFar, Flat
    <2>3. FlatInv' /\ PairInv'
        BY <2>1, <2>2 DEF FlatInv, PairInv
    <2>4. StartInv'
        <3>1. Len(tokens') = 0 /\ result' \notin Nat
            BY <2>1 DEF RUNNING
        <3>. QED
            BY <3>1 DEF StartInv
    <2>5. ASSUME NEW f \in DecodeFields
          PROVE  IsArray(tempValue'[f]) /\ IsArray(buffer'[f]) /\ buffer'[f] = Filled(<< >>)
        <3>1. buffer'[f] = Filled(<< >>) /\ IsArray(Filled(<< >>))
            BY <2>1, EmptyMem
        <3>2. CASE tempValue' = tempValue
            BY <1>0, <3>1, <3>2 DEF MemInv
        <3>3. CASE tempValue' \in [DecodeFields -> Garbage]
            <4>1. IsArray(tempValue'[f])
                BY <3>3, DecodeAssumption
            <4>. QED
                BY <3>1, <4>1
        <3>. QED
            BY <2>1, <3>2, <3>3
    <2>6. \A f : (IsArray(tempValue[f])' <=> IsArray(tempValue'[f])) /\ (IsArray(buffer[f])' <=> IsArray(buffer'[f]))
        BY DEF IsArray
    <2>7. MemInv'
        BY <2>1, <2>5, <2>6 DEF MemInv, Filled
    <2>8. KeptInv' /\ CallInv'
        BY <2>1, <2>5 DEF KeptInv, KeptText, CallInv, Filled
    <2>. QED
        BY <1>0, <2>3, <2>4, <2>7, <2>8 DEF DecodeInv
<1>8. CASE RunPast
    <2>1. /\ UNCHANGED jsmnVars /\ UNCHANGED <<jsmnVars, i, tempValue, buffer, unsaid>>
          /\ pc' = "undefined"
        BY <1>8 DEF RunPast
    <2>2. FlatInv' /\ StartInv'
        BY <1>0, <2>1, JsmnStays
    <2>3. KeptInv' /\ \A f : (IsArray(tempValue[f])' <=> IsArray(tempValue[f])) /\ (IsArray(buffer[f])' <=> IsArray(buffer[f]))
        BY <1>0, <2>1, MemStays
    <2>4. MemInv'
        BY <1>0, <2>1, <2>3 DEF MemInv
    <2>5. PairInv' /\ CallInv'
        BY <2>1 DEF PairInv, CallInv
    <2>. QED
        BY <1>0, <2>2, <2>3, <2>4, <2>5 DEF DecodeInv
<1>7. CASE UNCHANGED decodeVars
    <2>1. /\ UNCHANGED jsmnVars /\ UNCHANGED <<jsmnVars, i, tempValue, buffer, unsaid>>
          /\ pc' = pc /\ outcome' = outcome /\ buffer' = buffer
        BY <1>7 DEF decodeVars
    <2>2. /\ FlatInv' /\ StartInv' /\ (Flat' <=> Flat) /\ js' = js
        BY <1>0, <2>1, JsmnStays DEF jsmnVars
    <2>3. /\ KeptInv' /\ \A f : (IsArray(tempValue[f])' <=> IsArray(tempValue[f])) /\ (IsArray(buffer[f])' <=> IsArray(buffer[f]))
          /\ \A p : Taken(p)' <=> Taken(p)
        BY <1>0, <2>1, MemStays
    <2>4. MemInv'
        BY <1>0, <2>1, <2>3 DEF MemInv, Filled
    <2>5. PairInv'
        BY <1>0, <2>1, <2>2, <2>3 DEF PairInv
    <2>6. CallInv'
        BY <1>0, <2>1 DEF CallInv
    <2>. QED
        BY <1>0, <2>2, <2>3, <2>4, <2>5, <2>6 DEF DecodeInv
<1>. QED
    BY <1>1, <1>2, <1>3, <1>4, <1>5, <1>6, <1>7, <1>8 DEF DecodeNext

LEMMA DecodeHolds == DecodeSpec => []DecodeInv
<1>. QED
    BY StartDecodes, DecodeKeeps, PTL DEF DecodeSpec

-----------------------------------------------------------------------------
(***************************************************************************)
(* Commands and numbers.                                                   *)
(***************************************************************************)
LEMMA MemSeq ==
    ASSUME NEW a, IsArray(a)
    PROVE  a \in Seq({a[k] : k \in 1..BUF}) /\ Len(a) = BUF
<1>. DEFINE S == {a[k] : k \in 1..BUF}
<1>1. BUF \in Nat /\ \A k \in 1..BUF : a[k] \in S
    BY DecodeAssumption
<1>2. [k \in 1..BUF |-> a[k]] \in [1..BUF -> S]
    BY <1>1
<1>3. a \in [1..BUF -> S]
    BY <1>2 DEF IsArray
<1>. HIDE DEF S
<1>4. a \in Seq(S) /\ Len(a) = BUF
    BY <1>1, <1>3
<1>. QED
    BY <1>4 DEF S

LEMMA TextSeq ==
    ASSUME NEW v, IsText(v)
    PROVE  /\ v \in Seq({v[k] : k \in 1..Len(v)}) /\ Len(v) \in Nat
           /\ DOMAIN v = 1..Len(v) /\ \A k \in 1..Len(v) : v[k] # NUL
<1>. DEFINE S == {v[k] : k \in DOMAIN v} \ {NUL}
            T == {v[k] : k \in 1..Len(v)}
<1>1. Plain(v) /\ v \in Seq(S)
    BY TextPlain DEF IsText
<1>2. DOMAIN v = 1..Len(v) /\ Len(v) \in Nat
    BY <1>1 DEF Plain
<1>3. \A k \in 1..Len(v) : v[k] \in T
    OBVIOUS
<1>. HIDE DEF S, T
<1>4. v \in [1..Len(v) -> S]
    BY <1>1
<1>5. v \in [1..Len(v) -> T]
    BY <1>3, <1>4
<1>6. v \in Seq(T)
    BY <1>2, <1>5
<1>. QED
    BY <1>1, <1>2, <1>6 DEF Plain, T

LEMMA FitsSeq ==
    ASSUME NEW v, Fits(v)
    PROVE  /\ v \in Seq({v[k] : k \in 1..Len(v)}) /\ Len(v) \in Nat /\ Len(v) < BUF
           /\ DOMAIN v = 1..Len(v) /\ \A k \in 1..Len(v) : v[k] # NUL
<1>. QED
    BY TextSeq DEF Fits

\* A part of a text.
LEMMA PartOf ==
    ASSUME NEW S, NEW v \in Seq(S), NEW a \in Nat \ {0}, NEW n \in Nat, a + n <= Len(v) + 1
    PROVE  SubSeq(v, a, a + n - 1) = [k \in 1..n |-> v[a + k - 1]]
<1>1. a \in 1..(Len(v) + 1) /\ a + n - 1 \in (a - 1)..Len(v) /\ Len(v) \in Nat
    BY LenProperties
<1>2. /\ Len(SubSeq(v, a, a + n - 1)) = a + n - 1 - a + 1
      /\ SubSeq(v, a, a + n - 1) \in Seq(S)
      /\ \A k \in 1..(a + n - 1 - a + 1) : SubSeq(v, a, a + n - 1)[k] = v[a + k - 1]
    <2>. DEFINE b == a + n - 1
    <2>1. a \in 1..(Len(v) + 1) /\ b \in (a - 1)..Len(v)
        BY <1>1
    <2>. HIDE DEF b
    <2>2. /\ Len(SubSeq(v, a, b)) = b - a + 1 /\ SubSeq(v, a, b) \in Seq(S)
          /\ \A k \in 1..(b - a + 1) : SubSeq(v, a, b)[k] = v[a + k - 1]
        BY <2>1, SubSeqProperties
    <2>. QED
        BY <2>2 DEF b
<1>3. a + n - 1 - a + 1 = n
    OBVIOUS
<1>. DEFINE p == SubSeq(v, a, a + n - 1)
<1>. HIDE DEF p
<1>4. p \in Seq(S) /\ Len(p) = n /\ \A k \in 1..n : p[k] = v[a + k - 1]
    BY <1>2, <1>3 DEF p
<1>5. p = [k \in 1..n |-> p[k]]
    BY <1>4
<1>6. p = [k \in 1..n |-> v[a + k - 1]]
    BY <1>4, <1>5
<1>. QED
    BY <1>6 DEF p

\* The commands by their types.
Spelling(c) ==
    \/ c.type = 0 /\ c.prefix = <<"i", "n", "i", "t">>
    \/ c.type = 1 /\ c.prefix = <<"s", "p", "i", "1">>
    \/ c.type = 2 /\ c.prefix = <<"s", "p", "i", "2">>
    \/ c.type = 3 /\ c.prefix = <<"s", "p", "i", "3">>
    \/ c.type = 4 /\ c.prefix = <<"g", "o", " ", "f">>
    \/ c.type = 5 /\ c.prefix = <<"s", "t", "o", "p">>
    \/ c.type = 6 /\ c.prefix = <<"g", "o", " ", "b">>
    \/ c.type = 7 /\ c.prefix = <<"s", "p", "i", "n", "l">>
    \/ c.type = 8 /\ c.prefix = <<"s", "p", "i", "n", "r">>
    \/ c.type = 9 /\ c.prefix = <<"e", "r", "r", "o", "r">>
    \/ c.type = 10 /\ \E a \in {"0", "1", "2"} : c.prefix = <<a>>

LEMMA Spellings ==
    ASSUME NEW c \in Commands
    PROVE  Spelling(c) /\ c = [prefix |-> c.prefix, type |-> c.type]
<1>1. PICK p, t : /\ c = [prefix |-> p, type |-> t]
                  /\ \/ p = <<"i", "n", "i", "t">> /\ t = 0
                     \/ p = <<"s", "p", "i", "1">> /\ t = 1
                     \/ p = <<"s", "p", "i", "2">> /\ t = 2
                     \/ p = <<"s", "p", "i", "3">> /\ t = 3
                     \/ p = <<"g", "o", " ", "f">> /\ t = 4
                     \/ p = <<"g", "o", " ", "b">> /\ t = 6
                     \/ p = <<"s", "t", "o", "p">> /\ t = 5
                     \/ p = <<"s", "p", "i", "n", "l">> /\ t = 7
                     \/ p = <<"s", "p", "i", "n", "r">> /\ t = 8
                     \/ p = <<"e", "r", "r", "o", "r">> /\ t = 9
                     \/ t = 10 /\ \E a \in {"0", "1", "2"} : p = <<a>>
    BY Zenon DEF Commands
<1>2. c.prefix = p /\ c.type = t
    BY <1>1
<1>. QED
    BY <1>1, <1>2, Zenon DEF Spelling

\* What there is to know of a prefix: its signs one by one, all of them of that list.
Letters == {"i", "n", "t", "s", "p", "1", "2", "3", "g", "o", " ", "f", "b", "l", "r", "e", "0"}

Spelt(p, n) ==
    p = [k \in 1..n |-> p[k]] /\ Len(p) = n /\ \A k \in 1..n : p[k] \in Letters

\* The letters that tell the commands apart.
Marked(p, t) ==
    \/ t = 0 /\ Spelt(p, 4) /\ p[1] = "i"
    \/ t = 1 /\ Spelt(p, 4) /\ p[1] = "s" /\ p[2] = "p" /\ p[4] = "1"
    \/ t = 2 /\ Spelt(p, 4) /\ p[1] = "s" /\ p[2] = "p" /\ p[4] = "2"
    \/ t = 3 /\ Spelt(p, 4) /\ p[1] = "s" /\ p[2] = "p" /\ p[4] = "3"
    \/ t = 4 /\ Spelt(p, 4) /\ p[1] = "g" /\ p[4] = "f"
    \/ t = 5 /\ Spelt(p, 4) /\ p[1] = "s" /\ p[2] = "t"
    \/ t = 6 /\ Spelt(p, 4) /\ p[1] = "g" /\ p[4] = "b"
    \/ t = 7 /\ Spelt(p, 5) /\ p[1] = "s" /\ p[2] = "p" /\ p[4] = "n" /\ p[5] = "l"
    \/ t = 8 /\ Spelt(p, 5) /\ p[1] = "s" /\ p[2] = "p" /\ p[4] = "n" /\ p[5] = "r"
    \/ t = 9 /\ Spelt(p, 5) /\ p[1] = "e"
    \/ t = 10 /\ Spelt(p, 1) /\ p[1] \in {"0", "1", "2"}

LEMMA LettersSpelt ==
    /\ \A a \in Letters : Spelt(<<a>>, 1) /\ <<a>>[1] = a
    /\ \A a, b, c, d \in Letters :
          /\ Spelt(<<a, b, c, d>>, 4) /\ <<a, b, c, d>>[1] = a /\ <<a, b, c, d>>[2] = b
          /\ <<a, b, c, d>>[4] = d
    /\ \A a, b, c, d, e \in Letters :
          /\ Spelt(<<a, b, c, d, e>>, 5) /\ <<a, b, c, d, e>>[1] = a /\ <<a, b, c, d, e>>[2] = b
          /\ <<a, b, c, d, e>>[4] = d /\ <<a, b, c, d, e>>[5] = e
<1>1. ASSUME NEW a \in Letters PROVE Spelt(<<a>>, 1) /\ <<a>>[1] = a
    BY DEF Spelt
<1>2. ASSUME NEW a \in Letters, NEW b \in Letters, NEW c \in Letters, NEW d \in Letters
      PROVE  /\ Spelt(<<a, b, c, d>>, 4) /\ <<a, b, c, d>>[1] = a /\ <<a, b, c, d>>[2] = b
             /\ <<a, b, c, d>>[4] = d
    BY DEF Spelt
<1>3. ASSUME NEW a \in Letters, NEW b \in Letters, NEW c \in Letters, NEW d \in Letters, NEW e \in Letters
      PROVE  /\ Spelt(<<a, b, c, d, e>>, 5) /\ <<a, b, c, d, e>>[1] = a /\ <<a, b, c, d, e>>[2] = b
             /\ <<a, b, c, d, e>>[4] = d /\ <<a, b, c, d, e>>[5] = e
    BY DEF Spelt
<1>. QED
    BY <1>1, <1>2, <1>3, Zenon

LEMMA Marks == ASSUME NEW c \in Commands PROVE Marked(c.prefix, c.type)
<1>. DEFINE p == c.prefix
            t == c.type
<1>0. Spelling(c)
    BY Spellings
<1>. SUFFICES Marked(p, t)
    OBVIOUS
<1>. HIDE DEF p, t
<1>12. /\ "i" \in Letters /\ "n" \in Letters /\ "t" \in Letters /\ "s" \in Letters
      /\ "p" \in Letters /\ "1" \in Letters /\ "2" \in Letters /\ "3" \in Letters
      /\ "g" \in Letters /\ "o" \in Letters /\ " " \in Letters /\ "f" \in Letters
      /\ "b" \in Letters /\ "l" \in Letters /\ "r" \in Letters /\ "e" \in Letters
      /\ \A a \in {"0", "1", "2"} : a \in Letters
    BY DEF Letters
<1>1. CASE t = 0 /\ p = <<"i", "n", "i", "t">>
    <2>1. Spelt(p, 4) /\ p[1] = "i"
        BY <1>12, <1>1, LettersSpelt
    <2>. QED
        BY <1>1, <2>1 DEF Marked
<1>2. CASE t = 1 /\ p = <<"s", "p", "i", "1">>
    <2>1. Spelt(p, 4) /\ p[1] = "s" /\ p[2] = "p" /\ p[4] = "1"
        BY <1>12, <1>2, LettersSpelt
    <2>. QED
        BY <1>2, <2>1 DEF Marked
<1>3. CASE t = 2 /\ p = <<"s", "p", "i", "2">>
    <2>1. Spelt(p, 4) /\ p[1] = "s" /\ p[2] = "p" /\ p[4] = "2"
        BY <1>12, <1>3, LettersSpelt
    <2>. QED
        BY <1>3, <2>1 DEF Marked
<1>4. CASE t = 3 /\ p = <<"s", "p", "i", "3">>
    <2>1. Spelt(p, 4) /\ p[1] = "s" /\ p[2] = "p" /\ p[4] = "3"
        BY <1>12, <1>4, LettersSpelt
    <2>. QED
        BY <1>4, <2>1 DEF Marked
<1>5. CASE t = 4 /\ p = <<"g", "o", " ", "f">>
    <2>1. Spelt(p, 4) /\ p[1] = "g" /\ p[4] = "f"
        BY <1>12, <1>5, LettersSpelt
    <2>. QED
        BY <1>5, <2>1 DEF Marked
<1>6. CASE t = 5 /\ p = <<"s", "t", "o", "p">>
    <2>1. Spelt(p, 4) /\ p[1] = "s" /\ p[2] = "t"
        BY <1>12, <1>6, LettersSpelt
    <2>. QED
        BY <1>6, <2>1 DEF Marked
<1>7. CASE t = 6 /\ p = <<"g", "o", " ", "b">>
    <2>1. Spelt(p, 4) /\ p[1] = "g" /\ p[4] = "b"
        BY <1>12, <1>7, LettersSpelt
    <2>. QED
        BY <1>7, <2>1 DEF Marked
<1>8. CASE t = 7 /\ p = <<"s", "p", "i", "n", "l">>
    <2>1. Spelt(p, 5) /\ p[1] = "s" /\ p[2] = "p" /\ p[4] = "n" /\ p[5] = "l"
        BY <1>12, <1>8, LettersSpelt
    <2>. QED
        BY <1>8, <2>1 DEF Marked
<1>9. CASE t = 8 /\ p = <<"s", "p", "i", "n", "r">>
    <2>1. Spelt(p, 5) /\ p[1] = "s" /\ p[2] = "p" /\ p[4] = "n" /\ p[5] = "r"
        BY <1>12, <1>9, LettersSpelt
    <2>. QED
        BY <1>9, <2>1 DEF Marked
<1>10. CASE t = 9 /\ p = <<"e", "r", "r", "o", "r">>
    <2>1. Spelt(p, 5) /\ p[1] = "e"
        BY <1>12, <1>10, LettersSpelt
    <2>. QED
        BY <1>10, <2>1 DEF Marked
<1>11. CASE t = 10 /\ \E a \in {"0", "1", "2"} : p = <<a>>
    <2>1. PICK a \in {"0", "1", "2"} : p = <<a>>
        BY <1>11
    <2>2. a \in Letters
        BY <1>12
    <2>3. Spelt(<<a>>, 1) /\ <<a>>[1] = a
        BY <2>2, LettersSpelt
    <2>4. Spelt(p, 1) /\ p[1] \in {"0", "1", "2"}
        BY <2>1, <2>3
    <2>. QED
        BY <1>11, <2>4 DEF Marked
<1>. QED
    BY <1>0, <1>1, <1>2, <1>3, <1>4, <1>5, <1>6, <1>7, <1>8, <1>9, <1>10, <1>11, Zenon DEF Spelling, p, t

LEMMA CommandSpelt ==
    ASSUME NEW c \in Commands
    PROVE  /\ c.type \in 0..10 /\ Len(c.prefix) \in 1..5
           /\ Spelt(c.prefix, Len(c.prefix))
<1>1. Marked(c.prefix, c.type)
    BY Marks
<1>2. c.type \in 0..10
    BY <1>1 DEF Marked
<1>3. Spelt(c.prefix, 1) \/ Spelt(c.prefix, 4) \/ Spelt(c.prefix, 5)
    BY <1>1, Zenon DEF Marked
<1>4. ASSUME NEW n \in 1..5, Spelt(c.prefix, n)
      PROVE  Len(c.prefix) \in 1..5 /\ Spelt(c.prefix, Len(c.prefix))
    <2>1. Len(c.prefix) = n
        BY <1>4 DEF Spelt
    <2>. QED
        BY <1>4, <2>1
<1>. QED
    BY <1>2, <1>3, <1>4

LEMMA OnePerType ==
    ASSUME NEW c, NEW d, Spelling(c), Spelling(d), c.type = d.type, c.type # 10
    PROVE  c.prefix = d.prefix
<1>. DEFINE T0 == <<"i", "n", "i", "t">>
            T1 == <<"s", "p", "i", "1">>
            T2 == <<"s", "p", "i", "2">>
            T3 == <<"s", "p", "i", "3">>
            T4 == <<"g", "o", " ", "f">>
            T5 == <<"s", "t", "o", "p">>
            T6 == <<"g", "o", " ", "b">>
            T7 == <<"s", "p", "i", "n", "l">>
            T8 == <<"s", "p", "i", "n", "r">>
            T9 == <<"e", "r", "r", "o", "r">>
<1>1. \/ c.type = 0 /\ c.prefix = T0
      \/ c.type = 1 /\ c.prefix = T1
      \/ c.type = 2 /\ c.prefix = T2
      \/ c.type = 3 /\ c.prefix = T3
      \/ c.type = 4 /\ c.prefix = T4
      \/ c.type = 5 /\ c.prefix = T5
      \/ c.type = 6 /\ c.prefix = T6
      \/ c.type = 7 /\ c.prefix = T7
      \/ c.type = 8 /\ c.prefix = T8
      \/ c.type = 9 /\ c.prefix = T9
    BY Zenon DEF Spelling
<1>2. \/ d.type = 0 /\ d.prefix = T0
      \/ d.type = 1 /\ d.prefix = T1
      \/ d.type = 2 /\ d.prefix = T2
      \/ d.type = 3 /\ d.prefix = T3
      \/ d.type = 4 /\ d.prefix = T4
      \/ d.type = 5 /\ d.prefix = T5
      \/ d.type = 6 /\ d.prefix = T6
      \/ d.type = 7 /\ d.prefix = T7
      \/ d.type = 8 /\ d.prefix = T8
      \/ d.type = 9 /\ d.prefix = T9
    BY Zenon DEF Spelling
<1>. HIDE DEF T0, T1, T2, T3, T4, T5, T6, T7, T8, T9
<1>. QED
    BY <1>1, <1>2

\* No text starts with two commands.
LEMMA OneCommand ==
    \A s : \A c, d \in Commands :
        /\ \A k \in 1..Len(c.prefix) : s[k] = c.prefix[k]
        /\ \A k \in 1..Len(d.prefix) : s[k] = d.prefix[k]
        => c = d
<1>. SUFFICES ASSUME NEW s, NEW c \in Commands, NEW d \in Commands,
                     \A k \in 1..Len(c.prefix) : s[k] = c.prefix[k],
                     \A k \in 1..Len(d.prefix) : s[k] = d.prefix[k]
              PROVE  c = d
    OBVIOUS
<1>1. /\ Spelling(c) /\ c = [prefix |-> c.prefix, type |-> c.type]
      /\ Spelling(d) /\ d = [prefix |-> d.prefix, type |-> d.type]
      /\ Marked(c.prefix, c.type) /\ Marked(d.prefix, d.type)
    BY Spellings, Marks
<1>. DEFINE p == c.prefix
            q == d.prefix
            t == c.type
            u == d.type
<1>2. \/ Len(p) = 1 /\ s[1] = p[1]
      \/ Len(p) = 4 /\ s[1] = p[1] /\ s[2] = p[2] /\ s[4] = p[4]
      \/ Len(p) = 5 /\ s[1] = p[1] /\ s[2] = p[2] /\ s[4] = p[4] /\ s[5] = p[5]
    <2>1. Spelt(p, 1) \/ Spelt(p, 4) \/ Spelt(p, 5)
        BY <1>1, Zenon DEF Marked
    <2>2. Len(p) = 1 \/ Len(p) = 4 \/ Len(p) = 5
        BY <2>1 DEF Spelt
    <2>3. \A k \in 1..Len(p) : s[k] = p[k]
        OBVIOUS
    <2>. HIDE DEF p
    <2>. QED
        BY <2>2, <2>3
<1>3. \/ Len(q) = 1 /\ s[1] = q[1]
      \/ Len(q) = 4 /\ s[1] = q[1] /\ s[2] = q[2] /\ s[4] = q[4]
      \/ Len(q) = 5 /\ s[1] = q[1] /\ s[2] = q[2] /\ s[4] = q[4] /\ s[5] = q[5]
    <2>1. Spelt(q, 1) \/ Spelt(q, 4) \/ Spelt(q, 5)
        BY <1>1, Zenon DEF Marked
    <2>2. Len(q) = 1 \/ Len(q) = 4 \/ Len(q) = 5
        BY <2>1 DEF Spelt
    <2>3. \A k \in 1..Len(q) : s[k] = q[k]
        OBVIOUS
    <2>. HIDE DEF q
    <2>. QED
        BY <2>2, <2>3
<1>4. t = u
    BY <1>1, <1>2, <1>3 DEF Marked, Spelt
<1>5. t = 10 => p = <<s[1]>> /\ q = <<s[1]>>
    <2>1. t = 10 => /\ \E a : p = <<a>>
                    /\ \E a : q = <<a>>
        BY <1>1, <1>4 DEF Spelling
    <2>2. \A a : <<a>>[1] = a
        OBVIOUS
    <2>3. s[1] = p[1] /\ s[1] = q[1]
        BY <1>2, <1>3
    <2>. QED
        BY <2>1, <2>2, <2>3, Zenon
<1>6. t # 10 => p = q
    BY <1>1, <1>4, OnePerType
<1>. QED
    BY <1>1, <1>4, <1>5, <1>6, Zenon

LEMMA StartsAs ==
    ASSUME NEW S, NEW v \in Seq(S), NEW c \in Commands
    PROVE  StartsWith(v, c.prefix) <=>
             Len(c.prefix) <= Len(v) /\ \A k \in 1..Len(c.prefix) : v[k] = c.prefix[k]
<1>. DEFINE p == c.prefix
            n == Len(p)
<1>1. n \in 1..5 /\ p = [k \in 1..n |-> p[k]]
    BY CommandSpelt DEF Spelt
<1>. HIDE DEF p
<1>2. n \in Nat
    BY <1>1
<1>. HIDE DEF n
<1>3. CASE n <= Len(v)
    <2>1. SubSeq(v, 1, 1 + n - 1) = [k \in 1..n |-> v[1 + k - 1]]
        <3>1. Len(v) \in Nat /\ 1 \in Nat \ {0} /\ 1 + n <= Len(v) + 1
            BY <1>2, <1>3, LenProperties
        <3>. QED
            BY <1>2, <3>1, PartOf
    <2>2. 1 + n - 1 = n /\ \A k \in 1..n : 1 + k - 1 = k
        BY <1>2
    <2>3. SubSeq(v, 1, n) = [k \in 1..n |-> v[k]]
        BY <2>1, <2>2
    <2>4. SubSeq(v, 1, n) = p <=> \A k \in 1..n : v[k] = p[k]
        <3>. DEFINE q == [k \in 1..n |-> v[k]]
        <3>1. q = p <=> \A k \in 1..n : q[k] = p[k]
            BY <1>1
        <3>. QED
            BY <2>3, <3>1
    <2>. QED
        BY <1>3, <2>4 DEF StartsWith, p, n
<1>. QED
    BY <1>3 DEF StartsWith, p, n

\* A text that starts as another one does.
LEMMA SameStart ==
    ASSUME NEW S, NEW v \in Seq(S), NEW T, NEW w \in Seq(T), Len(v) <= Len(w),
           \A k \in 1..Len(v) : w[k] = v[k], NEW c \in Commands, StartsWith(v, c.prefix)
    PROVE  StartsWith(w, c.prefix)
<1>. DEFINE n == Len(c.prefix)
            L == Len(v)
            K == Len(w)
<1>1. n \in 1..5 /\ L \in Nat /\ K \in Nat
    BY CommandSpelt, LenProperties
<1>2. n <= L /\ \A k \in 1..n : v[k] = c.prefix[k]
    BY StartsAs
<1>3. \A k \in 1..n : k \in 1..L
    <2>. HIDE DEF n, L
    <2>. QED
        BY <1>1, <1>2
<1>4. \A k \in 1..n : w[k] = c.prefix[k]
    BY <1>2, <1>3
<1>5. n <= K
    <2>1. L <= K
        OBVIOUS
    <2>. HIDE DEF n, L, K
    <2>. QED
        BY <1>1, <1>2, <2>1
<1>. QED
    BY <1>4, <1>5, StartsAs

LEMMA NoLetter == NUL \notin Letters /\ "{" \notin Letters /\ "[" \notin Letters
BY DEF Letters, NUL

LEMMA FlatRead ==
    ASSUME DecodeInv, Understood
    PROVE  LET m == NumFields
           IN  /\ m \in Nat /\ Len(js) = 4 * m + 1 /\ 2 * m + 1 <= NUM_TOKENS /\ Flat
               /\ FieldsClosed(m) /\ result = 2 * m + 1 /\ Taken(m) /\ pc = "done"
<1>. DEFINE L == Len(js)
            m == NumFields
<1>1. L \in Nat
    BY LenProperties DEF DecodeInv, ReadInv, JsmnInv
<1>2. L % 4 = 1 /\ Flat /\ 2 * m + 1 <= NUM_TOKENS /\ pc = "done"
    BY DEF Understood, Flat
<1>3. m \in Nat /\ L = 4 * m + 1
    <2>1. \A k \in Nat : k % 4 = 1 => k \div 4 \in Nat /\ k = 4 * (k \div 4) + 1
        OBVIOUS
    <2>. QED
        BY <1>1, <1>2, <2>1 DEF NumFields
<1>4. FieldsClosed(m)
    BY <1>2, <1>3 DEF DecodeInv, FlatInv
<1>5. result = 2 * m + 1
    BY <1>2, <1>4 DEF FieldsClosed, DecodeInv, ReadInv
<1>6. Taken(m)
    BY <1>2, <1>3 DEF DecodeInv, PairInv
<1>. QED
    BY <1>2, <1>3, <1>4, <1>5, <1>6

\* jsmn accepts a flat message of any length and with any texts, gives the object and the
\* fields a token each, and counts in the object the names and in each name its value:
\* the moves of toksuper at ":" and "," in jsmn_parse.
THEOREM SizesCounted == DecodeSpec => []SizesCountFields
<1>1. ASSUME DecodeInv, Understood
      PROVE  /\ result = 2 * NumFields + 1
             /\ tokens[1].size = NumFields
             /\ \A n \in 1..NumFields : tokens[2 * n].size = 1 /\ tokens[2 * n + 1].size = 0
    <2>1. result = 2 * NumFields + 1 /\ FieldsClosed(NumFields) /\ NumFields \in Nat
        BY <1>1, FlatRead
    <2>2. Fields(NumFields, 1)
        BY <2>1 DEF FieldsClosed
    <2>. HIDE DEF NumFields
    <2>. QED
        BY <2>1, <2>2 DEF Fields
<1>2. DecodeInv => SizesCountFields
    BY <1>1 DEF SizesCountFields
<1>. QED
    BY <1>2, DecodeHolds, PTL

\* The word for the motors after a message, whatever it is: MqttClientCallback sends a
\* command only when it is spelt out at the start of one of the message's own texts.
THEOREM OnlySentCommands == DecodeSpec => []OnlyWhatWasSent
<1>. DEFINE body == buffer["Body"]
<1>1. ASSUME DecodeInv, pc = "done", "Body" \notin unsaid, NEW w \in outcome.word3
      PROVE  \E k \in DOMAIN js, c \in Commands :
                /\ js[k].kind \in Scalars /\ StartsWith(js[k].text, c.prefix)
                /\ w = Word3(c, Filled(js[k].text))
    <2>1. /\ JsmnInv /\ StartInv /\ KeptText("Body") /\ IsArray(body)
          /\ outcome.word3 = {Word3(c, body) : c \in KnownIn(body)}
        BY <1>1 DEF DecodeInv, ReadInv, KeptInv, MemInv, CallInv, DecodeFields
    <2>2. PICK c \in Commands : StartsWith(body, c.prefix) /\ w = Word3(c, body)
        BY <1>1, <2>1 DEF KnownIn
    <2>. DEFINE p == c.prefix
                e == Len(p)
    <2>3. e \in 1..5 /\ \A k \in 1..e : p[k] \in Letters
        BY CommandSpelt DEF Spelt
    <2>4. e <= BUF /\ \A k \in 1..e : body[k] = p[k]
        <3>1. body \in Seq({body[k] : k \in 1..BUF}) /\ Len(body) = BUF
            BY <2>1, MemSeq
        <3>. QED
            BY <2>2, <3>1, StartsAs
    <2>5. 1 \in 1..e /\ \A k \in 1..e : k \in 1..BUF
        <3>1. BUF \in Nat
            BY DecodeAssumption
        <3>. HIDE DEF e
        <3>. QED
            BY <2>3, <2>4, <3>1
    <2>6. body # Filled(<< >>)
        <3>1. 1 \in 1..BUF /\ body[1] # NUL
            BY <2>3, <2>4, <2>5, NoLetter
        <3>. QED
            BY <3>1, EmptyMem
    <2>7. PICK n \in 1..Len(tokens) : body = Filled(TextOf(tokens[n]))
        BY <2>1, <2>6 DEF KeptText
    <2>. DEFINE t == tokens[n]
                v == TextOf(t)
    <2>8. /\ Plain(v)
          /\ t.type \in Scalars => /\ v = js[t.start].text
                                   /\ t.start \in DOMAIN js /\ js[t.start].kind \in Scalars
          /\ t.type \in Containers => \A k \in 1..Len(v) : v[k] \in {"{", "["}
          /\ t.type \in Scalars \/ t.type \in Containers
        BY <2>1, TokenText
    <2>. HIDE DEF t, v, p, e, body
    <2>9. Len(v) \in Nat /\ \A k \in 1..BUF : body[k] = IF k <= Len(v) THEN v[k] ELSE NUL
        BY <2>7, <2>8, FilledMem DEF Plain, v, t
    <2>10. \A k \in 1..e : k <= Len(v) /\ v[k] = p[k]
        BY <2>3, <2>4, <2>5, <2>9, NoLetter
    <2>11. t.type \in Scalars
        <3>1. 1 \in 1..Len(v) /\ v[1] \notin {"{", "["}
            <4>1. 1 <= Len(v) /\ v[1] = p[1] /\ p[1] \in Letters
                BY <2>3, <2>5, <2>10
            <4>2. Len(v) \in Nat
                BY <2>9
            <4>3. 1 \in 1..Len(v)
                BY <4>1, <4>2
            <4>4. \A a \in Letters : a \notin {"{", "["}
                BY NoLetter
            <4>. QED
                BY <4>1, <4>3, <4>4
        <3>. QED
            BY <2>8, <3>1
    <2>12. e <= Len(v)
        <3>1. e \in 1..e
            BY <2>3
        <3>. QED
            BY <2>10, <3>1
    <2>13. js[t.start] \in Lexemes /\ v = js[t.start].text
        <3>1. js \in Seq(Lexemes) /\ DOMAIN js = 1..Len(js)
            BY <2>1, LenProperties DEF JsmnInv
        <3>. QED
            BY <2>8, <2>11, <3>1, ElementOfSeq
    <2>14. IsText(v)
        BY <2>13, DecodeAssumption
    <2>15. StartsWith(v, c.prefix)
        <3>1. v \in Seq({v[k] : k \in 1..Len(v)})
            BY <2>14, TextSeq
        <3>. QED
            BY <2>10, <2>12, <3>1, StartsAs DEF p, e
    <2>. QED
        <3>1. w = Word3(c, Filled(v))
            BY <2>2, <2>7 DEF v, t, body
        <3>. QED
            BY <2>8, <2>11, <2>13, <2>15, <3>1
<1>2. DecodeInv => OnlyWhatWasSent
    BY <1>1 DEF OnlyWhatWasSent
<1>. QED
    BY <1>2, DecodeHolds, PTL

\* A part of a text is the same part of the array it is in.
HoldsText(mem, v) == IsArray(mem) /\ Fits(v) /\ \A k \in 1..BUF : k <= Len(v) => mem[k] = v[k]

SameParts(mem, v) ==
    \A a \in Nat \ {0}, n \in Nat :
        a + n <= Len(v) + 1 => SubSeq(mem, a, a + n - 1) = SubSeq(v, a, a + n - 1)

LEMMA SamePart == \A mem, v : HoldsText(mem, v) => SameParts(mem, v)
<1>. SUFFICES ASSUME NEW mem, NEW v, HoldsText(mem, v) PROVE SameParts(mem, v)
    OBVIOUS
<1>. SUFFICES ASSUME NEW a \in Nat \ {0}, NEW n \in Nat, a + n <= Len(v) + 1
              PROVE  SubSeq(mem, a, a + n - 1) = SubSeq(v, a, a + n - 1)
    BY DEF SameParts
<1>0. IsArray(mem) /\ Fits(v) /\ \A k \in 1..BUF : k <= Len(v) => mem[k] = v[k]
    BY DEF HoldsText
<1>. DEFINE L == Len(v)
<1>1. v \in Seq({v[k] : k \in 1..L}) /\ L \in Nat /\ L < BUF /\ BUF \in Nat
    BY <1>0, FitsSeq, DecodeAssumption
<1>2. mem \in Seq({mem[k] : k \in 1..BUF}) /\ Len(mem) = BUF
    BY <1>0, MemSeq
<1>3. a + n <= L + 1
    OBVIOUS
<1>4. SubSeq(v, a, a + n - 1) = [k \in 1..n |-> v[a + k - 1]]
    BY <1>1, PartOf
<1>5. SubSeq(mem, a, a + n - 1) = [k \in 1..n |-> mem[a + k - 1]]
    <2>. HIDE DEF L
    <2>1. a + n <= BUF + 1
        BY <1>1, <1>3
    <2>. QED
        BY <1>2, <2>1, PartOf
<1>6. \A k \in 1..n : mem[a + k - 1] = v[a + k - 1]
    <2>1. ASSUME NEW k \in 1..n PROVE a + k - 1 \in 1..BUF /\ a + k - 1 <= L
        <3>. HIDE DEF L
        <3>. QED
            BY <1>1, <1>3
    <2>. QED
        BY <1>0, <2>1
<1>. QED
    BY <1>4, <1>5, <1>6

\* The digits of a number end where it does.
LEMMA DigitsOf ==
    ASSUME NEW v, Fits(v), IsNumber(v)
    PROVE  Digits(v) = Len(v) /\ Digits(Filled(v)) = Len(v)
<1>. DEFINE L == Len(v)
<1>1. L \in Nat /\ L < BUF /\ BUF \in Nat /\ DOMAIN v = 1..L
    BY FitsSeq, DecodeAssumption
<1>2. \A k \in 1..L : v[k] \in DOMAIN DigitOf
    BY <1>1 DEF IsNumber
<1>3. Len(Filled(v)) = BUF /\ \A k \in 1..BUF : Filled(v)[k] = IF k <= L THEN v[k] ELSE NUL
    BY FilledMem, MemSeq
<1>4. NUL \notin DOMAIN DigitOf
    BY DEF DigitOf, NUL
<1>. HIDE DEF L
<1>5. Digits(v) = L
    <2>1. Digits(v) = CHOOSE n \in 0..L :
                        /\ \A k \in 1..n : v[k] \in DOMAIN DigitOf
                        /\ n = L \/ v[n + 1] \notin DOMAIN DigitOf
        BY DEF Digits, L
    <2>2. \A n \in 0..L : (n = L \/ v[n + 1] \notin DOMAIN DigitOf) => n = L
        <3>1. \A n \in 0..L : n # L => n + 1 \in 1..L
            BY <1>1
        <3>. QED
            BY <1>2, <3>1
    <2>3. L \in 0..L
        BY <1>1
    <2>. QED
        BY <1>2, <2>1, <2>2, <2>3
<1>6. Digits(Filled(v)) = L
    <2>. DEFINE mem == Filled(v)
    <2>1. Digits(mem) = CHOOSE n \in 0..BUF :
                          /\ \A k \in 1..n : mem[k] \in DOMAIN DigitOf
                          /\ n = BUF \/ mem[n + 1] \notin DOMAIN DigitOf
        BY <1>3 DEF Digits
    <2>2. L + 1 \in 1..BUF /\ ~(L + 1 <= L) /\ L \in 0..BUF /\ \A k \in 1..L : k \in 1..BUF /\ k <= L
        BY <1>1
    <2>3. mem[L + 1] \notin DOMAIN DigitOf /\ \A k \in 1..L : mem[k] \in DOMAIN DigitOf
        BY <1>2, <1>3, <1>4, <2>2
    <2>. HIDE DEF mem
    <2>4. ASSUME NEW n \in 0..BUF, \A k \in 1..n : mem[k] \in DOMAIN DigitOf,
                 n = BUF \/ mem[n + 1] \notin DOMAIN DigitOf
          PROVE  n = L
        <3>1. n <= L
            <4>1. n > L => L + 1 \in 1..n
                BY <1>1
            <4>. QED
                BY <1>1, <2>3, <2>4, <4>1
        <3>2. n # L => n + 1 \in 1..L
            BY <1>1, <3>1
        <3>. QED
            BY <1>1, <2>3, <2>4, <3>1, <3>2
    <2>5. \A n \in 0..BUF :
             /\ \A k \in 1..n : mem[k] \in DOMAIN DigitOf
             /\ n = BUF \/ mem[n + 1] \notin DOMAIN DigitOf
             => n = L
        BY <2>4
    <2>6. /\ L \in 0..BUF /\ \A k \in 1..L : mem[k] \in DOMAIN DigitOf
          /\ L = BUF \/ mem[L + 1] \notin DOMAIN DigitOf
        BY <2>2, <2>3
    <2>. DEFINE c == CHOOSE n \in 0..BUF :
                        /\ \A k \in 1..n : mem[k] \in DOMAIN DigitOf
                        /\ n = BUF \/ mem[n + 1] \notin DOMAIN DigitOf
    <2>7. /\ c \in 0..BUF /\ \A k \in 1..c : mem[k] \in DOMAIN DigitOf
          /\ c = BUF \/ mem[c + 1] \notin DOMAIN DigitOf
        BY <2>6, Zenon
    <2>. HIDE DEF c
    <2>8. c = L
        BY <2>5, <2>7, Zenon
    <2>. QED
        BY <2>1, <2>8 DEF c, mem
<1>. QED
    BY <1>5, <1>6 DEF L

\* A number in an array is the one that was put there.
LEMMA SameNumber ==
    ASSUME NEW v, Fits(v), IsNumber(v)
    PROVE  Atoi(Filled(v)) = Atoi(v)
<1>. DEFINE L == Len(v)
<1>1. L \in Nat /\ 1 \in Nat \ {0} /\ 1 + L <= L + 1
    BY FitsSeq
<1>2. IsArray(Filled(v)) /\ \A k \in 1..BUF : k <= Len(v) => Filled(v)[k] = v[k]
    BY FilledMem
<1>3. SubSeq(Filled(v), 1, 1 + L - 1) = SubSeq(v, 1, 1 + L - 1)
    <2>1. \A a \in Nat \ {0}, n \in Nat :
             a + n <= L + 1 => SubSeq(Filled(v), a, a + n - 1) = SubSeq(v, a, a + n - 1)
        <3>1. HoldsText(Filled(v), v)
            BY <1>2 DEF HoldsText
        <3>2. SameParts(Filled(v), v)
            BY <3>1, SamePart, Zenon
        <3>. QED
            BY <3>2 DEF SameParts
    <2>. HIDE DEF L
    <2>. QED
        BY <1>1, <2>1
<1>4. 1 + L - 1 = L
    BY <1>1
<1>. QED
    BY <1>3, <1>4, DigitsOf DEF Atoi

LEMMA ValueText ==
    ASSUME DecodeInv, Understood, NEW n \in 1..NumFields
    PROVE  IsText(ValueOf(n))
<1>. DEFINE L == Len(js)
            m == NumFields
<1>1. m \in Nat /\ L = 4 * m + 1
    BY FlatRead
<1>2. js \in Seq(Lexemes)
    BY DEF DecodeInv, ReadInv, JsmnInv
<1>. HIDE DEF L, m
<1>3. 4 * n \in 1..L
    BY <1>1 DEF m
<1>4. js[4 * n] \in Lexemes
    BY <1>2, <1>3, ElementOfSeq DEF L
<1>. QED
    BY <1>4, DecodeAssumption DEF ValueOf

\* A field with a name of its own among the m that were taken.
LEMMA FieldTaken ==
    ASSUME DecodeInv, Understood, NEW f \in DecodeFields, NEW n \in Named(f), Named(f) = {n}
    PROVE  /\ Fits(ValueOf(n)) /\ IsArray(buffer[f])
           /\ \A k \in 1..BUF : k <= Len(ValueOf(n)) => buffer[f][k] = ValueOf(n)[k]
           /\ f \notin unsaid => buffer[f] = Filled(ValueOf(n))
<1>1. n \in 1..NumFields
    BY DEF Named
<1>2. \A l \in 1..NumFields : l \in Named(f) <=> l = n
    BY <1>1
<1>3. Taken(NumFields)
    BY FlatRead
<1>4. Fits(ValueOf(n))
    <2>1. IsText(ValueOf(n))
        BY <1>1, ValueText
    <2>2. Len(ValueOf(n)) < BUF
        BY <1>1, <1>2, <1>3 DEF Taken
    <2>. QED
        BY <2>1, <2>2 DEF Fits
<1>5. IsArray(buffer[f])
    BY DEF DecodeInv, MemInv
<1>. QED
    BY <1>1, <1>2, <1>3, <1>4, <1>5 DEF Taken

\* Three speeds in an array are the ones that were put there.
LEMMA SameSpeeds ==
    ASSUME NEW mem, IsArray(mem), NEW v, Fits(v), \A k \in 1..BUF : k <= Len(v) => mem[k] = v[k]
    PROVE  Len(v) = 9 => \A a \in {1, 4, 7} : SpeedAt(mem, a) = SpeedAt(v, a)
<1>0. HoldsText(mem, v)
    BY DEF HoldsText
<1>1. SameParts(mem, v)
    BY <1>0, SamePart, Zenon
<1>. HAVE Len(v) = 9
<1>2. \A a \in {1, 4, 7} : a \in Nat \ {0} /\ 3 \in Nat /\ a + 3 <= Len(v) + 1
    OBVIOUS
<1>3. \A a \in {1, 4, 7} : SubSeq(mem, a, a + 3 - 1) = SubSeq(v, a, a + 3 - 1)
    BY <1>1, <1>2, Zenon DEF SameParts
<1>4. \A a \in {1, 4, 7} : a + 3 - 1 = a + 2
    OBVIOUS
<1>. QED
    BY <1>3, <1>4 DEF SpeedAt

\* The number of a flat message reaches MqttClient as it was sent, however long the message
\* is and whatever it is made of: sprintf and atoi of the array read no more than memcpy has
\* put there, unless the array held more.
THEOREM NumbersAsSent == DecodeSpec => []NumberAsSent
<1>1. ASSUME DecodeInv, Understood, "MSGID" \notin unsaid,
             NEW n \in Named("MSGID"), Named("MSGID") = {n}, IsNumber(ValueOf(n))
      PROVE  outcome.word6 = CloudWord(Atoi(ValueOf(n)), 4)
    <2>1. outcome.word6 = CloudWord(Atoi(buffer["MSGID"]), 4)
        BY <1>1, FlatRead DEF DecodeInv, CallInv
    <2>2. "MSGID" \in DecodeFields
        BY DEF DecodeFields
    <2>3. Fits(ValueOf(n)) /\ buffer["MSGID"] = Filled(ValueOf(n))
        BY <1>1, <2>2, FieldTaken
    <2>. QED
        BY <1>1, <2>1, <2>3, SameNumber
<1>2. DecodeInv => NumberAsSent
    BY <1>1 DEF NumberAsSent
<1>. QED
    BY <1>2, DecodeHolds, PTL

\* The command of a flat message, and only that one, reaches the motors as it was sent, with
\* the speeds that were sent: no two of the strings that MqttClientCallback compares with are
\* the beginning of one text, and no command needs more of the array than its own text.
THEOREM CommandsAsSent == DecodeSpec => []CommandAsSent
<1>1. ASSUME DecodeInv, Understood, NEW n \in Named("Body"), NEW c \in Commands,
             Named("Body") = {n}, StartsWith(ValueOf(n), c.prefix),
             c.type = 10 => IsSpeeds(ValueOf(n))
      PROVE  outcome.word3 = {Word3(c, ValueOf(n))}
    <2>. DEFINE body == buffer["Body"]
                v == ValueOf(n)
    <2>1. outcome.word3 = {Word3(d, body) : d \in KnownIn(body)}
        BY <1>1, FlatRead DEF DecodeInv, CallInv
    <2>2. "Body" \in DecodeFields
        BY DEF DecodeFields
    <2>3. /\ Fits(v) /\ IsArray(body)
          /\ \A k \in 1..BUF : k <= Len(v) => body[k] = v[k]
        BY <1>1, <2>2, FieldTaken
    <2>4. StartsWith(v, c.prefix) /\ (c.type = 10 => IsSpeeds(v))
        BY <1>1
    <2>. HIDE DEF body, v
    <2>5. /\ v \in Seq({v[k] : k \in 1..Len(v)}) /\ Len(v) \in Nat /\ Len(v) < BUF
          /\ body \in Seq({body[k] : k \in 1..BUF}) /\ Len(body) = BUF
        BY <2>3, FitsSeq, MemSeq
    <2>6. StartsWith(body, c.prefix)
        <3>1. \A k \in 1..Len(v) : k \in 1..BUF /\ k <= Len(v)
            BY <2>5, DecodeAssumption
        <3>2. Len(v) <= Len(body) /\ \A k \in 1..Len(v) : body[k] = v[k]
            BY <2>3, <2>5, <3>1, DecodeAssumption
        <3>. QED
            BY <2>4, <2>5, <3>2, SameStart
    <2>7. \A d \in KnownIn(body) : d \in Commands /\ d = c
        <3>1. SUFFICES ASSUME NEW d \in Commands, StartsWith(body, d.prefix) PROVE d = c
            BY DEF KnownIn
        <3>2. /\ \A k \in 1..Len(c.prefix) : body[k] = c.prefix[k]
              /\ \A k \in 1..Len(d.prefix) : body[k] = d.prefix[k]
            BY <2>5, <2>6, <3>1, StartsAs
        <3>3. \A x, y \in Commands :
                 /\ \A k \in 1..Len(x.prefix) : body[k] = x.prefix[k]
                 /\ \A k \in 1..Len(y.prefix) : body[k] = y.prefix[k]
                 => x = y
            BY OneCommand, Zenon
        <3>. QED
            BY <3>2, <3>3
    <2>8. KnownIn(body) = {c}
        BY <2>6, <2>7 DEF KnownIn
    <2>9. Word3(c, body) = Word3(c, v)
        <3>1. CASE c.type # 10
            BY <3>1 DEF Word3
        <3>2. CASE c.type = 10
            <4>1. Len(v) = 9
                BY <2>4, <3>2 DEF IsSpeeds
            <4>2. \A a \in {1, 4, 7} : SpeedAt(body, a) = SpeedAt(v, a)
                BY <2>3, <4>1, SameSpeeds
            <4>3. SpeedVal(body) = SpeedVal(v)
                BY <4>2 DEF SpeedVal
            <4>. QED
                BY <4>3 DEF Word3
        <3>. QED
            BY <3>1, <3>2
    <2>. QED
        BY <2>1, <2>8, <2>9 DEF v
<1>2. DecodeInv => CommandAsSent
    BY <1>1 DEF CommandAsSent
<1>. QED
    BY <1>2, DecodeHolds, PTL

-----------------------------------------------------------------------------
(***************************************************************************)
(* The value of a number.                                                  *)
(***************************************************************************)
LEMMA LeastNatural ==
    ASSUME NEW T \in SUBSET Nat, T # {}
    PROVE  \E x \in T : \A y \in T : x <= y
<1>. DEFINE R == {ss \in Nat \X Nat : ss[1] < ss[2]}
<1>1. IsWellFoundedOn(R, Nat)
    BY NatLessThanWellFounded DEF OpToRel
<1>2. PICK x \in T : \A y \in T : <<y, x>> \notin R
    <2>. HIDE DEF R
    <2>. QED
        BY <1>1, WFMin
<1>3. \A y \in T : x <= y
    <2>1. ASSUME NEW y \in T, y < x PROVE FALSE
        <3>1. <<y, x>> \in R
            BY <2>1
        <3>. QED
            BY <1>2, <3>1
    <2>2. \A y \in T : y \in Nat /\ x \in Nat
        OBVIOUS
    <2>. QED
        BY <2>1, <2>2
<1>. QED
    BY <1>3

\* Induction over the natural numbers, with the property as a set.
LEMMA SetInduction ==
    ASSUME NEW S, 0 \in S, \A n \in Nat : n \in S => n + 1 \in S
    PROVE  Nat \subseteq S
<1>1. SUFFICES ASSUME Nat \ S # {} PROVE FALSE
    OBVIOUS
<1>2. PICK x \in Nat \ S : \A y \in Nat \ S : x <= y
    BY <1>1, LeastNatural
<1>3. x # 0 /\ x - 1 \in Nat /\ ~(x <= x - 1)
    BY <1>2
<1>4. x - 1 \in S
    BY <1>2, <1>3
<1>. QED
    BY <1>2, <1>3, <1>4

\* The equation of value in the definition of Number, for the first L characters of a text.
IsValue(f, text, L) ==
    f = [n \in 0..L |-> IF n = 0 THEN 0 ELSE 10 * f[n - 1] + DigitOf[text[n]]]

LEMMA DigitValue == \A c \in DOMAIN DigitOf : DigitOf[c] \in 0..9
BY DEF DigitOf

\* Two functions that meet the equation are the same as far as their texts are.
Alike(f, s, L, g, t, M) ==
    /\ L \in Nat /\ M \in Nat /\ M <= L
    /\ \A k \in 1..M : s[k] = t[k]
    /\ IsValue(f, s, L) /\ IsValue(g, t, M)
    => \A n \in 0..M : f[n] = g[n]

LEMMA ValueUnique == \A f, s, L, g, t, M : Alike(f, s, L, g, t, M)
<1>. SUFFICES ASSUME NEW f, NEW s, NEW g, NEW t, NEW L \in Nat, NEW M \in Nat, M <= L,
                     \A k \in 1..M : s[k] = t[k], IsValue(f, s, L), IsValue(g, t, M)
              PROVE  \A n \in 0..M : f[n] = g[n]
    BY DEF Alike
<1>. DEFINE S == {n \in Nat : n <= M => f[n] = g[n]}
<1>1. 0 \in S
    BY DEF IsValue
<1>2. ASSUME NEW n \in Nat, n \in S, n + 1 <= M PROVE f[n + 1] = g[n + 1]
    <2>1. /\ f[n] = g[n] /\ n + 1 \in 0..L /\ n + 1 \in 0..M /\ n + 1 # 0 /\ n + 1 - 1 = n
          /\ s[n + 1] = t[n + 1]
        BY <1>2
    <2>2. f[n + 1] = 10 * f[n] + DigitOf[s[n + 1]]
        BY <2>1 DEF IsValue
    <2>3. g[n + 1] = 10 * g[n] + DigitOf[t[n + 1]]
        BY <2>1 DEF IsValue
    <2>. QED
        BY <2>1, <2>2, <2>3
<1>3. \A n \in Nat : n \in S => n + 1 \in S
    BY <1>2
<1>4. Nat \subseteq S
    <2>. HIDE DEF S
    <2>. QED
        BY <1>1, <1>3, SetInduction
<1>. QED
    BY <1>4

\* There is a function that meets it, and its values are natural numbers.
LEMMA ValueExists ==
    ASSUME NEW text, NEW L \in Nat, \A k \in 1..L : text[k] \in DOMAIN DigitOf
    PROVE  \E f : IsValue(f, text, L) /\ \A n \in 0..L : f[n] \in Nat
<1>. DEFINE Good(m) == \E f : IsValue(f, text, m) /\ \A n \in 0..m : f[n] \in Nat
            S == {m \in Nat : m <= L => Good(m)}
<1>1. 0 \in S
    <2>. DEFINE f == [n \in 0..0 |-> 0]
    <2>1. IsValue(f, text, 0) /\ \A n \in 0..0 : f[n] \in Nat
        BY DEF IsValue
    <2>. QED
        BY <2>1, Zenon
<1>2. ASSUME NEW m \in Nat, m \in S, m + 1 <= L PROVE Good(m + 1)
    <2>1. PICK f : IsValue(f, text, m) /\ \A n \in 0..m : f[n] \in Nat
        BY <1>2
    <2>. DEFINE d == DigitOf[text[m + 1]]
                g == [n \in 0..(m + 1) |-> IF n = m + 1 THEN 10 * f[m] + d ELSE f[n]]
    <2>2. d \in Nat
        BY <1>2, DigitValue
    <2>3. \A n \in 0..m : f[n] = IF n = 0 THEN 0 ELSE 10 * f[n - 1] + DigitOf[text[n]]
        BY <2>1 DEF IsValue
    <2>4. ASSUME NEW n \in 0..(m + 1)
          PROVE  /\ g[n] = IF n = 0 THEN 0 ELSE 10 * g[n - 1] + DigitOf[text[n]]
                 /\ g[n] \in Nat
        <3>1. CASE n = m + 1
            <4>1. n # 0 /\ n - 1 = m /\ m \in 0..(m + 1) /\ m # m + 1 /\ m \in 0..m
                BY <3>1
            <4>2. g[n] = 10 * f[m] + d /\ g[n - 1] = f[m] /\ f[m] \in Nat
                BY <2>1, <3>1, <4>1
            <4>. QED
                BY <2>2, <3>1, <4>1, <4>2
        <3>2. CASE n # m + 1
            <4>1. n \in 0..m /\ g[n] = f[n]
                BY <3>2
            <4>2. n # 0 => n - 1 \in 0..(m + 1) /\ n - 1 # m + 1
                BY <3>2
            <4>. HIDE DEF d
            <4>3. n # 0 => g[n - 1] = f[n - 1]
                BY <4>2
            <4>. QED
                BY <2>1, <2>3, <4>1, <4>3
        <3>. QED
            BY <3>1, <3>2
    <2>5. IsValue(g, text, m + 1)
        BY <2>4 DEF IsValue
    <2>. QED
        BY <2>4, <2>5
<1>3. \A m \in Nat : m \in S => m + 1 \in S
    BY <1>2
<1>4. Nat \subseteq S
    <2>. HIDE DEF S
    <2>. QED
        BY <1>1, <1>3, SetInduction
<1>. QED
    BY <1>4

\* What Number means.
LEMMA NumberValue ==
    ASSUME NEW text, Len(text) \in Nat, \A k \in 1..Len(text) : text[k] \in DOMAIN DigitOf
    PROVE  \E f : /\ IsValue(f, text, Len(text)) /\ Number(text) = f[Len(text)]
                  /\ \A n \in 0..Len(text) : f[n] \in Nat
<1>. DEFINE L == Len(text)
            f == CHOOSE f : f = [n \in 0..L |-> IF n = 0 THEN 0 ELSE 10 * f[n - 1] + DigitOf[text[n]]]
<1>1. Number(text) = f[L]
    BY DEF Number
<1>. HIDE DEF L
<1>2. PICK g : IsValue(g, text, L) /\ \A n \in 0..L : g[n] \in Nat
    BY ValueExists DEF L
<1>3. IsValue(f, text, L)
    BY <1>2, Zenon DEF IsValue
<1>. HIDE DEF f
<1>4. L \in Nat /\ L <= L /\ \A k \in 1..L : text[k] = text[k]
    BY DEF L
<1>5. \A n \in 0..L : f[n] = g[n]
    <2>1. Alike(f, text, L, g, text, L)
        BY ValueUnique, Zenon
    <2>. QED
        BY <1>2, <1>3, <1>4, <2>1, Zenon DEF Alike
<1>. QED
    BY <1>1, <1>2, <1>3, <1>5 DEF L

\* Number is what its digits say: a text of digits, however long, is read as a decimal
\* number, which the type of SpeedAt and the numbers of messages rest on.
LEMMA NumberIsDecimal ==
    ASSUME NEW text \in Seq(DOMAIN DigitOf), NEW c \in DOMAIN DigitOf
    PROVE  /\ Number(text) \in Nat
           /\ Number(<< >>) = 0
           /\ Number(Append(text, c)) = 10 * Number(text) + DigitOf[c]
<1>. DEFINE L == Len(text)
            more == Append(text, c)
<1>1. L \in Nat /\ \A k \in 1..L : text[k] \in DOMAIN DigitOf
    BY ElementOfSeq
<1>2. /\ Len(more) = L + 1 /\ Len(more) \in Nat /\ more[L + 1] = c
      /\ \A k \in 1..L : more[k] = text[k]
    OBVIOUS
<1>3. \A k \in 1..Len(more) : more[k] \in DOMAIN DigitOf
    <2>1. \A k \in 1..Len(more) : k \in 1..L \/ k = L + 1
        BY <1>1, <1>2
    <2>. QED
        BY <1>1, <1>2, <2>1
<1>4. PICK f : /\ IsValue(f, text, L) /\ Number(text) = f[L]
               /\ \A n \in 0..L : f[n] \in Nat
    BY <1>1, NumberValue
<1>5. PICK g : IsValue(g, more, Len(more)) /\ Number(more) = g[Len(more)]
    <2>. HIDE DEF more
    <2>. QED
        BY <1>2, <1>3, NumberValue
<1>6. Number(<< >>) = 0
    <2>1. Len(<< >>) = 0 /\ \A k \in 1..0 : << >>[k] \in DOMAIN DigitOf
        OBVIOUS
    <2>2. PICK h : IsValue(h, << >>, 0) /\ Number(<< >>) = h[0]
        BY <2>1, NumberValue
    <2>. QED
        BY <2>2 DEF IsValue
<1>. HIDE DEF L, more
<1>7. g[L] = f[L]
    <2>. DEFINE K == L + 1
    <2>1. IsValue(g, more, K) /\ L <= K /\ K \in Nat /\ L \in Nat /\ L \in 0..L
        BY <1>1, <1>2, <1>5
    <2>. HIDE DEF K
    <2>2. Alike(g, more, K, f, text, L)
        BY ValueUnique, Zenon
    <2>3. \A n \in 0..L : g[n] = f[n]
        BY <1>2, <1>4, <2>1, <2>2, Zenon DEF Alike
    <2>. QED
        BY <2>1, <2>3
<1>8. g[L + 1] = 10 * g[L] + DigitOf[c]
    <2>. DEFINE M == L + 1
    <2>1. IsValue(g, more, M) /\ more[M] = c /\ M \in 0..M /\ M # 0 /\ M - 1 = L
        BY <1>1, <1>2, <1>5
    <2>. HIDE DEF M
    <2>2. g[M] = 10 * g[M - 1] + DigitOf[more[M]]
        BY <2>1 DEF IsValue
    <2>. QED
        BY <2>1, <2>2 DEF M
<1>9. Number(text) \in Nat
    BY <1>1, <1>4
<1>. QED
    BY <1>2, <1>4, <1>5, <1>6, <1>7, <1>8, <1>9 DEF more

\* The digits at the start of anything that has a length.
LEMMA DigitsFound ==
    ASSUME NEW mem, Len(mem) \in Nat
    PROVE  /\ Digits(mem) \in 0..Len(mem)
           /\ \A k \in 1..Digits(mem) : mem[k] \in DOMAIN DigitOf
<1>. DEFINE L == Len(mem)
            T == {n \in 0..L : n = L \/ mem[n + 1] \notin DOMAIN DigitOf}
            d == CHOOSE n \in 0..L : /\ \A k \in 1..n : mem[k] \in DOMAIN DigitOf
                                     /\ n = L \/ mem[n + 1] \notin DOMAIN DigitOf
<1>1. L \in Nat /\ Digits(mem) = d
    BY DEF Digits
<1>. HIDE DEF L, d
<1>2. T \in SUBSET Nat /\ T # {}
    <2>1. L \in T
        BY <1>1
    <2>2. T \in SUBSET Nat
        BY <1>1
    <2>. QED
        BY <2>1, <2>2
<1>3. PICK x \in T : \A y \in T : x <= y
    <2>. HIDE DEF T
    <2>. QED
        BY <1>2, LeastNatural
<1>4. ASSUME NEW k \in 1..x PROVE mem[k] \in DOMAIN DigitOf
    <2>1. k - 1 \in 0..L /\ ~(x <= k - 1) /\ k - 1 + 1 = k
        BY <1>1, <1>3
    <2>2. k - 1 \notin T
        BY <1>3, <2>1
    <2>. QED
        BY <2>1, <2>2
<1>5. /\ x \in 0..L /\ \A k \in 1..x : mem[k] \in DOMAIN DigitOf
      /\ x = L \/ mem[x + 1] \notin DOMAIN DigitOf
    BY <1>3, <1>4
<1>6. d \in 0..L /\ \A k \in 1..d : mem[k] \in DOMAIN DigitOf
    BY <1>5, Zenon DEF d
<1>. QED
    BY <1>1, <1>6 DEF L

\* atoi of a text gives a number, whatever the text is.
LEMMA AtoiNat ==
    ASSUME NEW S, NEW mem \in Seq(S)
    PROVE  Atoi(mem) \in Nat
<1>. DEFINE d == Digits(mem)
            u == SubSeq(mem, 1, d)
<1>1. Len(mem) \in Nat /\ d \in 0..Len(mem) /\ \A k \in 1..d : mem[k] \in DOMAIN DigitOf
    BY DigitsFound
<1>. HIDE DEF d
<1>2. d \in Nat /\ 1 + d <= Len(mem) + 1 /\ 1 + d - 1 = d /\ 1 \in Nat \ {0}
    BY <1>1
<1>3. u = [k \in 1..d |-> mem[1 + k - 1]]
    BY <1>2, PartOf
<1>4. \A k \in 1..d : mem[1 + k - 1] \in DOMAIN DigitOf
    <2>1. \A k \in 1..d : 1 + k - 1 = k
        BY <1>2
    <2>. QED
        BY <1>1, <2>1
<1>5. u \in [1..d -> DOMAIN DigitOf]
    BY <1>3, <1>4
<1>6. u \in Seq(DOMAIN DigitOf)
    <2>. HIDE DEF u
    <2>. QED
        BY <1>2, <1>5
<1>7. "0" \in DOMAIN DigitOf
    BY DEF DigitOf
<1>. HIDE DEF u
<1>8. Number(u) \in Nat
    BY <1>6, <1>7, NumberIsDecimal
<1>. QED
    BY <1>8 DEF Atoi, u, d

\* A speed out of a buffer is a byte.
LEMMA SpeedByte ==
    ASSUME NEW body, IsArray(body)
    PROVE  \A k \in {1, 4, 7} : /\ Atoi(SubSeq(body, k, k + 2)) \in Nat
                                /\ SpeedAt(body, k) \in 0..255
<1>. DEFINE S == {body[k] : k \in 1..BUF}
<1>1. body \in Seq(S) /\ Len(body) = BUF /\ BUF \in Nat /\ BUF >= 10
    BY MemSeq, DecodeAssumption
<1>. HIDE DEF S
<1>2. ASSUME NEW k \in {1, 4, 7} PROVE Atoi(SubSeq(body, k, k + 2)) \in Nat
    <2>1. SubSeq(body, k, k + 2) \in Seq(S)
        BY <1>1
    <2>. QED
        BY <2>1, AtoiNat
<1>. QED
    BY <1>2 DEF SpeedAt

-----------------------------------------------------------------------------
(***************************************************************************)
(* Types.                                                                  *)
(***************************************************************************)
\* A value of three bytes.
CommandWords == {w \in [tag : 1..11, val : Nat] : w.val \div 65536 <= 255}

DecodeTypes ==
    /\ DOMAIN tempValue = DecodeFields /\ DOMAIN buffer = DecodeFields
    /\ i \in 2..(NUM_TOKENS + 2) /\ unsaid \subseteq DecodeFields
    /\ outcome.word6.tag = 5 /\ outcome.word3 \subseteq CommandWords
    /\ messages \in 1..MaxMessages

\* val has the bytes x, y and z.
BytesOf(val, x, y, z) ==
    val \in Nat /\ val \div 65536 = x /\ (val \div 256) % 256 = y /\ val % 256 = z

ThreeInOne(x, y, z) == 65536 * x + 256 * y + z

LEMMA ThreeBytes ==
    ASSUME NEW a \in 0..255, NEW b \in 0..255, NEW c \in 0..255
    PROVE  BytesOf(ThreeInOne(a, b, c), a, b, c)
<1>. DEFINE val == ThreeInOne(a, b, c)
<1>0. val = 65536 * a + 256 * b + c
    BY DEF ThreeInOne
<1>. HIDE DEF val
<1>1. val \in Nat
    BY <1>0
<1>2. val \div 65536 = a
    <2>1. \A x \in Nat : 65536 * a <= x /\ x < 65536 * (a + 1) => x \div 65536 = a
        OBVIOUS
    <2>2. 65536 * a <= val /\ val < 65536 * (a + 1)
        BY <1>0
    <2>. QED
        BY <1>1, <2>1, <2>2
<1>3. val \div 256 = 256 * a + b
    BY <1>0
<1>4. val % 256 = c
    BY <1>0
<1>5. (256 * a + b) % 256 = b
    OBVIOUS
<1>. QED
    BY <1>1, <1>2, <1>3, <1>4, <1>5 DEF BytesOf, val

\* The word of three speeds.
LEMMA SpeedWord ==
    ASSUME NEW body, IsArray(body)
    PROVE  /\ BytesOf(SpeedVal(body), SpeedAt(body, 1), SpeedAt(body, 4), SpeedAt(body, 7))
           /\ SpeedAt(body, 1) <= 255
<1>1. /\ SpeedAt(body, 1) \in 0..255 /\ SpeedAt(body, 4) \in 0..255
      /\ SpeedAt(body, 7) \in 0..255
    BY SpeedByte
<1>2. SpeedVal(body) = ThreeInOne(SpeedAt(body, 1), SpeedAt(body, 4), SpeedAt(body, 7))
    BY DEF SpeedVal, ThreeInOne
<1>3. \A x, y, z \in 0..255 : BytesOf(ThreeInOne(x, y, z), x, y, z)
    BY ThreeBytes, Zenon
<1>4. SpeedAt(body, 1) <= 255
    BY <1>1
<1>. QED
    BY <1>1, <1>2, <1>3, <1>4, Zenon

LEMMA CommandTypes == \A c \in Commands : c.type \in 0..10
<1>1. ASSUME NEW c \in Commands
      PROVE  \/ c.type = 0 \/ c.type = 1 \/ c.type = 2 \/ c.type = 3 \/ c.type = 4 \/ c.type = 5
             \/ c.type = 6 \/ c.type = 7 \/ c.type = 8 \/ c.type = 9 \/ c.type = 10
    BY Spellings, Zenon DEF Spelling
<1>. QED
    BY <1>1

LEMMA WordTypes ==
    ASSUME NEW body, IsArray(body), NEW c \in Commands
    PROVE  Word3(c, body) \in CommandWords
<1>1. c.type \in 0..10
    BY CommandTypes
<1>2. SpeedVal(body) \in Nat /\ SpeedVal(body) \div 65536 <= 255
    BY SpeedWord DEF BytesOf
<1>3. c.type + 1 \in 1..11 /\ 0 \in Nat /\ 0 \div 65536 <= 255
    BY <1>1
<1>. QED
    BY <1>1, <1>2, <1>3 DEF Word3, JsonWord, Word, CommandWords

LEMMA TypesKept ==
    ASSUME DecodeInv, DecodeTypes, [DecodeNext]_decodeVars
    PROVE  DecodeTypes'
<1>1. JsmnInv /\ StartInv /\ MemInv
    BY DEF DecodeInv, ReadInv
<1>2. NUM_TOKENS \in Nat
    BY TokensAssumption
<1>3. CASE Parse \/ TakeTokens \/ RunPast \/ NoPairLeft \/ UNCHANGED decodeVars
    <2>1. UNCHANGED <<i, tempValue, buffer, unsaid, outcome, messages>>
        BY <1>3 DEF Parse, TakeTokens, RunPast, NoPairLeft, decodeVars
    <2>. QED
        BY <2>1 DEF DecodeTypes
<1>4. CASE TakePair
    <2>1. i <= result /\ i' = i + 2 /\ UNCHANGED <<outcome, messages>> /\ unsaid' \subseteq DecodeFields
          /\ DOMAIN tempValue' = DecodeFields /\ DOMAIN buffer' = DecodeFields
        BY <1>4 DEF TakePair, Past, DecodeTypes
    <2>2. result <= NUM_TOKENS /\ result \in Nat
        BY <1>1, <1>4, PairTurn DEF JsmnInv
    <2>3. i' \in 2..(NUM_TOKENS + 2)
        BY <1>2, <2>1, <2>2 DEF DecodeTypes
    <2>. QED
        BY <2>1, <2>3 DEF DecodeTypes
<1>5. CASE Callback
    <2>1. /\ UNCHANGED <<i, tempValue, buffer, unsaid, messages>>
          /\ outcome' = [word6 |-> CloudWord(Atoi(buffer["MSGID"]), 4),
                         word3 |-> {Word3(c, buffer["Body"]) : c \in KnownIn(buffer["Body"])}]
        BY <1>5 DEF Callback, KnownIn
    <2>2. outcome'.word6.tag = 5
        BY <2>1 DEF CloudWord, Word
    <2>3. IsArray(buffer["Body"])
        BY <1>1 DEF MemInv, DecodeFields
    <2>4. \A c \in KnownIn(buffer["Body"]) : Word3(c, buffer["Body"]) \in CommandWords
        BY <2>3, WordTypes DEF KnownIn
    <2>5. outcome'.word3 \subseteq CommandWords
        BY <2>1, <2>4
    <2>. QED
        BY <2>1, <2>2, <2>5 DEF DecodeTypes
<1>6. CASE NextMessage
    <2>1. i' = 2 /\ unsaid' = {} /\ outcome' = Nothing /\ messages' = messages + 1 /\ messages < MaxMessages
          /\ DOMAIN buffer' = DecodeFields
          /\ tempValue' \in [DecodeFields -> Garbage] \cup {tempValue}
        BY <1>6 DEF NextMessage
    <2>2. outcome'.word6.tag = 5 /\ outcome'.word3 = {}
        BY <2>1 DEF Nothing, CloudWord, Word
    <2>3. messages' \in 1..MaxMessages /\ 2 \in 2..(NUM_TOKENS + 2)
        BY <1>2, <2>1, DecodeAssumption DEF DecodeTypes
    <2>4. DOMAIN tempValue' = DecodeFields
        BY <2>1 DEF DecodeTypes
    <2>. QED
        BY <2>1, <2>2, <2>3, <2>4 DEF DecodeTypes
<1>. QED
    BY <1>3, <1>4, <1>5, <1>6 DEF DecodeNext

\* The types of the parser, the loop and the callback, for messages and arrays of any length
\* and whatever the arrays held: the word of a command keeps to three bytes and to the tags of
\* queue 3 whatever the body is.
THEOREM DecodeTypeCorrect == DecodeSpec => []DecodeTypeOK
<1>1. DecodeInit => DecodeTypes
    <2>1. SUFFICES ASSUME DecodeInit PROVE DecodeTypes
        OBVIOUS
    <2>2. /\ i = 2 /\ unsaid = {} /\ outcome = Nothing /\ messages = 1
          /\ buffer = [f \in DecodeFields |-> Filled(<< >>)]
          /\ tempValue \in [DecodeFields -> Garbage]
        BY <2>1 DEF DecodeInit
    <2>3. 2 \in 2..(NUM_TOKENS + 2) /\ 1 \in 1..MaxMessages
        BY TokensAssumption, DecodeAssumption
    <2>. QED
        BY <2>2, <2>3 DEF DecodeTypes, Nothing, CloudWord, Word
<1>2. DecodeInv /\ DecodeTypes /\ [DecodeNext]_decodeVars => DecodeTypes'
    BY TypesKept
<1>3. DecodeInv /\ DecodeTypes => DecodeTypeOK
    <2>1. SUFFICES ASSUME DecodeInv, DecodeTypes PROVE DecodeTypeOK
        OBVIOUS
    <2>2. JsmnTypeOK
        BY <2>1 DEF DecodeInv, ReadInv, JsmnInv, TokensSay, TokenRecord, JsmnTypeOK
    <2>3. /\ pc \in {"parse", "pairs", "callback", "done", "undefined"}
          /\ \A f \in DecodeFields : IsArray(tempValue[f]) /\ IsArray(buffer[f])
        BY <2>1 DEF DecodeInv, MemInv
    <2>. QED
        BY <2>1, <2>2, <2>3 DEF DecodeTypeOK, DecodeTypes, CommandWords
<1>. QED
    BY <1>1, <1>2, <1>3, DecodeHolds, PTL DEF DecodeSpec

-----------------------------------------------------------------------------
(***************************************************************************)
(* Speeds.                                                                 *)
(***************************************************************************)

\* A text that starts with a digit is no command with letters.
LEMMA DigitCommand ==
    ASSUME NEW c \in Commands, c.prefix[1] \in DOMAIN DigitOf
    PROVE  c.type = 10
<1>. DEFINE D == DOMAIN DigitOf
<1>1. "i" \notin D /\ "s" \notin D /\ "g" \notin D /\ "e" \notin D
    BY DEF DigitOf
<1>2. Marked(c.prefix, c.type) /\ c.prefix[1] \in D
    BY Marks
<1>. HIDE DEF D
<1>. QED
    BY <1>1, <1>2, Zenon DEF Marked

\* The bytes of the word for the motors, for speeds of any size.
THEOREM SpeedsKeepToTheirBytes == DecodeSpec => []SpeedsInTheirBytes
<1>1. ASSUME DecodeInv, Understood, NEW n \in Named("Body"), Named("Body") = {n},
             IsSpeeds(ValueOf(n)), NEW w \in outcome.word3
      PROVE  /\ w.val \div 65536 = SpeedAt(ValueOf(n), 1)
             /\ (w.val \div 256) % 256 = SpeedAt(ValueOf(n), 4)
             /\ w.val % 256 = SpeedAt(ValueOf(n), 7)
    <2>. DEFINE body == buffer["Body"]
                v == ValueOf(n)
    <2>1. outcome.word3 = {Word3(d, body) : d \in KnownIn(body)}
        BY <1>1, FlatRead DEF DecodeInv, CallInv
    <2>2. "Body" \in DecodeFields
        BY DEF DecodeFields
    <2>3. /\ Fits(v) /\ IsArray(body) /\ Len(v) = 9 /\ IsNumber(v)
          /\ \A k \in 1..BUF : k <= Len(v) => body[k] = v[k]
        BY <1>1, <2>2, FieldTaken DEF IsSpeeds
    <2>. HIDE DEF body, v
    <2>4. body \in Seq({body[k] : k \in 1..BUF}) /\ Len(body) = BUF
        BY <2>3, MemSeq
    <2>5. body[1] \in DOMAIN DigitOf
        <3>1. 1 \in 1..BUF /\ 1 <= Len(v) /\ 1 \in DOMAIN v
            BY <2>3, FitsSeq, DecodeAssumption
        <3>. QED
            BY <2>3, <3>1 DEF IsNumber
    <2>6. PICK d \in Commands : StartsWith(body, d.prefix) /\ w = Word3(d, body)
        BY <1>1, <2>1 DEF KnownIn
    <2>7. d.type = 10
        <3>1. Len(d.prefix) \in 1..5
            BY CommandSpelt DEF Spelt
        <3>2. \A k \in 1..Len(d.prefix) : body[k] = d.prefix[k]
            BY <2>4, <2>6, StartsAs
        <3>3. d.prefix[1] = body[1]
            BY <3>1, <3>2
        <3>. QED
            BY <2>5, <3>3, DigitCommand
    <2>8. w.val = SpeedVal(body)
        BY <2>6, <2>7 DEF Word3, JsonWord, Word
    <2>9. \A a \in {1, 4, 7} : SpeedAt(body, a) = SpeedAt(v, a)
        BY <2>3, SameSpeeds
    <2>10. /\ w.val \div 65536 = SpeedAt(body, 1)
           /\ (w.val \div 256) % 256 = SpeedAt(body, 4)
           /\ w.val % 256 = SpeedAt(body, 7)
        BY <2>3, <2>8, SpeedWord DEF BytesOf
    <2>. QED
        BY <2>9, <2>10 DEF v
<1>2. DecodeInv => SpeedsInTheirBytes
    BY <1>1 DEF SpeedsInTheirBytes, SpeedAt
<1>. QED
    BY <1>2, DecodeHolds, PTL

-----------------------------------------------------------------------------
(***************************************************************************)
(* Names and their values.                                                 *)
(***************************************************************************)

\* A message that is flat so far has found room for all its tokens while jsmn reads on,
\* and so has one that is complete: its last brace would not have been read otherwise.
FitsInv ==
    /\ \A m \in Nat, r \in 0..3 :
          FlatSoFar /\ Len(js) = 4 * m + r /\ result = RUNNING => Count(m, r) <= NUM_TOKENS
    /\ \A m \in Nat : Flat /\ Len(js) = 4 * m + 1 => 2 * m + 1 <= NUM_TOKENS

LEMMA FitsLexeme ==
    ASSUME JsmnInv, FlatInv, FitsInv, NEW x \in Lexemes, ParseLexeme(x)
    PROVE  FitsInv'
<1>. DEFINE L == Len(js)
            K == Len(js')
<1>0. result = RUNNING /\ js \in Seq(Lexemes) /\ js' = Append(js, x)
    BY DEF JsmnInv, ParseLexeme, OpenBracket, CloseBracket, Scalar, Colon, Comma, Refuse, Read
<1>a. /\ L \in Nat /\ K = L + 1 /\ js'[L + 1] = x
      /\ \A k \in 1..L : js'[k] = js[k]
    BY <1>0, LexemeRead
<1>b. FlatSoFar' => js'[1].kind = "{" /\ \A k \in 2..K : InPlace(js', k)
    BY DEF FlatSoFar
<1>c. L >= 1 /\ js[1].kind = "{" /\ (\A k \in 2..L : InPlace(js, k)) => FlatSoFar
    BY DEF FlatSoFar
<1>d. \A k \in 1..L : InPlace(js', k) => InPlace(js, k)
    BY <1>0, PlacesStay
<1>e. \A m \in Nat, r \in 0..3 :
         FlatSoFar /\ L = 4 * m + r => Count(m, r) <= NUM_TOKENS /\ Len(tokens) = Count(m, r)
    <2>1. \A m \in Nat, r \in 0..3 : FlatSoFar /\ L = 4 * m + r => Count(m, r) <= NUM_TOKENS
        BY <1>0 DEF FitsInv
    <2>2. \A m \in Nat, r \in 0..3 :
             FlatSoFar /\ L = 4 * m + r /\ Count(m, r) <= NUM_TOKENS => FieldsOpen(m, r)
        BY DEF FlatInv
    <2>. QED
        BY <2>1, <2>2 DEF FieldsOpen, Fields
<1>f. Flat' => /\ K >= 5 /\ js'[1].kind = "{" /\ \A k \in 2..(K - 1) : InPlace(js', k)
    BY FlatPlaces
<1>g. x.kind \in Scalars /\ result' = RUNNING => Len(tokens) + 1 <= NUM_TOKENS
    <2>1. x.kind \in Scalars => Scalar(x, x.kind)
        BY DEF ParseLexeme, Scalars
    <2>2. Scalar(x, x.kind) /\ result' = RUNNING => ~Full
        BY DEF Scalar, Fail, RUNNING, JSMN_ERROR_NOMEM
    <2>3. Len(tokens) \in Nat /\ NUM_TOKENS \in Nat
        BY TokensAssumption DEF JsmnInv, TokensSay
    <2>4. ~Full => Len(tokens) + 1 <= NUM_TOKENS
        BY <2>3 DEF Full
    <2>. QED
        BY <2>1, <2>2, <2>4
<1>h. NUM_TOKENS \in Nat /\ NUM_TOKENS >= 1
    BY TokensAssumption
<1>. HIDE DEF L, K
<1>1. ASSUME L >= 1, js'[1].kind = "{", \A k \in 2..L : InPlace(js', k)
      PROVE  FlatSoFar
    <2>0. L \in Nat /\ L >= 1
        BY <1>a, <1>1, Zenon
    <2>1. 1 \in 1..L /\ \A k \in 2..L : k \in 1..L
        BY <2>0
    <2>2. js[1].kind = "{" /\ \A k \in 2..L : InPlace(js, k)
        BY <1>a, <1>d, <1>1, <2>1
    <2>. QED
        BY <1>c, <1>1, <2>2
<1>2. ASSUME NEW m \in Nat, NEW r \in 0..3, FlatSoFar', K = 4 * m + r, result' = RUNNING
      PROVE  Count(m, r) <= NUM_TOKENS
    <2>1. CASE L = 0
        <3>1. m = 0 /\ r = 1
            BY <1>a, <1>2, <2>1
        <3>. QED
            BY <1>h, <3>1 DEF Count
    <2>2. CASE L # 0
        <3>1. L >= 1 /\ L + 1 \in 2..K /\ \A k \in 2..L : k \in 2..K
            BY <1>a, <2>2
        <3>2. FlatSoFar /\ InPlace(js', L + 1) /\ js'[L + 1] = x
            BY <1>a, <1>b, <1>1, <1>2, <3>1
        <3>3. CASE r = 0
            <4>1. m - 1 \in Nat /\ L = 4 * (m - 1) + 3 /\ L + 1 = 4 * m
                BY <1>a, <1>2, <3>3
            <4>2. x.kind \in Scalars
                BY <3>2, <4>1, PlaceKinds
            <4>. DEFINE n == m - 1
            <4>3. n \in Nat /\ L = 4 * n + 3 /\ 3 \in 0..3 /\ n + 1 = m
                BY <4>1
            <4>. HIDE DEF n
            <4>4. Len(tokens) = Count(n, 3)
                BY <1>e, <3>2, <4>3
            <4>5. Count(n, 3) = 2 * n + 2 /\ Count(m, 0) = 2 * m + 1
                BY DEF Count
            <4>6. Len(tokens) + 1 <= NUM_TOKENS
                BY <1>g, <1>2, <4>2
            <4>. QED
                BY <3>3, <4>3, <4>4, <4>5, <4>6
        <3>4. CASE r = 1
            <4>1. L = 4 * m + 0 /\ 0 \in 0..3
                BY <1>a, <1>2, <3>4
            <4>2. Count(m, 0) <= NUM_TOKENS
                BY <1>e, <3>2, <4>1
            <4>. QED
                BY <3>4, <4>2 DEF Count
        <3>5. CASE r = 2
            <4>1. L = 4 * m + 1 /\ 1 \in 0..3 /\ L + 1 = 4 * m + 2
                BY <1>a, <1>2, <3>5
            <4>2. x.kind \in Scalars
                BY <3>2, <4>1, PlaceKinds DEF Scalars
            <4>3. Len(tokens) = Count(m, 1)
                BY <1>e, <3>2, <4>1
            <4>4. Count(m, 1) = 2 * m + 1 /\ Count(m, 2) = 2 * m + 2
                BY DEF Count
            <4>5. Len(tokens) + 1 <= NUM_TOKENS
                BY <1>g, <1>2, <4>2
            <4>. QED
                BY <3>5, <4>3, <4>4, <4>5
        <3>6. CASE r = 3
            <4>1. L = 4 * m + 2 /\ 2 \in 0..3
                BY <1>a, <1>2, <3>6
            <4>2. Count(m, 2) <= NUM_TOKENS
                BY <1>e, <3>2, <4>1
            <4>. QED
                BY <3>6, <4>2 DEF Count
        <3>. QED
            BY <3>3, <3>4, <3>5, <3>6
    <2>. QED
        BY <2>1, <2>2
<1>3. ASSUME NEW m \in Nat, Flat', K = 4 * m + 1
      PROVE  2 * m + 1 <= NUM_TOKENS
    <2>0. L \in Nat /\ K = L + 1 /\ K >= 5
        BY <1>a, <1>f, <1>3, Zenon
    <2>1. L >= 1 /\ L = 4 * m + 0 /\ 0 \in 0..3 /\ K - 1 = L
        BY <1>3, <2>0
    <2>2. FlatSoFar
        BY <1>1, <1>f, <1>3, <2>1
    <2>3. Count(m, 0) <= NUM_TOKENS
        BY <1>e, <2>1, <2>2
    <2>. QED
        BY <2>3 DEF Count
<1>. QED
    BY <1>2, <1>3 DEF FitsInv, K, Count

LEMMA FitsKept ==
    ASSUME DecodeInv, FitsInv, [DecodeNext]_decodeVars
    PROVE  FitsInv'
<1>1. JsmnInv /\ FlatInv
    BY DEF DecodeInv, ReadInv
<1>2. CASE UNCHANGED js /\ (UNCHANGED result \/ EndOfMessage)
    <2>1. (Flat' <=> Flat) /\ (FlatSoFar' <=> FlatSoFar) /\ js' = js
        BY <1>2 DEF Flat, FlatSoFar, InPlace
    <2>2. result' = RUNNING => result = RUNNING
        BY <1>2 DEF EndOfMessage
    <2>. QED
        BY <2>1, <2>2 DEF FitsInv, Count
<1>3. CASE Parse
    <2>1. CASE EndOfMessage
        BY <1>2, <2>1 DEF EndOfMessage
    <2>. QED
        BY <1>1, <1>3, <2>1, FitsLexeme DEF Parse
<1>4. CASE TakeTokens \/ TakePair \/ RunPast \/ NoPairLeft \/ Callback \/ UNCHANGED decodeVars
    <2>1. UNCHANGED js /\ UNCHANGED result
        BY <1>4 DEF TakeTokens, TakePair, RunPast, NoPairLeft, Callback, decodeVars, jsmnVars
    <2>. QED
        BY <1>2, <2>1
<1>5. CASE NextMessage
    <2>1. ~FlatSoFar' /\ ~Flat'
        BY <1>5 DEF NextMessage, JsmnReset, FlatSoFar, Flat
    <2>. QED
        BY <2>1 DEF FitsInv
<1>. QED
    BY <1>3, <1>4, <1>5 DEF DecodeNext

\* The loop of jsonParser_MQTT over a flat message of any length: it comes to the names only
\* and finds a value after each of them, so that it never uses a token that jsmn has not filled.
THEOREM ValuesAreThere == DecodeSpec => []ValueIsThere
<1>1. DecodeInit => FitsInv
    <2>1. DecodeInit => ~FlatSoFar /\ ~Flat
        BY NothingFlat DEF DecodeInit, JsmnInit
    <2>. QED
        BY <2>1 DEF FitsInv
<1>2. DecodeInv /\ FitsInv /\ [DecodeNext]_decodeVars => FitsInv'
    BY FitsKept
<1>3. ASSUME DecodeInv, FitsInv, pc = "pairs", Flat, i <= result
      PROVE  i < result
    <2>. DEFINE L == Len(js)
                m == L \div 4
    <2>1. L \in Nat
        BY <1>3, LenProperties DEF DecodeInv, ReadInv, JsmnInv
    <2>2. L % 4 = 1
        BY <1>3 DEF Flat
    <2>3. m \in Nat /\ L = 4 * m + 1
        <3>1. \A k \in Nat : k % 4 = 1 => k \div 4 \in Nat /\ k = 4 * (k \div 4) + 1
            OBVIOUS
        <3>. QED
            BY <2>1, <2>2, <3>1
    <2>. HIDE DEF m
    <2>4. 2 * m + 1 <= NUM_TOKENS
        BY <1>3, <2>3 DEF FitsInv
    <2>5. FieldsClosed(m) /\ \E p \in 0..m : i = 2 * p + 2
        BY <1>3, <2>3, <2>4 DEF DecodeInv, FlatInv, PairInv
    <2>6. PICK p \in 0..m : i = 2 * p + 2
        BY <2>5
    <2>7. result = RUNNING \/ result = 2 * m + 1
        BY <2>5 DEF FieldsClosed
    <2>8. result = 2 * m + 1
        BY <1>3, <2>3, <2>6, <2>7 DEF RUNNING
    <2>. QED
        BY <1>3, <2>3, <2>6, <2>8
<1>4. DecodeInv /\ FitsInv => ValueIsThere
    BY <1>3 DEF ValueIsThere
<1>. QED
    BY <1>1, <1>2, <1>4, DecodeHolds, PTL DEF DecodeSpec
=============================================================================
