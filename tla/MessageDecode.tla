---------------------------- MODULE MessageDecode ----------------------------
(***************************************************************************)
(* From the text of a message to a number and a command: jsonParser_MQTT   *)
(* and what MqttClientCallback does with its result.                       *)
(*                                                                         *)
(* Each message is read by Jsmn, then the tokens are taken two by two, the *)
(* first as a name and the second as its value, then the callback looks at *)
(* the two buffers it needs, the number and the body.                      *)
(*                                                                         *)
(* The value of a field is copied without an end into an array on the      *)
(* stack that nobody has set, and read from there up to the first NUL.     *)
(* What the array holds before the first message is unknown, and it need   *)
(* hold no NUL; before each of the next ones it holds what the last call   *)
(* has left, unless another function has used that part of the stack       *)
(* meanwhile.  A copy that finds no NUL, or that is longer than the array, *)
(* runs past the array or the buffer: the run is then undefined and the    *)
(* module says no more of it (RunPast).                                    *)
(*                                                                         *)
(* A text is a sequence of characters; the name of a field counts as one.  *)
(* The arrays and buffers of the other three fields are written and never  *)
(* read by the rover; they are left out, and a copy through them may       *)
(* always run past.                                                        *)
(***************************************************************************)
EXTENDS Jsmn, CustomQueue

CONSTANTS
    Lexemes,        \* what messages are made of
    Garbage,        \* what other functions leave in an array on the stack
    Stray,          \* texts that a token jsmn has not filled may stand for
    BUF,            \* the length of an array or a buffer (64)
    MaxMessages     \* bound of the model

NUL == "nul"

DecodeFields == {"MSGID", "Body"}

\* A message ends at its first NUL, so its texts hold none.
IsText(text) == text \in Seq({text[k] : k \in DOMAIN text} \ {NUL})

\* An array holds BUF characters, of which none need be a NUL.
IsArray(mem) == mem = [k \in 1..BUF |-> mem[k]]

ASSUME DecodeAssumption ==
    /\ Garbage # {} /\ \A g \in Garbage : IsArray(g)
    /\ \A x \in Lexemes : IsText(x.text)
    /\ \A v \in Stray : Len(v) \in Nat
    /\ BUF \in Nat /\ BUF >= 10 /\ MaxMessages \in Nat \ {0}

VARIABLES
    pc,             \* "parse", "pairs", "callback", "done" or "undefined"
    i,              \* the next token of jsonParser_MQTT
    tempValue,      \* its arrays for the two fields
    buffer,         \* the callback's buffers for them
    unsaid,         \* history: fields whose value had text that was not in the message
    outcome,        \* the word for queue 6, and the one or none for queue 3
    messages

decodeVars == <<jsmnVars, pc, i, tempValue, buffer, unsaid, outcome, messages>>

Filled(text) == [k \in 1..BUF |-> IF k <= Len(text) THEN text[k] ELSE NUL]

Nothing == [word6 |-> CloudWord(0, 4), word3 |-> {}]

DecodeInit ==
    /\ JsmnInit
    /\ pc = "parse" /\ i = 2
    /\ tempValue \in [DecodeFields -> Garbage]
    /\ buffer = [f \in DecodeFields |-> Filled(<< >>)]
    /\ unsaid = {}
    /\ outcome = Nothing
    /\ messages = 1

-----------------------------------------------------------------------------
(***************************************************************************)
(* The C library, as far as it is used.                                    *)
(***************************************************************************)

Memcpy(mem, text) == [k \in DOMAIN mem |-> IF k <= Len(text) THEN text[k] ELSE mem[k]]

\* sprintf(dest, "%s", source): up to and with the first NUL.
Sprintf(dest, source) ==
    [k \in DOMAIN dest |-> IF \E j \in 1..(k - 1) : source[j] = NUL THEN dest[k] ELSE source[k]]

DigitOf == [c \in {"0", "1", "2", "3", "4", "5", "6", "7", "8", "9"} |->
              CASE c = "0" -> 0 [] c = "1" -> 1 [] c = "2" -> 2 [] c = "3" -> 3 [] c = "4" -> 4
                [] c = "5" -> 5 [] c = "6" -> 6 [] c = "7" -> 7 [] c = "8" -> 8 [] c = "9" -> 9]

\* The characters before the first one that is no digit.
Digits(mem) == CHOOSE n \in 0..Len(mem) :
                  /\ \A k \in 1..n : mem[k] \in DOMAIN DigitOf
                  /\ n = Len(mem) \/ mem[n + 1] \notin DOMAIN DigitOf

Number(text) ==
    LET value[n \in 0..Len(text)] ==
            IF n = 0 THEN 0 ELSE 10 * value[n - 1] + DigitOf[text[n]]
    IN  value[Len(text)]

\* atoi of a text without sign and space.
Atoi(mem) == Number(SubSeq(mem, 1, Digits(mem)))

-----------------------------------------------------------------------------
(***************************************************************************)
(* jsonParser_MQTT.                                                        *)
(***************************************************************************)
Parse ==
    /\ pc = "parse"
    /\ EndOfMessage \/ \E x \in Lexemes : ParseLexeme(x)
    /\ UNCHANGED <<pc, i, tempValue, buffer, unsaid, outcome, messages>>

\* A message that is no object leaves every buffer empty.
TakeTokens ==
    /\ pc = "parse" /\ result # RUNNING
    /\ pc' = IF result < 1 \/ (result >= 1 /\ tokens[1].type # "object")
             THEN "callback" ELSE "pairs"
    /\ UNCHANGED <<jsmnVars, i, tempValue, buffer, unsaid, outcome, messages>>

\* Fault: a string starts at its quotation mark.
TextOf_WithQuote(t) == <<"quote">> \o js[t.start].text

\* The text of a token, of a bracket and what it encloses only as far as it matters.
TextOf(t) ==
    IF t.type \in Containers
    THEN [k \in 1..(t.end - t.start + 1) |-> js[t.start].kind]
    ELSE js[t.start].text

Jsoneq(t, name) == t.type = "string" /\ TextOf(t) = <<name>>

\* The text after a name; a token that jsmn has not filled stands for any.
Values == IF i < result THEN {TextOf(tokens[i + 1])} ELSE Stray

\* memcpy does not write past the array, and sprintf finds a NUL in it.
InBounds(mem, text) ==
    Len(text) <= BUF /\ \E k \in 1..BUF : Memcpy(mem, text)[k] = NUL

\* The array holds something after its first n characters.
Beyond(mem, n) == \E k \in DOMAIN mem : k > n /\ mem[k] # NUL

\* Fault: the value is looked at as a name, too.
Past_Name(k) == k + 1

\* The token after a name and its value.
Past(k) == k + 2

\* One turn of its loop: every branch takes the next token, too.
TakePair ==
    /\ pc = "pairs" /\ i <= result
    /\ \E v \in Values :
          /\ \A f \in DecodeFields :
                Jsoneq(tokens[i], f) => InBounds(tempValue[f], v)
          /\ tempValue' = [f \in DecodeFields |->
                IF Jsoneq(tokens[i], f) THEN Memcpy(tempValue[f], v) ELSE tempValue[f]]
          /\ unsaid' = unsaid \cup {f \in DecodeFields :
                /\ Jsoneq(tokens[i], f)
                /\ i = result \/ Beyond(tempValue[f], Len(v))}
    /\ buffer' = [f \in DecodeFields |->
          IF Jsoneq(tokens[i], f) THEN Sprintf(buffer[f], tempValue'[f]) ELSE buffer[f]]
    /\ i' = Past(i)
    /\ UNCHANGED <<jsmnVars, pc, outcome, messages>>

\* The copy of a value goes out of bounds: of one that is too long, or into an array that
\* held no NUL behind it; with a token that jsmn has not filled, or through one of the
\* arrays that are left out, this may always happen.
RunPast ==
    /\ pc = "pairs" /\ i <= result
    /\ \/ i = result
       \/ \A f \in DecodeFields : ~Jsoneq(tokens[i], f)
       \/ \E f \in DecodeFields, v \in Values :
             Jsoneq(tokens[i], f) /\ ~InBounds(tempValue[f], v)
    /\ pc' = "undefined"
    /\ UNCHANGED <<jsmnVars, i, tempValue, buffer, unsaid, outcome, messages>>

NoPairLeft ==
    /\ pc = "pairs" /\ i > result
    /\ pc' = "callback"
    /\ UNCHANGED <<jsmnVars, i, tempValue, buffer, unsaid, outcome, messages>>

-----------------------------------------------------------------------------
(***************************************************************************)
(* MqttClientCallback.                                                     *)
(***************************************************************************)
Commands ==
    {[prefix |-> <<"i", "n", "i", "t">>,      type |-> 0],
     [prefix |-> <<"s", "p", "i", "1">>,      type |-> 1],
     [prefix |-> <<"s", "p", "i", "2">>,      type |-> 2],
     [prefix |-> <<"s", "p", "i", "3">>,      type |-> 3],
     [prefix |-> <<"g", "o", " ", "f">>,      type |-> 4],
     [prefix |-> <<"g", "o", " ", "b">>,      type |-> 6],
     [prefix |-> <<"s", "t", "o", "p">>,      type |-> 5],
     [prefix |-> <<"s", "p", "i", "n", "l">>, type |-> 7],
     [prefix |-> <<"s", "p", "i", "n", "r">>, type |-> 8],
     [prefix |-> <<"e", "r", "r", "o", "r">>, type |-> 9],
     [prefix |-> <<"0">>, type |-> 10], [prefix |-> <<"1">>, type |-> 10],
     [prefix |-> <<"2">>, type |-> 10]}

\* text may be shorter than the prefix.
StartsWith(text, prefix) ==
    Len(prefix) <= Len(text) /\ SubSeq(text, 1, Len(prefix)) = prefix

\* Fault: only two of the digits are taken.
SpeedAt_TwoDigits(body, k) == Atoi(SubSeq(body, k, k + 1)) % 256

\* Fault: the number is kept as an int.
SpeedAt_Int(body, k) == Atoi(SubSeq(body, k, k + 2))

\* The three characters from the k-th on, as a number in a byte.
SpeedAt(body, k) == Atoi(SubSeq(body, k, k + 2)) % 256

SpeedVal(body) == 65536 * SpeedAt(body, 1) + 256 * SpeedAt(body, 4) + SpeedAt(body, 7)

Word3(c, body) == JsonWord(IF c.type = 10 THEN SpeedVal(body) ELSE 0, c.type)

Callback ==
    /\ pc = "callback"
    /\ LET body  == buffer["Body"]
           known == {c \in Commands : StartsWith(body, c.prefix)}
       IN  outcome' = [word6 |-> CloudWord(Atoi(buffer["MSGID"]), 4),
                       word3 |-> {Word3(c, body) : c \in known}]
    /\ pc' = "done"
    /\ UNCHANGED <<jsmnVars, i, tempValue, buffer, unsaid, messages>>

\* Fault: the buffers are not cleared for the next message.
NextMessage_KeepBuffers ==
    /\ pc = "done" /\ messages < MaxMessages
    /\ messages' = messages + 1
    /\ JsmnReset
    /\ pc' = "parse" /\ i' = 2 /\ unsaid' = {} /\ outcome' = Nothing
    /\ tempValue' \in [DecodeFields -> Garbage] \cup {tempValue}
    /\ UNCHANGED buffer

NextMessage ==
    /\ pc = "done" /\ messages < MaxMessages
    /\ messages' = messages + 1
    /\ JsmnReset
    /\ pc' = "parse" /\ i' = 2 /\ unsaid' = {} /\ outcome' = Nothing
    /\ tempValue' \in [DecodeFields -> Garbage] \cup {tempValue}
    /\ buffer' = [f \in DecodeFields |-> Filled(<< >>)]

DecodeNext ==
    \/ Parse \/ TakeTokens \/ TakePair \/ RunPast \/ NoPairLeft
    \/ Callback \/ NextMessage

DecodeSpec == DecodeInit /\ [][DecodeNext]_decodeVars

-----------------------------------------------------------------------------
(***************************************************************************)
(* Properties.                                                             *)
(***************************************************************************)
DecodeTypeOK ==
    /\ JsmnTypeOK
    /\ pc \in {"parse", "pairs", "callback", "done", "undefined"}
    /\ i \in 2..(NUM_TOKENS + 2)
    /\ DOMAIN tempValue = DecodeFields /\ DOMAIN buffer = DecodeFields
    /\ \A f \in DecodeFields : IsArray(tempValue[f]) /\ IsArray(buffer[f])
    /\ unsaid \subseteq DecodeFields
    /\ outcome.word6.tag = 5 /\ outcome.word3 \subseteq [tag : 1..11, val : Nat]
    /\ \A w \in outcome.word3 : w.val \div 65536 <= 255
    /\ messages \in 1..MaxMessages

Scalars == {"string", "primitive"}

\* The message is an object of fields with a name and a scalar value each.
Flat ==
    /\ Len(js) >= 5 /\ Len(js) % 4 = 1
    /\ js[1].kind = "{" /\ js[Len(js)].kind = "}"
    /\ \A k \in 2..(Len(js) - 1) :
          /\ k % 4 = 2 => js[k].kind = "string"
          /\ k % 4 = 3 => js[k].kind = ":"
          /\ k % 4 = 0 => js[k].kind \in Scalars
          /\ k % 4 = 1 => js[k].kind = ","

NumFields == Len(js) \div 4

\* The fields of a flat message that have the name f.
Named(f) == {n \in 1..NumFields : js[4 * n - 2].text = <<f>>}

ValueOf(n) == js[4 * n].text

\* The callback is done with a flat message that is not too long for jsmn.
Understood == pc = "done" /\ Flat /\ 2 * NumFields + 1 <= NUM_TOKENS

\* jsmn accepts a flat message, and counts its fields in the object and each value in
\* its name: colon and comma move toksuper from the object to the name and back.
SizesCountFields ==
    Understood =>
        /\ result = 2 * NumFields + 1
        /\ tokens[1].size = NumFields
        /\ \A n \in 1..NumFields : tokens[2 * n].size = 1 /\ tokens[2 * n + 1].size = 0

IsNumber(text) == text # << >> /\ \A k \in DOMAIN text : text[k] \in DOMAIN DigitOf

\* MqttClient is given the number in the MSGID of a flat message, unless the array
\* for it still held a text that was longer.
NumberAsSent ==
    Understood /\ "MSGID" \notin unsaid =>
        \A n \in Named("MSGID") :
            Named("MSGID") = {n} /\ IsNumber(ValueOf(n)) =>
                outcome.word6 = CloudWord(Atoi(ValueOf(n)), 4)

\* Three speeds of three digits.
IsSpeeds(text) == Len(text) = 9 /\ IsNumber(text)

\* A command in the Body of a flat message is the one that is passed on, and with the
\* speeds that were sent, whatever the array held before.
CommandAsSent ==
    Understood =>
        \A n \in Named("Body"), c \in Commands :
            /\ Named("Body") = {n} /\ StartsWith(ValueOf(n), c.prefix)
            /\ c.type = 10 => IsSpeeds(ValueOf(n))
            => outcome.word3 = {Word3(c, ValueOf(n))}

\* A speed that does not fit in its byte starts again at 0, but it disturbs neither of the
\* other two: each byte of the word for the motors comes from its own three digits.
SpeedsInTheirBytes ==
    Understood =>
        \A n \in Named("Body") :
            Named("Body") = {n} /\ IsSpeeds(ValueOf(n)) =>
                LET sent(k) == Atoi(SubSeq(ValueOf(n), k, k + 2)) % 256
                IN  \A w \in outcome.word3 :
                       /\ w.val \div 65536 = sent(1)
                       /\ (w.val \div 256) % 256 = sent(4)
                       /\ w.val % 256 = sent(7)

\* In a flat message every name that the loop comes to has its value after it: the loop,
\* which moves by two tokens whatever it finds, never reads one that jsmn has not filled.
ValueIsThere == pc = "pairs" /\ Flat /\ i <= result => i < result

\* No command is passed on that is not spelt out somewhere in the message, well formed
\* or not, unless the array for the Body still held a text that was longer, or a name
\* came without a value.
OnlyWhatWasSent ==
    pc = "done" /\ "Body" \notin unsaid =>
        \A w \in outcome.word3 :
            \E k \in DOMAIN js, c \in Commands :
                /\ js[k].kind \in Scalars /\ StartsWith(js[k].text, c.prefix)
                /\ w = Word3(c, Filled(js[k].text))
=============================================================================
