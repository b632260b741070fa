-------------------------- MODULE MCMessageDecode --------------------------
(***************************************************************************)
(* Messages as the other teams write them, with slips.  The sender goes    *)
(* through the places of a flat message; at a slip it writes anything in   *)
(* one place and may then still want to fill it, leaves a place empty, or  *)
(* ends the message.                                                       *)
(***************************************************************************)
EXTENDS MessageDecode

CONSTANT MaxSlips       \* in all messages together (bound of the model)

VARIABLES
    want,       \* the place in the message that the sender fills next
    slips

Punct(kind) == Lexeme(kind, <<kind>>)
Str(text)   == Lexeme("string", text)

Numbers == {Lexeme("primitive", <<"1">>), Str(<<"5", "7">>)}

Bodies ==
    {Str(<<"s", "t", "o", "p">>), Str(<<"s", "p", "i", "n">>), Str(<<"s", "p", "i", "n", "l">>),
     Str(<<"2", "5", "5", "0", "0", "0", "3", "0", "0">>)}

ValuesFor(name) ==
    CASE name = <<"MSGID">> -> Numbers
      [] name = <<"Body">>  -> Bodies
      [] OTHER              -> {Str(<<"R">>)}

Names == {Str(<<n>>) : n \in {"MSGID", "Body", "Sender"}}

\* What a slip may be.
Slips ==
    {Punct(k) : k \in {"{", "}", "[", "]", ":", ",", "bad", "cut"}}
    \cup {Str(<<"MSGID">>), Str(<<"Body">>), Str(<<"s", "t", "o", "p">>), Lexeme("primitive", <<"1">>),
            Str([k \in 1..BUF |-> "s"])}

\* All that the sender writes, meant or not.
MCLexemes == Slips \cup Names \cup Numbers \cup Bodies \cup {Str(<<"R">>)}

\* A text of the callback's own, and no NUL at all.
MCGarbage == {Filled(<<"s", "t", "o", "p", "9">>), [k \in 1..BUF |-> "9"]}

MCStray == {<< >>, <<"s", "t", "o", "p">>}

Places == [open |-> "name", name |-> "colon", colon |-> "value", value |-> "more",
           more |-> "name", end |-> "end"]

\* What the sender means to write.
Meant ==
    CASE want = "open"  -> {Punct("{")}
      [] want = "name"  -> Names
      [] want = "colon" -> {Punct(":")}
      [] want = "value" -> IF Len(js) >= 2 THEN ValuesFor(js[Len(js) - 1].text) ELSE Numbers
      [] want = "more"  -> {Punct(","), Punct("}")}
      [] want = "end"   -> {}

AsMeant ==
    /\ \/ \E x \in Meant :
             /\ ParseLexeme(x)
             /\ want' = IF x.kind = "}" THEN "end" ELSE Places[want]
       \/ want = "end" /\ EndOfMessage /\ UNCHANGED want
    /\ UNCHANGED slips

Slip ==
    /\ slips < MaxSlips /\ slips' = slips + 1
    /\ \/ \E x \in Slips : ParseLexeme(x) /\ want' \in {want, Places[want]}
       \/ result = RUNNING /\ want' = Places[want] /\ UNCHANGED jsmnVars
       \/ EndOfMessage /\ UNCHANGED want

MCParse ==
    /\ pc = "parse"
    /\ AsMeant \/ Slip
    /\ UNCHANGED <<pc, i, tempValue, buffer, unsaid, outcome, messages>>

MCNext ==
    \/ MCParse
    \/ (TakeTokens \/ TakePair \/ RunPast \/ NoPairLeft \/ Callback) /\ UNCHANGED <<want, slips>>
    \/ NextMessage /\ want' = "open" /\ UNCHANGED slips

MCInit == DecodeInit /\ want = "open" /\ slips = 0

MCSpec == MCInit /\ [][MCNext]_<<decodeVars, want, slips>>
=============================================================================
