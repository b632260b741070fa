------------------------------ MODULE Nesting ------------------------------
(***************************************************************************)
(* What a reader of messages promises about brackets, whatever stands      *)
(* between them: a closing bracket ends the innermost one that is open and *)
(* has to be of its kind, and a message is whole when none is left open.   *)
(* A message may be refused for other reasons at any time.                 *)
(***************************************************************************)
EXTENDS Sequences, Integers

CONSTANT Kinds      \* the kinds of brackets

VARIABLES
    brackets,       \* the brackets read so far
    stack,          \* the kinds of the open ones, the innermost last
    verdict         \* "reading", "whole", "unfinished" or "refused"

Bracket(k, opens) == [kind |-> k, opens |-> opens]

Take(b) == brackets' = Append(brackets, b)

Init == brackets = << >> /\ stack = << >> /\ verdict = "reading"

Open(k) ==
    /\ UNCHANGED verdict
    /\ stack' = Append(stack, k)
    /\ Take(Bracket(k, TRUE))

Close(k) ==
    /\ UNCHANGED verdict
    /\ stack # << >> /\ stack[Len(stack)] = k
    /\ stack' = SubSeq(stack, 1, Len(stack) - 1)
    /\ Take(Bracket(k, FALSE))

End ==
    /\ verdict' = IF stack = << >> THEN "whole" ELSE "unfinished"
    /\ UNCHANGED <<brackets, stack>>

\* It may be a bracket that is refused.
Refuse ==
    /\ verdict' = "refused"
    /\ UNCHANGED brackets \/ \E k \in Kinds, opens \in BOOLEAN : Take(Bracket(k, opens))
    /\ UNCHANGED stack

Read ==
    /\ verdict = "reading"
    /\ (\E k \in Kinds : Open(k) \/ Close(k)) \/ End \/ Refuse

NextMessage ==
    /\ verdict # "reading"
    /\ brackets' = << >> /\ stack' = << >> /\ verdict' = "reading"

Spec == Init /\ [][Read \/ NextMessage]_<<brackets, stack, verdict>>
=============================================================================
