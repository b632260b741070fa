----------------------------- MODULE MotorBank -----------------------------
(***************************************************************************)
(* What threadFxn1 and motor_uart.c promise to the controller: the three   *)
(* motors carry out its words in order, wheel by wheel.  A motor's speed   *)
(* is a number from -127 to 127, positive in the direction of the large    *)
(* speed bytes; 127 and 128 both mean rest.                                *)
(***************************************************************************)
EXTENDS Integers, Sequences

CONSTANT SpeedWords     \* the triples of speed bytes that are sent

Wheels == 1..3

VARIABLES
    orders,     \* the orders <<wheel, speed>> not yet carried out
    driven      \* the speed of each wheel

bankVars == <<orders, driven>>

SpeedOf(byte) == IF byte > 127 THEN byte - 128 ELSE byte - 127

BankInit == orders = << >> /\ driven = [w \in Wheels |-> 0]

Order(speeds) ==
    /\ orders' = orders \o [w \in Wheels |-> <<w, SpeedOf(speeds[w])>>]
    /\ UNCHANGED driven

CarryOut ==
    /\ orders # << >>
    /\ driven' = [driven EXCEPT ![Head(orders)[1]] = Head(orders)[2]]
    /\ orders' = Tail(orders)

BankNext == (\E s \in SpeedWords : Order(s)) \/ CarryOut

BankSpec == BankInit /\ [][BankNext]_bankVars
=============================================================================
