----------------------------- MODULE MotorUart -----------------------------
(***************************************************************************)
(* How the rover writes down motor speeds: the three speed bytes packed    *)
(* in a word of queue 2 (threadFxn0 packs them, threadFxn1 unpacks them)   *)
(* and the frames that motor_uart.c sends to the motor controller.         *)
(*                                                                         *)
(* A speed byte is 127 for a motor at rest, more for one direction and     *)
(* less for the other.                                                     *)
(***************************************************************************)
EXTENDS Integers, Sequences

Byte == 0..255

Wheels == 1..3

\* motorMSG = (((speed1) << 8) + speed2 << 8) + speed3
Pack(speed) == (speed[1] * 256 + speed[2]) * 256 + speed[3]

\* The conversions to uint8_t in threadFxn1 keep the low byte.
Unpack(motorVal) ==
    [w \in Wheels |-> CASE w = 1 -> (motorVal \div 65536) % 256
                        [] w = 2 -> (motorVal \div 256) % 256
                        [] w = 3 -> motorVal % 256]

\* The controller's command (the direction) and speed of a speed byte.
Command(speed) == IF speed > 127 THEN 1 ELSE 0

\* Fault: the speeds of the two directions are counted from the same byte.
Magnitude_OneZero(speed) == IF speed > 127 THEN speed - 127 ELSE 127 - speed

Magnitude(speed) ==
    CASE speed > 127 -> speed - 128
      [] speed < 127 -> 127 - speed
      [] OTHER       -> 0

MotorCommand(address, command, speed) ==
    <<address, command, speed, (address + command + speed) % 128>>

Address(w) == 127 + w

\* The twelve bytes of allMotorOperations.
AllMotorOperations(speed) ==
    LET Frame(w) == MotorCommand(Address(w), Command(speed[w]), Magnitude(speed[w]))
    IN  Frame(1) \o Frame(2) \o Frame(3)
=============================================================================
