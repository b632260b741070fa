---------------------------- MODULE MotorDriver ----------------------------
(***************************************************************************)
(* threadFxn1 and motor_uart.c: a word of queue 2 is unpacked into three   *)
(* speed bytes, and each becomes a frame of four bytes on the UART:        *)
(* address, command, speed, checksum.  The motor controllers listen to the *)
(* same line.  They take their baud rate from the first byte, which        *)
(* Uartinit0 has written, and then read frames; a frame with a wrong       *)
(* checksum or a speed that is no 7-bit number is discarded.               *)
(***************************************************************************)
EXTENDS MotorUart

CONSTANTS
    SpeedBytes,     \* the speed bytes that queue 2 carries
    LineSize        \* how many bytes the UART buffers (bound of the model)

ASSUME MotorAssumption == SpeedBytes \subseteq Byte /\ LineSize \in Nat \ {0}

VARIABLES
    out,            \* what threadFxn1 has left to write of a word
    line,           \* the bytes in the UART
    baud,           \* the controllers know the baud rate
    frame,          \* the bytes of a frame they have received so far
    running         \* the command and speed each motor runs with

vars == <<out, line, baud, frame, running>>

BaudByte == 170

Init ==
    /\ out = << >>
    /\ line = <<BaudByte>>
    /\ baud = FALSE
    /\ frame = << >>
    /\ running = [w \in Wheels |-> <<0, 0>>]

SpeedTriples == [Wheels -> SpeedBytes]

\* threadFxn1 takes a word of queue 2 when it has written the one before.
TakeWord(motorVal) ==
    /\ out = << >>
    /\ out' = AllMotorOperations(Unpack(motorVal))
    /\ UNCHANGED <<line, baud, frame, running>>

\* Fault: the UART in callback mode, where a write does not wait.
LineHasRoom_Always == TRUE

LineHasRoom == Len(line) < LineSize

\* UART_write of one byte, in the driver's blocking mode.
WriteByte ==
    /\ out # << >>
    /\ LineHasRoom
    /\ line' = Append(line, Head(out))
    /\ out' = Tail(out)
    /\ UNCHANGED <<baud, frame, running>>

-----------------------------------------------------------------------------
(***************************************************************************)
(* The motor controllers.                                                  *)
(***************************************************************************)
TakeBaud ==
    /\ ~baud
    /\ line # << >>
    /\ baud' = TRUE
    /\ line' = Tail(line)
    /\ UNCHANGED <<out, frame, running>>

Valid(f) ==
    /\ f[1] \in {Address(w) : w \in Wheels}
    /\ f[3] < 128
    /\ f[4] = (f[1] + f[2] + f[3]) % 128

ReceiveByte ==
    /\ baud
    /\ line # << >>
    /\ line' = Tail(line)
    /\ LET f == Append(frame, Head(line))
       IN  /\ frame' = IF Len(f) = 4 THEN << >> ELSE f
           /\ running' = IF Len(f) = 4 /\ Valid(f)
                           THEN [running EXCEPT ![f[1] - 127] = <<f[2], f[3]>>]
                           ELSE running
    /\ UNCHANGED <<out, baud>>

Next ==
    \/ \E speeds \in SpeedTriples : TakeWord(Pack(speeds))
    \/ WriteByte
    \/ TakeBaud
    \/ ReceiveByte

Spec == Init /\ [][Next]_vars

-----------------------------------------------------------------------------
(***************************************************************************)
(* Properties.                                                             *)
(***************************************************************************)
TypeOK ==
    /\ out \in Seq(Byte) /\ Len(out) <= 12
    /\ line \in Seq(Byte) /\ Len(line) <= LineSize
    /\ baud \in BOOLEAN
    /\ frame \in Seq(Byte) /\ Len(frame) <= 3
    /\ running \in [Wheels -> {0, 1} \X (0..127)]

\* A command and a speed as a signed number: command 1 is forwards.
Signed(command, speed) == IF command = 1 THEN speed ELSE -speed

\* The orders on their way: the frames whose last byte has not arrived.
OrdersUnderway ==
    LET bytes == frame \o (IF baud THEN line ELSE Tail(line)) \o out
    IN  [i \in 1..(Len(bytes) \div 4) |->
            <<bytes[4 * i - 3] - 127, Signed(bytes[4 * i - 2], bytes[4 * i - 1])>>]

\* From the speed bytes of the controller to the motors: every word reaches the
\* three wheels in order, no frame is discarded, and at the ends of the range (0,
\* 127, 128, 255) the command and the 7-bit speed still mean the byte they came
\* from.
Bank == INSTANCE MotorBank
          WITH SpeedWords <- SpeedTriples,
               orders <- OrdersUnderway,
               driven <- [w \in Wheels |-> Signed(running[w][1], running[w][2])]
ImplementsBank == Bank!BankSpec
=============================================================================
