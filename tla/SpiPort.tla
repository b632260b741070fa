------------------------------ MODULE SpiPort ------------------------------
(***************************************************************************)
(* What the SPI bus of the rover promises to the controller: a port that   *)
(* serves one exchange at a time.  An exchange configures one encoder chip *)
(* (init) or reads its counter (read); every read that ends hands queue 1  *)
(* exactly one count, the count of the chip that was read.  The count may  *)
(* be lost only because queue 1 has no room for it.                        *)
(*                                                                         *)
(* The implementation, with its semaphore, its shared transaction record   *)
(* and its chip-select lines, is the module SpiBus.                        *)
(***************************************************************************)
EXTENDS CustomQueue

Chips == 1..3

Exchange == [kind : {"init", "read"}, chip : Chips]

Idle == [kind |-> "none", chip |-> 0]

VARIABLES
    port,   \* the exchange in progress, or Idle
    q1      \* the encoder counts waiting in queue 1, by the chip they come from

portVars == <<port, q1>>

PortInit == port = Idle /\ q1 = << >>

Start(x) ==
    /\ port = Idle
    /\ port' = x
    /\ UNCHANGED q1

Finish ==
    /\ port # Idle
    /\ port' = Idle
    /\ q1' = IF port.kind = "read" THEN SendFromISR(q1, port.chip) ELSE q1

Take ==
    /\ q1 # << >>
    /\ q1' = Tail(q1)
    /\ UNCHANGED port

PortNext == (\E x \in Exchange : Start(x)) \/ Finish \/ Take

PortSpec == PortInit /\ [][PortNext]_portVars
=============================================================================
