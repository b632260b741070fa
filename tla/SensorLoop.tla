----------------------------- MODULE SensorLoop -----------------------------
(***************************************************************************)
(* How an encoder count finds its wheel.                                   *)
(*                                                                         *)
(* timer_spi puts a tick in queue 1; threadFxn0 takes it and reads encoder *)
(* spicounter; the interrupt at the end of the read puts the count in      *)
(* queue 1, without the number of the encoder; threadFxn0 takes it and     *)
(* gives it to the wheel counter, if the last direction command was not to *)
(* stop.  The two numbers go round separately, and queue 1 is also used by *)
(* threadFxn2, which passes direction commands on and reads an encoder     *)
(* itself when a command spi1, spi2, spi3 says so.                         *)
(*                                                                         *)
(* The bus is the port of SpiPort: one read at a time, answered once, with *)
(* the count of the chip that was read.  The detail of that is in SpiBus.  *)
(***************************************************************************)
EXTENDS CustomQueue

CONSTANT DirectReads    \* the encoders that spi commands name

Chips == 1..3

ASSUME DirectReadsAssumption == DirectReads \subseteq Chips

\* The direction commands: to stop, and the four that move the rover.
STOP     == 0
MOVE     == 1
WifiVals == {STOP, MOVE}

VARIABLES
    q1,             \* queue 1; a count is the number of its encoder
    port,           \* the encoder being read, 0 if none
    asking,         \* the encoder a thread waits to read, 0 if none
    lastWifiVal,    \* the last direction command
    counter,        \* the wheel that gets the next count
    spicounter,     \* the encoder that the next tick reads
    lost,           \* history: a count found queue 1 full
    direct,         \* history: a spi command has been obeyed
    misattributed   \* history: the regulator of a wheel got another wheel's count

vars ==
    <<q1, port, asking, lastWifiVal, counter, spicounter, lost, direct, misattributed>>

Readers == {"threadFxn0", "threadFxn2"}

Init ==
    /\ q1 = << >>
    /\ port = 0
    /\ asking = [t \in Readers |-> 0]
    /\ lastWifiVal = STOP
    /\ counter = 1
    /\ spicounter = 1
    /\ lost = FALSE
    /\ direct = FALSE
    /\ misattributed = FALSE

Rotate(k) == IF k = 3 THEN 1 ELSE k + 1

-----------------------------------------------------------------------------
(***************************************************************************)
(* threadFxn0, when it is not inside spiOP.                                *)
(***************************************************************************)
Take(tag) ==
    /\ asking["threadFxn0"] = 0
    /\ q1 # << >>
    /\ Head(q1).tag = tag
    /\ q1' = Tail(q1)

HandleTick ==
    /\ Take(TimeWord(0).tag)
    /\ asking' = [asking EXCEPT !["threadFxn0"] = spicounter]
    /\ spicounter' = Rotate(spicounter)
    /\ UNCHANGED <<port, lastWifiVal, counter, lost, direct, misattributed>>

Moving == lastWifiVal # STOP

\* While the rover is stopped the count is given to no wheel and the turn passes all
\* the same.
HandleCount ==
    /\ Take(SPIWord(0).tag)
    /\ misattributed' = (misattributed \/ (Moving /\ Head(q1).val # counter))
    /\ counter' = Rotate(counter)
    /\ UNCHANGED <<port, asking, lastWifiVal, spicounter, lost, direct>>

HandleCommand ==
    /\ Take(WIFIWord(0).tag)
    /\ lastWifiVal' = Head(q1).val
    /\ UNCHANGED <<port, asking, counter, spicounter, lost, direct, misattributed>>

-----------------------------------------------------------------------------
(***************************************************************************)
(* threadFxn2: a direction command, a spi command.                         *)
(***************************************************************************)
PassOn(wifiVal) ==
    /\ asking["threadFxn2"] = 0
    /\ HasRoom(q1)
    /\ q1' = Append(q1, WIFIWord(wifiVal))
    /\ UNCHANGED <<port, asking, lastWifiVal, counter, spicounter>>
    /\ UNCHANGED <<lost, direct, misattributed>>

ReadDirectly(chip) ==
    /\ asking["threadFxn2"] = 0
    /\ asking' = [asking EXCEPT !["threadFxn2"] = chip]
    /\ direct' = TRUE
    /\ UNCHANGED <<q1, port, lastWifiVal, counter, spicounter, lost, misattributed>>

\* Fault: a read starts while the bus is at work.
Free_Always == TRUE

Free == port = 0

\* spiOP gets the bus and the thread goes on.
StartRead(t) ==
    /\ asking[t] # 0
    /\ Free
    /\ port' = asking[t]
    /\ asking' = [asking EXCEPT ![t] = 0]
    /\ UNCHANGED <<q1, lastWifiVal, counter, spicounter, lost, direct, misattributed>>

-----------------------------------------------------------------------------
(***************************************************************************)
(* The interrupts.  A tick without room is skipped, and so is a count.     *)
(***************************************************************************)
TimerTick ==
    /\ q1' = SendFromISR(q1, TimeWord(0))
    /\ UNCHANGED <<port, asking, lastWifiVal, counter, spicounter>>
    /\ UNCHANGED <<lost, direct, misattributed>>

SlaveCallback ==
    /\ port # 0
    /\ port' = 0
    /\ q1' = SendFromISR(q1, SPIWord(port))
    /\ lost' = (lost \/ ~HasRoom(q1))
    /\ UNCHANGED <<asking, lastWifiVal, counter, spicounter, direct, misattributed>>

Next ==
    \/ HandleTick \/ HandleCount \/ HandleCommand
    \/ \E wifiVal \in WifiVals : PassOn(wifiVal)
    \/ \E chip \in DirectReads : ReadDirectly(chip)
    \/ \E t \in Readers : StartRead(t)
    \/ TimerTick \/ SlaveCallback

Spec == Init /\ [][Next]_vars

-----------------------------------------------------------------------------
(***************************************************************************)
(* Properties.                                                             *)
(***************************************************************************)
TypeOK ==
    /\ q1 \in Seq([tag : {1, 2, 4}, val : 0..3]) /\ Len(q1) <= QUEUE_SIZE
    /\ port \in 0..3
    /\ asking \in [Readers -> 0..3]
    /\ lastWifiVal \in WifiVals
    /\ counter \in Chips /\ spicounter \in Chips
    /\ lost \in BOOLEAN /\ direct \in BOOLEAN /\ misattributed \in BOOLEAN

\* However ticks, counts and commands mix in queue 1, however many ticks are
\* dropped, however long threadFxn0 is held up and however often the rover stops and
\* moves on, every wheel of a moving rover gets the counts of its own encoder, as long
\* as no count was dropped and no spi command read an encoder out of turn.
TurnsKeptUnlessDisturbed == misattributed => lost \/ direct

\* What the README says of the regulator: it keeps the wheels at the right
\* velocity at all times.  For that each wheel of a moving rover must be given the
\* counts of its own encoder.
CountsReachTheirWheel == ~misattributed
=============================================================================
