--------------------------- MODULE RoverPipeline ---------------------------
(***************************************************************************)
(* The threads of the rover and the queues between them.                   *)
(*                                                                         *)
(*    rx  the receive task: MQTTClient_run calls MqttClientCallback        *)
(*    t2  threadFxn2: turns the commands of queue 3 into work              *)
(*    t0  threadFxn0: the controller, fed by queue 1                       *)
(*    t1  threadFxn1: writes the words of queue 2 to the motor UART        *)
(*    mc  MqttClient: publishes the messages of queue 6                    *)
(*                                                                         *)
(*    broker -> rx -> Q3 -> t2 -> Q1 -> t0 -> Q2 -> t1 -> motors           *)
(*              rx -> Q6 -> mc -> broker    t0 -> Q6    t2 -> Q2           *)
(*                                                                         *)
(* with the timers and the SPI interrupt feeding queues 1 and 6.  A thread *)
(* takes a message and then does, one after the other, the blocking calls  *)
(* that its handler makes: they are what is left in todo[thread].  Each    *)
(* call is a step, and a send to a full queue waits.  The publish of the   *)
(* MQTT library is blocking (blockingSend): it returns when the receive    *)
(* task has read the broker's acknowledgement.                             *)
(*                                                                         *)
(* The direction commands stand for their MACRO_ values, and a motor word  *)
(* for the command it comes from: "adjusted" is a PID result, "raw" a word *)
(* given by number.  Counts and message numbers are left out: "none".      *)
(***************************************************************************)
EXTENDS CustomQueue, Selection, Integers

CONSTANTS
    Bodies,         \* the message bodies the broker sends to the rover
    MaxReceived     \* how many messages it sends (bound of the model)

FORWARD    == "forward"
STOP       == "stop"
BACK       == "back"
SPIN_LEFT  == "spin left"
SPIN_RIGHT == "spin right"

WifiVals == {FORWARD, STOP, BACK, SPIN_LEFT, SPIN_RIGHT}

\* The type in queue 3 of each body that the callback knows.
BodyTypes == [init |-> 0, spi1 |-> 1, spi2 |-> 2, spi3 |-> 3, gof |-> 4, stop |-> 5,
              gob |-> 6, spinl |-> 7, spinr |-> 8, error |-> 9, raw |-> 10]

AllBodies == DOMAIN BodyTypes \cup {"other"}

ASSUME BodiesAssumption == Bodies \subseteq AllBodies /\ MaxReceived \in Nat

Tasks == {"rx", "t0", "t1", "t2", "mc"}

VARIABLES
    queue,          \* queues 1, 2, 3 and 6
    todo,           \* the calls left in the handler each thread is in
    awaitingAck,    \* mc waits inside MQTTClient_publish
    bus,            \* the SPI bus: free, configuring the chips, or reading one
    ticking,        \* timer_spi runs
    uartOpen,       \* Uartinit0 has run
    uart,           \* the last motor word written to the UART
    halted,         \* errorRoutine has stopped the scheduler and the interrupts
    lastWifiVal,    \* the controller's control state
    counter, enable_counter, stop_counter,
    received,       \* how many messages have come from the broker
    rawSince        \* history: a raw word has been received since the last STOP

controller == <<lastWifiVal, counter, enable_counter, stop_counter>>
device     == <<awaitingAck, bus, ticking, uartOpen, uart, halted>>
vars       == <<queue, todo, device, controller, received, rawSince>>

(***************************************************************************)
(* Calls.                                                                  *)
(***************************************************************************)
Send(n, word) == [call |-> "send", to |-> n, word |-> word]
Call(name)    == [call |-> name, to |-> 0, word |-> Word(0, "none")]

SendWIFIMsgToQ1(c)       == Send(1, WIFIWord(c))
SendMotorMsgToQ2(w)      == Send(2, MotorWord(w))
SendJsonMsgToQ3(type)    == Send(3, JsonWord("none", type))
SendWIFIMsgToQ6(type)    == Send(6, CloudWord("none", type))

Running(t) == ~halted /\ todo[t] # << >>
Waiting(t) == ~halted /\ todo[t] = << >>

\* Fault: the UART is left closed.
Boot_NoUart == <<Call("initSpi"), Call("timer")>>

\* threadFxn2 before its loop.
Boot == <<Call("initSpi"), Call("Uartinit0"), Call("timer")>>

Init ==
    /\ queue = [n \in {1, 2, 3, 6} |-> << >>]
    /\ todo = [t \in Tasks |-> IF t = "t2" THEN Boot ELSE << >>]
    /\ awaitingAck = FALSE
    /\ bus = "free"
    /\ ticking = FALSE
    /\ uartOpen = FALSE
    /\ uart = "none"
    /\ halted = FALSE
    /\ lastWifiVal = STOP
    /\ counter = 1
    /\ enable_counter = 0
    /\ stop_counter = 0
    /\ received = 0
    /\ rawSince = FALSE

-----------------------------------------------------------------------------
(***************************************************************************)
(* The calls of a handler, in their order.                                 *)
(***************************************************************************)

\* Fault: the word jumps the queue, as with xQueueSendToFront.
Put_Front(q, word) == <<word>> \o q

Put(q, word) == Append(q, word)

\* A send from a thread waits for room.
SendStep(t) ==
    LET op == Head(todo[t])
    IN  /\ Running(t)
        /\ op.call = "send"
        /\ HasRoom(queue[op.to])
        /\ queue' = [queue EXCEPT ![op.to] = Put(@, op.word)]
        /\ todo' = [todo EXCEPT ![t] = Tail(@)]
        /\ UNCHANGED <<device, controller, received, rawSince>>

\* spiOP waits for the bus and starts a transfer.
SpiOP(t) ==
    /\ Running(t)
    /\ Head(todo[t]).call = "spiOP"
    /\ bus = "free"
    /\ bus' = "reading"
    /\ todo' = [todo EXCEPT ![t] = Tail(@)]
    /\ UNCHANGED <<queue, awaitingAck, ticking, uartOpen, uart, halted>>
    /\ UNCHANGED <<controller, received, rawSince>>

\* MQTTClient_publish sends the message ...
Publish ==
    /\ Running("mc")
    /\ ~awaitingAck
    /\ awaitingAck' = TRUE
    /\ UNCHANGED <<queue, todo, bus, ticking, uartOpen, uart, halted>>
    /\ UNCHANGED <<controller, received, rawSince>>

\* ... and returns when the receive task reads the acknowledgement.  It reads
\* nothing while it is in the callback.
PubAck ==
    /\ Waiting("rx")
    /\ awaitingAck
    /\ awaitingAck' = FALSE
    /\ todo' = [todo EXCEPT !["mc"] = Tail(@)]
    /\ UNCHANGED <<queue, bus, ticking, uartOpen, uart, halted>>
    /\ UNCHANGED <<controller, received, rawSince>>

\* threadFxn2 before its loop: initSpi, which returns when its last exchange has started
\* (SpiBus has the others, and a driver that cannot be opened) ...
InitSpi ==
    /\ Running("t2")
    /\ Head(todo["t2"]).call = "initSpi"
    /\ bus = "free"
    /\ bus' = "configuring"
    /\ todo' = [todo EXCEPT !["t2"] = Tail(@)]
    /\ UNCHANGED <<queue, awaitingAck, ticking, uartOpen, uart, halted>>
    /\ UNCHANGED <<controller, received, rawSince>>

\* ... then Uartinit0, then timer_spi_init_custom.
Uartinit0 ==
    /\ Running("t2")
    /\ Head(todo["t2"]).call = "Uartinit0"
    /\ uartOpen' = TRUE
    /\ todo' = [todo EXCEPT !["t2"] = Tail(@)]
    /\ UNCHANGED <<queue, awaitingAck, bus, ticking, uart, halted>>
    /\ UNCHANGED <<controller, received, rawSince>>

StartTimer ==
    /\ Running("t2")
    /\ Head(todo["t2"]).call = "timer"
    /\ ticking' = TRUE
    /\ todo' = [todo EXCEPT !["t2"] = Tail(@)]
    /\ UNCHANGED <<queue, awaitingAck, bus, uartOpen, uart, halted>>
    /\ UNCHANGED <<controller, received, rawSince>>

\* errorRoutine suspends the scheduler and enters a critical section that
\* nobody leaves: no other thread and no interrupt runs again.
ErrorRoutine ==
    /\ Running("t2")
    /\ Head(todo["t2"]).call = "errorRoutine"
    /\ halted' = TRUE
    /\ todo' = [todo EXCEPT !["t2"] = Tail(@)]
    /\ UNCHANGED <<queue, awaitingAck, bus, ticking, uartOpen, uart>>
    /\ UNCHANGED <<controller, received, rawSince>>

-----------------------------------------------------------------------------
(***************************************************************************)
(* The handlers.                                                           *)
(***************************************************************************)

\* MqttClientCallback for a message: its number goes to queue 6, then its
\* command, if the body is one, to queue 3.
Receive(body) ==
    /\ Waiting("rx")
    /\ received < MaxReceived
    /\ received' = received + 1
    /\ todo' = [todo EXCEPT !["rx"] =
                  <<SendWIFIMsgToQ6(4)>> \o
                  IF body = "other" THEN << >> ELSE <<SendJsonMsgToQ3(BodyTypes[body])>>]
    /\ rawSince' = IF body = "raw" THEN TRUE ELSE IF body = "stop" THEN FALSE ELSE rawSince
    /\ UNCHANGED <<queue, device, controller>>

Unset == [val |-> "none", type |-> 777]

\* Takes the head of queue n and leaves calls to be done.
Dequeue(t, n, calls) ==
    /\ Waiting(t)
    /\ queue[n] # << >>
    /\ queue' = [queue EXCEPT ![n] = Tail(@)]
    /\ todo' = [todo EXCEPT ![t] = calls]

\* The direction commands by their type in queue 3.
CommandOf == [type \in 4..8 |->
    <<FORWARD, STOP, BACK, SPIN_LEFT, SPIN_RIGHT>>[type - 3]]

\* threadFxn2.
Work(type) ==
    CASE type = 0      -> << >>
      [] type \in 1..3 -> <<Call("spiOP")>>
      [] type \in 4..8 -> <<SendWIFIMsgToQ1(CommandOf[type])>>
      [] type = 9      -> <<Call("errorRoutine")>>
      [] type = 10     -> <<SendMotorMsgToQ2("raw")>>

ThreadFxn2 ==
    /\ Dequeue("t2", 3, Work(DequeueQ3(Head(queue[3]), Unset).type))
    /\ UNCHANGED <<device, controller, received, rawSince>>

\* threadFxn1 writes the frames of each word before it takes the next one.
Write(w) == [call |-> "UART_write", to |-> 0, word |-> Word(0, w)]

ThreadFxn1 ==
    /\ Dequeue("t1", 2, <<Write(DequeueQ2(Head(queue[2]), Unset).val)>>)
    /\ UNCHANGED <<device, controller, received, rawSince>>

UartWrite ==
    /\ Running("t1")
    /\ uart' = Head(todo["t1"]).word.val
    /\ todo' = [todo EXCEPT !["t1"] = Tail(@)]
    /\ UNCHANGED <<queue, awaitingAck, bus, ticking, uartOpen, halted>>
    /\ UNCHANGED <<controller, received, rawSince>>

\* threadFxn0: a tick, a count, a direction command.
Unset1 == [spiVal |-> "none", timeVal |-> "none", wifiVal |-> "none", type |-> 777]

NextMessage(type) ==
    /\ queue[1] # << >>
    /\ DequeueQ1(Head(queue[1]), Unset1).type = type

HandleTick ==
    /\ NextMessage(Q1_TYPE_TIME)
    /\ Dequeue("t0", 1, <<Call("spiOP")>>)
    /\ UNCHANGED <<device, controller, received, rawSince>>

Moving == lastWifiVal # STOP

\* Fault: the corrections that are left are sent to a rover at rest, too.
Settles_EvenStopped == enable_counter > 0

\* A PID result is sent on for the first counts of a leg only.
Settles == Moving /\ enable_counter > 0

HandleCount ==
    /\ NextMessage(Q1_TYPE_SPI)
    /\ Dequeue("t0", 1,
         (IF Moving /\ counter = 2 THEN <<SendWIFIMsgToQ6(5)>> ELSE << >>) \o
         (IF Settles THEN <<SendMotorMsgToQ2("adjusted")>> ELSE << >>))
    /\ enable_counter' = IF Settles THEN enable_counter - 1 ELSE enable_counter
    /\ counter' = IF counter = 3 THEN 1 ELSE counter + 1
    /\ UNCHANGED <<lastWifiVal, stop_counter, device, received, rawSince>>

\* The message for the broker that goes with a command, if any.
Announcement(c) ==
    CASE c = FORWARD                      -> <<SendWIFIMsgToQ6(8)>>
      [] c = BACK                         -> <<SendWIFIMsgToQ6(9)>>
      [] c = STOP /\ stop_counter = 0     -> <<SendWIFIMsgToQ6(6)>>
      [] c = STOP /\ stop_counter = 1     -> <<SendWIFIMsgToQ6(7)>>
      [] OTHER                            -> << >>

HandleCommand ==
    /\ NextMessage(Q1_TYPE_WIFI)
    /\ LET c == Head(queue[1]).val
       IN  /\ Dequeue("t0", 1, Announcement(c) \o <<SendMotorMsgToQ2(c)>>)
           /\ lastWifiVal' = c
           /\ enable_counter' = IF c \in {FORWARD, BACK} THEN 3 ELSE enable_counter
           /\ stop_counter' =
                CASE c = FORWARD                  -> 0
                  [] c = BACK                     -> 1
                  [] c = STOP /\ stop_counter = 0 -> 777
                  [] c = STOP /\ stop_counter = 1 -> 666
                  [] OTHER                        -> stop_counter
    /\ UNCHANGED <<counter, device, received, rawSince>>

\* MqttClient: 4 is only counted, 6 and 7 go to an arm and to the ultrasonic
\* sensor, the others to one topic.
Publications(type) ==
    CASE type \in {0, 1, 5, 8, 9} -> <<Call("publish")>>
      [] type \in {6, 7}          -> <<Call("publish"), Call("publish")>>
      [] type = 4                 -> << >>

MqttClient ==
    /\ Dequeue("mc", 6, Publications(DequeueQ6(Head(queue[6]), Unset).type))
    /\ UNCHANGED <<device, controller, received, rawSince>>

-----------------------------------------------------------------------------
(***************************************************************************)
(* The interrupts.                                                         *)
(***************************************************************************)
Interrupt(n, word) ==
    /\ ~halted
    /\ queue' = [queue EXCEPT ![n] = SendFromISR(@, word)]
    /\ UNCHANGED <<todo, awaitingAck, ticking, uartOpen, uart, halted>>
    /\ UNCHANGED <<controller, received, rawSince>>

\* Fault: slaveCallback does not post the semaphore of the bus.
BusAfterCallback_NoPost == "taken"

BusAfterCallback == "free"

SpiTimer   == ticking /\ Interrupt(1, TimeWord("none")) /\ UNCHANGED bus
StatsTimer == Interrupt(6, CloudWord("none", 1)) /\ UNCHANGED bus

\* slaveCallback: a count, unless the exchange was the last one of initSpi.
SpiDone ==
    /\ bus' = BusAfterCallback
    /\ \/ bus = "reading" /\ Interrupt(1, SPIWord("none"))
       \/ /\ bus = "configuring" /\ ~halted
          /\ UNCHANGED <<queue, todo, awaitingAck, ticking, uartOpen, uart, halted>>
          /\ UNCHANGED <<controller, received, rawSince>>

-----------------------------------------------------------------------------
Rx == PubAck \/ SendStep("rx")
T0 == SendStep("t0") \/ SpiOP("t0") \/ HandleTick \/ HandleCount \/ HandleCommand
T1 == ThreadFxn1 \/ UartWrite
T2 == SendStep("t2") \/ SpiOP("t2") \/ InitSpi \/ Uartinit0 \/ StartTimer \/ ErrorRoutine \/ ThreadFxn2
Mc == Publish \/ MqttClient

Halted == halted /\ UNCHANGED vars

Next ==
    \/ \E body \in Bodies : Receive(body)
    \/ Rx \/ T0 \/ T1 \/ T2 \/ Mc
    \/ SpiTimer \/ StatsTimer \/ SpiDone
    \/ Halted

Spec == Init /\ [][Next]_vars

\* Every thread is scheduled again and again: the MQTT tasks have a higher
\* priority than the others but spend their time waiting, the others share the
\* processor by time slices.  A thread that waits for room in a queue or for the
\* bus is served if there is room, or the bus is free, again and again: it is in a
\* list of waiters, and the timers fire far too seldom to come first each time.
\* The broker acknowledges every publish and the receive task reads what it sends.
\* Nothing is assumed of the timers or of the messages that others send.
Fairness ==
    /\ WF_vars(PubAck) /\ WF_vars(SpiDone)
    /\ WF_vars(T0) /\ WF_vars(T1) /\ WF_vars(T2) /\ WF_vars(Mc)
    /\ \A t \in {"rx", "t0", "t2"} : SF_vars(SendStep(t) \/ SpiOP(t))

FairSpec == Spec /\ Fairness

-----------------------------------------------------------------------------
(***************************************************************************)
(* Properties.                                                             *)
(***************************************************************************)

Words == [tag : 0..11, val : {"none", "raw", "adjusted"} \cup WifiVals]

TypeOK ==
    /\ \A n \in {1, 2, 3, 6} : queue[n] \in Seq(Words) /\ Len(queue[n]) <= QUEUE_SIZE
    /\ \A t \in Tasks : todo[t] = Boot \/ Len(todo[t]) <= 2
    /\ bus \in {"free", "configuring", "reading"}
    /\ {awaitingAck, ticking, uartOpen, halted, rawSince} \subseteq BOOLEAN
    /\ uart \in {"none", "raw", "adjusted"} \cup WifiVals
    /\ lastWifiVal \in WifiVals /\ counter \in 1..3 /\ enable_counter \in 0..3
    /\ stop_counter \in {0, 1, 666, 777}
    /\ received \in 0..MaxReceived

\* Nothing is written to the motor UART before threadFxn2 has opened it, although
\* the writer is another thread and no lock orders the two: the words can only
\* come from commands that threadFxn2 has passed on.
UartOpenedFirst == uart # "none" => uartOpen

\* Every word that waits has a tag that its receiver switches on: no thread acts
\* again on the type of the message before, which an unknown tag would leave in
\* its variable.
TagsKnown ==
    /\ \A k \in 1..Len(queue[1]) : DequeueQ1(queue[1][k], Unset1).type # Unset1.type
    /\ \A k \in 1..Len(queue[2]) : DequeueQ2(queue[2][k], Unset).type # Unset.type
    /\ \A k \in 1..Len(queue[3]) : DequeueQ3(queue[3][k], Unset).type # Unset.type
    /\ \A k \in 1..Len(queue[6]) : DequeueQ6(queue[6][k], Unset).type # Unset.type

\* What keeps a thread where it is: a call that cannot return yet, or a queue
\* without a message.
Blocks(op) ==
    \/ op.call = "send" /\ ~HasRoom(queue[op.to])
    \/ op.call = "spiOP" /\ bus # "free"
    \/ op.call = "publish" /\ awaitingAck

Inbox == [t0 |-> 1, t1 |-> 2, t2 |-> 3, mc |-> 6]

Held(t) ==
    IF todo[t] # << >> THEN Blocks(Head(todo[t]))
    ELSE IF t = "rx" THEN ~awaitingAck
    ELSE queue[Inbox[t]] = << >>

\* No thread can move, although a handler is not done and nothing is to come from
\* the SPI interrupt.
Standstill ==
    /\ ~halted /\ bus \notin {"configuring", "reading"}
    /\ \A t \in Tasks : Held(t)
    /\ \E t \in Tasks : Running(t)

\* The only ring of threads that wait for each other is the one of the publisher:
\* MqttClient waits for an acknowledgement that the receive task does not read,
\* because its callback waits, at once or through the commands before it, for room
\* in the queue that MqttClient empties.  The bus, the controller and the writer of
\* the motor words close no ring, whatever the sizes of the queues between them.
OnlyPublisherBlocks ==
    Standstill => awaitingAck /\ Running("rx") /\ ~HasRoom(queue[6])

\* The direction command that a word of queue 1 or 3 stands for, and the one that a
\* call sends there.
CommandInQ1 == [w \in {WIFIWord(c) : c \in WifiVals} |-> w.val]
CommandInQ3 == [w \in {JsonWord("none", type) : type \in 4..8} |-> CommandOf[w.tag - 1]]
SentToQ1    == [op \in {Send(1, w) : w \in DOMAIN CommandInQ1} |-> CommandInQ1[op.word]]
SentToQ3    == [op \in {Send(3, w) : w \in DOMAIN CommandInQ3} |-> CommandInQ3[op.word]]

\* The direction commands between the callback and the controller, oldest first.
InTransit ==
    Chosen(queue[1], CommandInQ1) \o Chosen(todo["t2"], SentToQ1)
        \o Chosen(queue[3], CommandInQ3) \o Chosen(todo["rx"], SentToQ3)

StopUnderWay == \E i \in 1..Len(InTransit) : InTransit[i] = STOP

\* When a STOP was the last thing received but for other directions, the controller has
\* stopped the rover and all words are written, then the one on the UART is the STOP's:
\* neither a PID result of the leg before nor a word that was given by number earlier,
\* which goes past the controller, overtakes it.
StopIsLastWord ==
    /\ lastWifiVal = STOP /\ ~StopUnderWay /\ ~rawSince
    /\ Waiting("t0") /\ queue[2] = << >> /\ Waiting("t1")
    => uart \in {STOP, "none"}

Channel == INSTANCE CommandChannel
             WITH Direction <- WifiVals, AtRest <- STOP,
                  pending <- InTransit, heading <- lastWifiVal

\* The motor words that are sent and not yet written, oldest first.
Values(q) == [k \in 1..Len(q) |-> q[k].val]
OfT1 == [k \in 1..Len(todo["t1"]) |-> todo["t1"][k].word.val]
MotorWordsDue == OfT1 \o Values(queue[2])

MotorChannel == INSTANCE CommandChannel
                  WITH Direction <- {"raw", "adjusted"} \cup WifiVals, AtRest <- "none",
                       pending <- MotorWordsDue, heading <- uart

\* Two queues and three threads are one channel: every direction command that the
\* callback accepts reaches the controller once and in order, although the
\* interrupts that share queue 1 with them lose messages.  Queue 2 and threadFxn1 are
\* another: every motor word that two threads send is written once and in order.
ImplementsChannel == Channel!ChannelSpec /\ MotorChannel!ChannelSpec

\* What the README says of the commands: the rover uses those it receives to
\* determine the motor commands.  A STOP that the callback has accepted reaches
\* the motors, and the arm message that the controller sends first does not keep it.
StopServed == StopUnderWay ~> uart = STOP
=============================================================================
