---------------------------- MODULE CustomQueue ----------------------------
(***************************************************************************)
(* The message queues of custom_queue.c.  Every queue is a FreeRTOS queue  *)
(* of QUEUE_SIZE 64-bit words; the high half of a word is one hexadecimal  *)
(* digit repeated eight times (the tag) and the low half a 32-bit value.   *)
(*                                                                         *)
(* A tag is kept here as its digit and a word as [tag, val].  The senders  *)
(* are the Send* operators, the two ways FreeRTOS takes a word are HasRoom *)
(* with Append (a task: it waits for room) and SendFromISR (an interrupt:  *)
(* the word is lost when the queue is full).  The receivers are the        *)
(* Dequeue* operators: they map a word and the caller's variables to the   *)
(* caller's variables after the call.                                      *)
(***************************************************************************)
EXTENDS Naturals, Sequences

CONSTANT QUEUE_SIZE     \* custom_queue.h: 10 words in every queue

ASSUME QueueSizeAssumption == QUEUE_SIZE \in Nat \ {0}

(***************************************************************************)
(* xQueueSendToBack and xQueueSendToBackFromISR.                           *)
(***************************************************************************)

\* A task that sends waits until this holds.  The senders hand FreeRTOS the
\* address of a local variable as xTicksToWait, a number of ticks no run of the
\* rover lives to see, so the wait has no timeout.
HasRoom(q) == Len(q) < QUEUE_SIZE

\* Fault: the interrupt takes room for granted.
SendFromISR_Unchecked(q, m) == Append(q, m)

\* An interrupt handler never waits: the word is dropped when the queue is full
\* and no caller looks at the 0 the sender returns.
SendFromISR(q, m) == IF HasRoom(q) THEN Append(q, m) ELSE q

Word(tag, val) == [tag |-> tag, val |-> val]

(***************************************************************************)
(* Queue 1: encoder counts, direction commands and timer ticks for         *)
(* threadFxn0.                                                             *)
(***************************************************************************)
SPIWord(spiVal)   == Word(1, spiVal)
WIFIWord(wifiVal) == Word(2, wifiVal)
TimeWord(timeVal) == Word(4, timeVal)

Q1_TYPE_SPI  == 0
Q1_TYPE_TIME == 1
Q1_TYPE_WIFI == 2

\* The caller's four variables: an unknown tag leaves every one as it was.
DequeueQ1(w, vars) ==
    CASE w.tag = 1 -> [vars EXCEPT !.spiVal  = w.val, !.type = Q1_TYPE_SPI]
      [] w.tag = 4 -> [vars EXCEPT !.timeVal = w.val, !.type = Q1_TYPE_TIME]
      [] w.tag = 2 -> [vars EXCEPT !.wifiVal = w.val, !.type = Q1_TYPE_WIFI]
      [] OTHER     -> vars

(***************************************************************************)
(* Queue 2: the three speed bytes for threadFxn1.                          *)
(***************************************************************************)
MotorWord(motorVal) == Word(3, motorVal)

DequeueQ2(w, vars) ==
    IF w.tag = 3 THEN [vars EXCEPT !.val = w.val, !.type = 0] ELSE vars

(***************************************************************************)
(* Queue 3: the commands of the MQTT callback for threadFxn2.  A type the  *)
(* sender does not know leaves the tag at 0, which the receiver ignores.   *)
(***************************************************************************)

\* Fault: the sender has no case for a type that the receiver knows.
JsonWord_NoRaw(jsonVal, type) == Word(IF type \in 0..9 THEN type + 1 ELSE 0, jsonVal)

JsonWord(jsonVal, type) == Word(IF type \in 0..10 THEN type + 1 ELSE 0, jsonVal)

DequeueQ3(w, vars) ==
    IF w.tag \in 1..11 THEN [vars EXCEPT !.val = w.val, !.type = w.tag - 1] ELSE vars

(***************************************************************************)
(* Queue 6: what the MqttClient thread publishes or counts.  A type the    *)
(* sender does not know becomes type 0.                                    *)
(***************************************************************************)
CloudWord(wifiVal, type) == Word(IF type \in 1..9 THEN type + 1 ELSE 1, wifiVal)

DequeueQ6(w, vars) ==
    IF w.tag \in 1..10 THEN [vars EXCEPT !.val = w.val, !.type = w.tag - 1] ELSE vars
=============================================================================
