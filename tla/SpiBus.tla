------------------------------- MODULE SpiBus -------------------------------
(***************************************************************************)
(* The SPI bus of the three encoder chips (encoder_spi.c).                 *)
(*                                                                         *)
(* Several threads call spiOP (threadFxn0 on every timer tick, threadFxn2  *)
(* on the commands spi1..spi3); one of them, threadFxn2, first configures  *)
(* the chips with initSpi and then starts the timer that makes the others  *)
(* call.  The calls share ONE transaction record, ONE pair of buffers and  *)
(* the chip-select lines.  A call returns when the transfer has started:   *)
(* the transfer is ended by the interrupt handler slaveCallback, which     *)
(* raises the chip-select line that the transaction record names AT THAT   *)
(* MOMENT, sends the count to queue 1 and posts masterSem.  The semaphore  *)
(* is thus taken by a thread and given back by the interrupt.              *)
(*                                                                         *)
(* Every statement of a call that touches shared state is a step of its    *)
(* own; slaveCallback, an interrupt handler, is one step.                  *)
(***************************************************************************)
EXTENDS CustomQueue

CONSTANTS
    Threads,        \* the threads that call spiOP
    Initialiser     \* the one that calls initSpi: threadFxn2

ASSUME ThreadsAssumption == Initialiser \in Threads

Chips == 1..3

Exchange == [kind : {"init", "read"}, chip : Chips]

Idle == [kind |-> "none", chip |-> 0]

VARIABLES
    pc,             \* where each thread is in initSpi or spiOP
    op,             \* the exchange each thread is performing
    masterSem,      \* the value of the semaphore
    transaction,    \* the shared record: its arg and the buffers it points to
    cs,             \* the chip-select lines; a chip listens while its line is 0
    wire,           \* the exchange the SPI driver is performing, or Idle
    q1,             \* the encoder counts in queue 1, by the chip they come from
    ticking         \* timer_spi_init_custom has run

vars == <<pc, op, masterSem, transaction, cs, wire, q1, ticking>>

Locations == {"boot", "unopened", "free", "wait", "load", "select", "transfer", "halted"}

TypeOK ==
    /\ pc \in [Threads -> Locations]
    /\ op \in [Threads -> Exchange]
    /\ masterSem \in Nat
    /\ transaction \in Exchange \cup {Idle}
    /\ cs \in [Chips -> {0, 1}]
    /\ wire \in Exchange \cup {Idle}
    /\ q1 \in Seq(Chips)
    /\ Len(q1) <= QUEUE_SIZE
    /\ ticking \in BOOLEAN

FirstInit == [kind |-> "init", chip |-> 1]

Init ==
    /\ pc = [t \in Threads |-> IF t = Initialiser THEN "boot" ELSE "free"]
    /\ op = [t \in Threads |-> FirstInit]
    /\ masterSem = 0
    /\ transaction = Idle
    /\ cs = [c \in Chips |-> 1]
    /\ wire = Idle
    /\ q1 = << >>
    /\ ticking = FALSE

-----------------------------------------------------------------------------
(***************************************************************************)
(* initSpi, up to its first sem_wait.  Where the driver cannot be opened   *)
(* the thread spins for ever, before the timer that makes the others call. *)
(***************************************************************************)

\* Fault: a counting semaphore, as if each of two callers had its own buffers.
SemInitValue_Two == 2

SemInitValue == 1

OpenSpi(t) ==
    /\ pc[t] = "boot"
    /\ masterSem' = SemInitValue
    /\ \E opened \in BOOLEAN :
          pc' = [pc EXCEPT ![t] = IF opened THEN "wait" ELSE "unopened"]
    /\ UNCHANGED <<op, transaction, cs, wire, q1, ticking>>

(***************************************************************************)
(* A call spiOP(c).  threadFxn2 makes it when a command says so, the other *)
(* threads on a tick of the timer.                                         *)
(***************************************************************************)
Call(t, c) ==
    /\ pc[t] = "free"
    /\ ticking
    /\ op' = [op EXCEPT ![t] = [kind |-> "read", chip |-> c]]
    /\ pc' = [pc EXCEPT ![t] = "wait"]
    /\ UNCHANGED <<masterSem, transaction, cs, wire, q1, ticking>>

\* The second and third part of initSpi select the chip before they change
\* the transaction record; every other exchange does it the other way round.
SelectsFirst(x) == x.kind = "init" /\ x.chip # 1

SemWait(t) ==
    /\ pc[t] = "wait"
    /\ masterSem > 0
    /\ masterSem' = masterSem - 1
    /\ pc' = [pc EXCEPT ![t] = IF SelectsFirst(op[t]) THEN "select" ELSE "load"]
    /\ UNCHANGED <<op, transaction, cs, wire, q1, ticking>>

LoadTransaction(t) ==
    /\ pc[t] = "load"
    /\ transaction' = op[t]
    /\ pc' = [pc EXCEPT ![t] = IF SelectsFirst(op[t]) THEN "transfer" ELSE "select"]
    /\ UNCHANGED <<op, masterSem, cs, wire, q1, ticking>>

SelectChip(t) ==
    /\ pc[t] = "select"
    /\ cs' = [cs EXCEPT ![op[t].chip] = 0]
    /\ pc' = [pc EXCEPT ![t] = IF SelectsFirst(op[t]) THEN "load" ELSE "transfer"]
    /\ UNCHANGED <<op, masterSem, transaction, wire, q1, ticking>>

(***************************************************************************)
(* SPI_transfer.  In callback mode the driver refuses a transfer while it  *)
(* performs another, and the caller then spins for ever in while(1).       *)
(* After the third chip of initSpi the thread opens the UART and starts    *)
(* the timer without waiting for the transfer to end.                      *)
(***************************************************************************)
SpiTransfer(t) ==
    /\ pc[t] = "transfer"
    /\ IF wire # Idle
         THEN /\ pc' = [pc EXCEPT ![t] = "halted"]
              /\ UNCHANGED <<op, wire, ticking>>
         ELSE /\ wire' = op[t]
              /\ IF op[t].kind = "init" /\ op[t].chip < 3
                   THEN /\ op' = [op EXCEPT ![t] = [kind |-> "init", chip |-> op[t].chip + 1]]
                        /\ pc' = [pc EXCEPT ![t] = "wait"]
                        /\ UNCHANGED ticking
                   ELSE /\ ticking' = TRUE
                        /\ pc' = [pc EXCEPT ![t] = "free"]
                        /\ UNCHANGED op
    /\ UNCHANGED <<masterSem, transaction, cs, q1>>

\* while(1).
Spin(t) == pc[t] \in {"unopened", "halted"} /\ UNCHANGED vars

\* Fault: the branches for the configured chips return before sem_post.
Posts_ReadsOnly(x) == IF x.kind = "read" THEN 1 ELSE 0

\* Fault: the branch of a count posts, and so does the end of the handler.
Posts_Twice(x) == IF x.kind = "read" THEN 2 ELSE 1

\* How often slaveCallback posts masterSem: once, on each of its branches.
Posts(x) == 1

\* Fault: the count is sent after the branches instead of in the last one.
SendsCount_Always(x) == TRUE

\* slaveCallback sends a count for the args '1', '2', '3', not for 'i', 'j', 'k'.
SendsCount(x) == x.kind = "read"

(***************************************************************************)
(* The interrupt at the end of a transfer.  Everything it does depends on  *)
(* the shared transaction record, not on the transfer that has ended; only *)
(* the count itself comes off the wire.                                    *)
(***************************************************************************)
SlaveCallback ==
    /\ wire # Idle
    /\ wire' = Idle
    /\ cs' = [cs EXCEPT ![transaction.chip] = 1]
    /\ q1' = IF SendsCount(transaction) THEN SendFromISR(q1, wire.chip) ELSE q1
    /\ masterSem' = masterSem + Posts(transaction)
    /\ UNCHANGED <<pc, op, transaction, ticking>>

\* threadFxn0 takes a count out of queue 1.
DequeueCount ==
    /\ q1 # << >>
    /\ q1' = Tail(q1)
    /\ UNCHANGED <<pc, op, masterSem, transaction, cs, wire, ticking>>

-----------------------------------------------------------------------------
ThreadStep(t) ==
    \/ OpenSpi(t)
    \/ SemWait(t)
    \/ LoadTransaction(t)
    \/ SelectChip(t)
    \/ SpiTransfer(t)
    \/ Spin(t)

Next ==
    \/ \E t \in Threads : ThreadStep(t) \/ \E c \in Chips : Call(t, c)
    \/ SlaveCallback
    \/ DequeueCount

Spec == Init /\ [][Next]_vars

\* The interrupt always comes and every thread is scheduled: FreeRTOS shares
\* the processor among ready threads of one priority by time slices.  A thread
\* waiting for masterSem is in FreeRTOS's list of waiters, and the others reach
\* their next sem_wait only with the next tick or command, long after it woke:
\* it gets the semaphore if the semaphore is posted again and again.
Fairness ==
    /\ WF_vars(SlaveCallback)
    /\ \A t \in Threads :
         /\ WF_vars(OpenSpi(t) \/ LoadTransaction(t) \/ SelectChip(t) \/ SpiTransfer(t))
         /\ SF_vars(SemWait(t))

FairSpec == Spec /\ Fairness

-----------------------------------------------------------------------------
(***************************************************************************)
(* Properties.                                                             *)
(***************************************************************************)

\* The threads between a sem_wait and the SPI_transfer it protects.
Holders == {t \in Threads : pc[t] \in {"load", "select", "transfer"}}

\* At most one chip is selected at any time, whichever threads are inside spiOP
\* and wherever the interrupt falls: two chips answering at once would mix
\* their bits on the shared data line.
OneChipSelected ==
    \A c, d \in Chips : cs[c] = 0 /\ cs[d] = 0 => c = d

\* While a transfer is in progress nobody has touched what slaveCallback is
\* going to read: the transaction record still describes the transfer and the
\* chip it talks to is still selected (the record is a global that every caller
\* of spiOP overwrites).
TransferUndisturbed ==
    wire # Idle => transaction = wire /\ cs[wire.chip] = 0

\* No SPI_transfer is refused, so no thread ends in one of the while(1) loops behind the
\* transfers of initSpi and spiOP, holding the semaphore for ever.
NeverRefused == \A t \in Threads : pc[t] # "halted"

\* Once initSpi has made it, the token of the semaphore is never lost: it is there to
\* be taken, or a thread holds it, or the interrupt of a transfer is going to post it.
TokenNeverLost ==
    pc[Initialiser] # "boot" => masterSem > 0 \/ Holders # {} \/ wire # Idle

\* Every read that a thread asks for is put on the wire, and every transfer is
\* ended by the interrupt: no call is lost and the semaphore is never left at 0
\* with nobody to post it.
EveryCallServed ==
    /\ \A t \in Threads : pc[t] = "wait" ~> pc[t] = "free"
    /\ wire # Idle ~> wire = Idle

\* The bus is a port that serves one exchange at a time and answers each read
\* once, with the count of the chip that was read.
Port == INSTANCE SpiPort WITH port <- wire
ImplementsPort == Port!PortSpec
=============================================================================
