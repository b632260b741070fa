---------------------------- MODULE SpiBusProofs ----------------------------
(***************************************************************************)
(* The SPI bus of SpiBus.tla for any set of calling threads and any size   *)
(* of queue 1: type correctness, the three safety invariants of the bus    *)
(* and the refinement of the port.                                         *)
(*                                                                         *)
(* The argument is that of a lock whose owner changes hands.  There is one *)
(* token: it is in the semaphore, or with the thread that took it, or with *)
(* the transfer that this thread started (Token).  The owner is the only   *)
(* one that has touched the transaction record and the chip-select lines   *)
(* since it took the token (OwnerState, LinesAccounted), so the interrupt  *)
(* finds in them what the thread left there.  Booting says that initSpi    *)
(* runs alone: nobody calls spiOP before the timer ticks.                  *)
(***************************************************************************)
EXTENDS SpiBus, TLAPS, SequenceTheorems

\* The thread has pulled its chip-select line low and not yet started.
HasSelected(t) ==
    \/ pc[t] = "transfer"
    \/ pc[t] = "load" /\ SelectsFirst(op[t])

\* The thread has filled the transaction record and not yet started.
HasLoaded(t) ==
    \/ pc[t] = "transfer"
    \/ pc[t] = "select" /\ ~SelectsFirst(op[t])

Token ==
    /\ masterSem \in {0, 1}
    /\ \A t, u \in Holders : t = u
    /\ Holders # {} => masterSem = 0 /\ wire = Idle
    /\ wire # Idle => masterSem = 0

Booting ==
    /\ \A t \in Threads : pc[t] = "boot" => t = Initialiser /\ ~ticking
    /\ ~ticking => \A t \in Threads \ {Initialiser} : pc[t] = "free"
    /\ pc[Initialiser] = "boot" => masterSem = 0 /\ wire = Idle

OwnerState ==
    \A t \in Threads :
        /\ HasSelected(t) => cs[op[t].chip] = 0
        /\ HasLoaded(t) => transaction = op[t]

LinesAccounted ==
    \A c \in Chips : cs[c] = 0 =>
        \/ wire # Idle /\ wire.chip = c
        \/ \E t \in Threads : HasSelected(t) /\ op[t].chip = c

\* The inductive invariant of the bus.
IInv ==
    /\ TypeOK
    /\ Token
    /\ Booting
    /\ OwnerState
    /\ LinesAccounted
    /\ TransferUndisturbed
    /\ NeverRefused

-----------------------------------------------------------------------------
(***************************************************************************)
(* Types.                                                                  *)
(***************************************************************************)

\* An interrupt's send keeps a queue a queue and within its size: it appends
\* only where there is room.
LEMMA SendFromISRBounded ==
    ASSUME NEW S, NEW q \in Seq(S), NEW m \in S, Len(q) <= QUEUE_SIZE
    PROVE  /\ SendFromISR(q, m) \in Seq(S)
           /\ Len(SendFromISR(q, m)) <= QUEUE_SIZE
<1>1. Len(q) \in Nat
    BY LenProperties
<1>2. Append(q, m) \in Seq(S) /\ Len(Append(q, m)) = Len(q) + 1
    BY AppendProperties
<1>. QED
    BY <1>1, <1>2, QueueSizeAssumption DEF SendFromISR, HasRoom

LEMMA InitTypes == Init => TypeOK
<1>. SUFFICES ASSUME Init PROVE TypeOK
    OBVIOUS
<1>1. FirstInit \in Exchange
    BY DEF FirstInit, Exchange, Chips
<1>2. q1 \in Seq(Chips) /\ Len(q1) <= QUEUE_SIZE
    BY EmptySeq, QueueSizeAssumption DEF Init
<1>. QED
    BY <1>1, <1>2 DEF Init, TypeOK, Locations

LEMMA NextTypes == TypeOK /\ [Next]_vars => TypeOK'
<1>. SUFFICES ASSUME TypeOK, [Next]_vars PROVE TypeOK'
    OBVIOUS
<1>. USE DEF TypeOK, Locations
<1>1. ASSUME NEW t \in Threads, OpenSpi(t) PROVE TypeOK'
    BY <1>1 DEF OpenSpi, SemInitValue
<1>2. ASSUME NEW t \in Threads, NEW c \in Chips, Call(t, c) PROVE TypeOK'
    BY <1>2 DEF Call, Exchange
<1>3. ASSUME NEW t \in Threads, SemWait(t) PROVE TypeOK'
    BY <1>3 DEF SemWait
<1>4. ASSUME NEW t \in Threads, LoadTransaction(t) PROVE TypeOK'
    BY <1>4 DEF LoadTransaction
<1>5. ASSUME NEW t \in Threads, SelectChip(t) PROVE TypeOK'
    BY <1>5 DEF SelectChip, Exchange
<1>6. ASSUME NEW t \in Threads, SpiTransfer(t) PROVE TypeOK'
    <2>1. op[t] \in Exchange /\ op[t].chip \in Chips
        BY DEF Exchange
    <2>2. op[t].chip < 3 => [kind |-> "init", chip |-> op[t].chip + 1] \in Exchange
        BY <2>1 DEF Exchange, Chips
    <2>3. CASE wire # Idle
        BY <1>6, <2>3 DEF SpiTransfer
    <2>4. CASE wire = Idle
        BY <1>6, <2>1, <2>2, <2>4 DEF SpiTransfer
    <2>. QED
        BY <2>3, <2>4
<1>7. ASSUME SlaveCallback PROVE TypeOK'
    <2>1. wire \in Exchange /\ wire.chip \in Chips
        BY <1>7 DEF SlaveCallback, Exchange
    <2>2. q1' \in Seq(Chips) /\ Len(q1') <= QUEUE_SIZE
        BY <1>7, <2>1, SendFromISRBounded DEF SlaveCallback
    <2>3. masterSem' \in Nat
        BY <1>7 DEF SlaveCallback, Posts
    <2>. QED
        BY <1>7, <2>2, <2>3 DEF SlaveCallback
<1>8. ASSUME DequeueCount PROVE TypeOK'
    <2>1. q1' \in Seq(Chips) /\ Len(q1') = Len(q1) - 1
        BY <1>8, HeadTailProperties DEF DequeueCount
    <2>. QED
        BY <1>8, <2>1, LenProperties, QueueSizeAssumption DEF DequeueCount
<1>9. CASE (\E t \in Threads : Spin(t)) \/ UNCHANGED vars
    BY <1>9 DEF Spin, vars
<1>. QED
    BY <1>1, <1>2, <1>3, <1>4, <1>5, <1>6, <1>7, <1>8, <1>9
    DEF Next, ThreadStep

\* Every variable keeps its type; in particular queue 1 never holds more counts
\* than it has room for, although the interrupt cannot wait.
THEOREM TypeCorrect == Spec => []TypeOK
<1>. QED
    BY InitTypes, NextTypes, PTL DEF Spec

-----------------------------------------------------------------------------
(***************************************************************************)
(* The inductive invariant.                                                *)
(***************************************************************************)

LEMMA InitInductive == Init => IInv
<1>. SUFFICES ASSUME Init PROVE IInv
    OBVIOUS
<1>. QED
    BY InitTypes, ThreadsAssumption
    DEF Init, IInv, Token, Booting, OwnerState, LinesAccounted, HasSelected,
        HasLoaded, Holders, TransferUndisturbed, NeverRefused

LEMMA NextInductive == IInv /\ [Next]_vars => IInv'
<1>. SUFFICES ASSUME IInv, [Next]_vars PROVE IInv'
    OBVIOUS
<1>0. TypeOK'
    BY NextTypes DEF IInv
<1>. USE ThreadsAssumption
<1>1. ASSUME NEW t \in Threads, OpenSpi(t) PROVE IInv'
    <2>1. Token' /\ Booting'
        BY <1>1 DEF IInv, TypeOK, OpenSpi, SemInitValue, Token, Booting, Holders
    <2>2. OwnerState'
        BY <1>1 DEF IInv, TypeOK, OpenSpi, OwnerState, HasSelected, HasLoaded, SelectsFirst
    <2>3. LinesAccounted'
        BY <1>1 DEF IInv, TypeOK, OpenSpi, LinesAccounted, HasSelected, SelectsFirst
    <2>4. TransferUndisturbed' /\ NeverRefused'
        BY <1>1 DEF IInv, TypeOK, OpenSpi, TransferUndisturbed, NeverRefused
    <2>. QED
        BY <1>0, <2>1, <2>2, <2>3, <2>4 DEF IInv
<1>2. ASSUME NEW t \in Threads, NEW c \in Chips, Call(t, c) PROVE IInv'
    <2>1. Token' /\ Booting'
        BY <1>2 DEF IInv, TypeOK, Call, Token, Booting, Holders
    <2>2. OwnerState'
        BY <1>2 DEF IInv, TypeOK, Call, OwnerState, HasSelected, HasLoaded, SelectsFirst
    <2>3. LinesAccounted'
        BY <1>2 DEF IInv, TypeOK, Call, LinesAccounted, HasSelected, SelectsFirst
    <2>4. TransferUndisturbed' /\ NeverRefused'
        BY <1>2 DEF IInv, TypeOK, Call, TransferUndisturbed, NeverRefused
    <2>. QED
        BY <1>0, <2>1, <2>2, <2>3, <2>4 DEF IInv
<1>3. ASSUME NEW t \in Threads, SemWait(t) PROVE IInv'
    <2>1. Token' /\ Booting'
        BY <1>3 DEF IInv, TypeOK, SemWait, Token, Booting, Holders
    <2>2. OwnerState'
        BY <1>3 DEF IInv, TypeOK, SemWait, OwnerState, HasSelected, HasLoaded, SelectsFirst
    <2>3. LinesAccounted'
        BY <1>3 DEF IInv, TypeOK, SemWait, LinesAccounted, HasSelected, SelectsFirst
    <2>4. TransferUndisturbed' /\ NeverRefused'
        BY <1>3 DEF IInv, TypeOK, SemWait, TransferUndisturbed, NeverRefused
    <2>. QED
        BY <1>0, <2>1, <2>2, <2>3, <2>4 DEF IInv
<1>4. ASSUME NEW t \in Threads, LoadTransaction(t) PROVE IInv'
    <2>1. Token' /\ Booting'
        BY <1>4 DEF IInv, TypeOK, LoadTransaction, Token, Booting, Holders
    <2>2. OwnerState'
        BY <1>4 DEF IInv, TypeOK, LoadTransaction, Token, Holders, OwnerState,
                    HasSelected, HasLoaded, SelectsFirst
    <2>3. LinesAccounted'
        BY <1>4 DEF IInv, TypeOK, LoadTransaction, LinesAccounted, HasSelected, SelectsFirst
    <2>4. TransferUndisturbed' /\ NeverRefused'
        BY <1>4 DEF IInv, TypeOK, LoadTransaction, Token, Holders,
                    TransferUndisturbed, NeverRefused
    <2>. QED
        BY <1>0, <2>1, <2>2, <2>3, <2>4 DEF IInv
<1>5. ASSUME NEW t \in Threads, SelectChip(t) PROVE IInv'
    <2>1. Token' /\ Booting'
        BY <1>5 DEF IInv, TypeOK, SelectChip, Token, Booting, Holders
    <2>2. OwnerState'
        BY <1>5 DEF IInv, TypeOK, Exchange, SelectChip, Token, Holders, OwnerState,
                    HasSelected, HasLoaded, SelectsFirst
    <2>3. LinesAccounted'
        BY <1>5 DEF IInv, TypeOK, Exchange, SelectChip, LinesAccounted, HasSelected,
                    SelectsFirst
    <2>4. TransferUndisturbed' /\ NeverRefused'
        BY <1>5 DEF IInv, TypeOK, Exchange, SelectChip, Token, Holders,
                    TransferUndisturbed, NeverRefused
    <2>. QED
        BY <1>0, <2>1, <2>2, <2>3, <2>4 DEF IInv
<1>6. ASSUME NEW t \in Threads, SpiTransfer(t) PROVE IInv'
    <2>1. t \in Holders /\ wire = Idle /\ transaction = op[t] /\ cs[op[t].chip] = 0
        BY <1>6 DEF IInv, SpiTransfer, Token, Holders, OwnerState, HasSelected, HasLoaded
    <2>2. op[t] \in Exchange /\ wire' = op[t] /\ op[t] # Idle
        BY <1>6, <2>1 DEF IInv, TypeOK, SpiTransfer, Exchange, Idle
    <2>3. Token' /\ Booting'
        BY <1>6, <2>1, <2>2 DEF IInv, TypeOK, SpiTransfer, Token, Booting, Holders
    <2>4. OwnerState'
        BY <1>6, <2>1 DEF IInv, TypeOK, SpiTransfer, OwnerState, HasSelected,
                          HasLoaded, SelectsFirst
    <2>5. LinesAccounted'
        BY <1>6, <2>1, <2>2 DEF IInv, TypeOK, SpiTransfer, Token, Holders,
                                LinesAccounted, HasSelected, SelectsFirst
    <2>6. TransferUndisturbed' /\ NeverRefused'
        BY <1>6, <2>1, <2>2 DEF IInv, TypeOK, SpiTransfer, TransferUndisturbed, NeverRefused
    <2>. QED
        BY <1>0, <2>3, <2>4, <2>5, <2>6 DEF IInv
<1>7. ASSUME SlaveCallback PROVE IInv'
    <2>1. wire \in Exchange /\ transaction = wire /\ masterSem = 0 /\ Holders = {}
        BY <1>7 DEF IInv, TypeOK, SlaveCallback, Token, TransferUndisturbed
    <2>2. Token' /\ Booting'
        BY <1>7, <2>1 DEF IInv, TypeOK, SlaveCallback, Posts, Token, Booting, Holders
    <2>3. OwnerState'
        BY <1>7, <2>1 DEF IInv, TypeOK, SlaveCallback, Holders, OwnerState,
                          HasSelected, HasLoaded, SelectsFirst
    <2>4. LinesAccounted'
        BY <1>7, <2>1 DEF IInv, TypeOK, Exchange, SlaveCallback, Holders,
                          LinesAccounted, HasSelected, SelectsFirst
    <2>5. TransferUndisturbed' /\ NeverRefused'
        BY <1>7 DEF IInv, SlaveCallback, TransferUndisturbed, NeverRefused
    <2>. QED
        BY <1>0, <2>2, <2>3, <2>4, <2>5 DEF IInv
<1>8. CASE DequeueCount \/ (\E t \in Threads : Spin(t)) \/ UNCHANGED vars
    <2>1. UNCHANGED <<pc, op, masterSem, transaction, cs, wire, ticking>>
        BY <1>8 DEF DequeueCount, Spin, vars
    <2>. QED
        BY <1>0, <2>1 DEF IInv, Token, Booting, OwnerState, LinesAccounted, HasSelected,
            HasLoaded, SelectsFirst, Holders, TransferUndisturbed, NeverRefused
<1>. QED
    BY <1>1, <1>2, <1>3, <1>4, <1>5, <1>6, <1>7, <1>8 DEF Next, ThreadStep

LEMMA Inductive == Spec => []IInv
<1>. QED
    BY InitInductive, NextInductive, PTL DEF Spec

-----------------------------------------------------------------------------
(***************************************************************************)
(* What the bus guarantees.                                                *)
(***************************************************************************)

\* A line is low for the transfer on the wire or for the one thread that holds
\* the token, and never for both.
LEMMA OneSelectedByToken == IInv => OneChipSelected
<1>. SUFFICES ASSUME IInv, NEW c \in Chips, NEW d \in Chips, cs[c] = 0, cs[d] = 0
              PROVE  c = d
    BY DEF OneChipSelected
<1>1. \A t \in Threads : HasSelected(t) => t \in Holders
    BY DEF HasSelected, Holders
<1>2. CASE wire # Idle
    BY <1>1, <1>2 DEF IInv, Token, LinesAccounted
<1>3. CASE wire = Idle
    <2>1. PICK t \in Threads : HasSelected(t) /\ op[t].chip = c
        BY <1>3 DEF IInv, LinesAccounted
    <2>2. PICK u \in Threads : HasSelected(u) /\ op[u].chip = d
        BY <1>3 DEF IInv, LinesAccounted
    <2>3. t = u
        BY <1>1, <2>1, <2>2 DEF IInv, Token
    <2>. QED
        BY <2>1, <2>2, <2>3
<1>. QED
    BY <1>2, <1>3

\* For any set of threads: two encoder chips are never selected at once.
THEOREM ChipSelectExclusive == Spec => []OneChipSelected
<1>. QED
    BY Inductive, OneSelectedByToken, PTL

\* For any set of threads: slaveCallback finds the transaction record as the
\* transfer that has ended left it.
THEOREM TransactionIntegrity == Spec => []TransferUndisturbed
<1>1. IInv => TransferUndisturbed
    BY DEF IInv
<1>. QED
    BY Inductive, <1>1, PTL

\* For any set of threads: no SPI_transfer is refused, so no thread is caught in
\* a while(1).
THEOREM TransfersAccepted == Spec => []NeverRefused
<1>1. IInv => NeverRefused
    BY DEF IInv
<1>. QED
    BY Inductive, <1>1, PTL

LEMMA TokenInit == Init => TokenNeverLost
BY ThreadsAssumption DEF Init, TokenNeverLost

\* Each step hands the token on: from the semaphore to the thread, from the thread to
\* its transfer, from the transfer back to the semaphore.
LEMMA TokenStep == IInv /\ TokenNeverLost /\ [Next]_vars => TokenNeverLost'
<1>. SUFFICES ASSUME IInv, TokenNeverLost, [Next]_vars PROVE TokenNeverLost'
    OBVIOUS
<1>. USE ThreadsAssumption DEF IInv, TypeOK, TokenNeverLost
<1>1. ASSUME NEW t \in Threads, OpenSpi(t) PROVE TokenNeverLost'
    BY <1>1 DEF OpenSpi, SemInitValue
<1>2. ASSUME NEW t \in Threads, NEW c \in Chips, Call(t, c) PROVE TokenNeverLost'
    <2>1. \A u \in Holders : u \in Holders'
        BY <1>2 DEF Call, Holders
    <2>. QED
        BY <1>2, <2>1 DEF Call
<1>3. ASSUME NEW t \in Threads, SemWait(t) PROVE t \in Holders'
    BY <1>3 DEF SemWait, Holders
<1>4. ASSUME NEW t \in Threads, LoadTransaction(t) \/ SelectChip(t) PROVE t \in Holders'
    BY <1>4 DEF LoadTransaction, SelectChip, Holders
<1>5. ASSUME NEW t \in Threads, SpiTransfer(t) PROVE TokenNeverLost'
    <2>1. wire = Idle /\ op[t] \in Exchange
        BY <1>5 DEF SpiTransfer, Token, Holders
    <2>2. wire' = op[t] /\ op[t] # Idle
        BY <1>5, <2>1 DEF SpiTransfer, Exchange, Idle
    <2>. QED
        BY <2>2 DEF Idle
<1>6. ASSUME SlaveCallback PROVE masterSem' > 0
    BY <1>6 DEF SlaveCallback, Posts
<1>7. CASE DequeueCount \/ (\E t \in Threads : Spin(t)) \/ UNCHANGED vars
    BY <1>7 DEF DequeueCount, Spin, vars, Holders
<1>. QED
    BY <1>1, <1>2, <1>3, <1>4, <1>5, <1>6, <1>7 DEF Next, ThreadStep

\* For any set of threads: the token of the bus is always with the semaphore, with a
\* thread or with a transfer, so nobody waits at masterSem for a post that never comes.
THEOREM TokenKept == Spec => []TokenNeverLost
<1>. QED
    BY Inductive, TokenInit, TokenStep, PTL DEF Spec

\* The bus implements the port: a transfer is one exchange of the port, and
\* the interrupt answers it with the count of the chip that was read.
THEOREM Refinement == Spec => ImplementsPort
<1>1. Init => Port!PortInit
    BY DEF Init, Port!PortInit, Port!Idle, Idle
<1>2. IInv /\ [Next]_vars => [Port!PortNext]_(Port!portVars)
    <2>. SUFFICES ASSUME IInv, [Next]_vars PROVE [Port!PortNext]_(Port!portVars)
        OBVIOUS
    <2>. USE DEF Port!portVars, Port!Idle, Idle
    <2>1. ASSUME NEW t \in Threads, SpiTransfer(t) PROVE Port!PortNext
        <3>1. wire = Idle /\ op[t] \in Port!Exchange
            BY <2>1 DEF IInv, TypeOK, Exchange, Chips, Port!Exchange, Port!Chips,
                        SpiTransfer, Token, Holders
        <3>2. Port!Start(op[t])
            BY <2>1, <3>1 DEF SpiTransfer, Port!Start
        <3>. QED
            BY <3>1, <3>2 DEF Port!PortNext
    <2>2. ASSUME SlaveCallback PROVE Port!Finish
        BY <2>2 DEF IInv, SlaveCallback, TransferUndisturbed, SendsCount, Port!Finish,
            SendFromISR, HasRoom, Port!SendFromISR, Port!HasRoom
    <2>3. ASSUME DequeueCount PROVE Port!Take
        BY <2>3 DEF DequeueCount, Port!Take
    <2>4. ASSUME NEW t \in Threads,
                 \/ OpenSpi(t) \/ Spin(t) \/ SemWait(t) \/ LoadTransaction(t) \/ SelectChip(t)
                 \/ \E c \in Chips : Call(t, c)
          PROVE  UNCHANGED <<wire, q1>>
        BY <2>4 DEF OpenSpi, Spin, vars, SemWait, LoadTransaction, SelectChip, Call
    <2>5. CASE UNCHANGED vars
        BY <2>5 DEF vars
    <2>. QED
        BY <2>1, <2>2, <2>3, <2>4, <2>5 DEF Next, ThreadStep, Port!PortNext
<1>. QED
    BY Inductive, <1>1, <1>2, PTL DEF Spec, ImplementsPort, Port!PortSpec
=============================================================================
