------------------------- MODULE RoverPipelineProofs -------------------------
(***************************************************************************)
(* The threads and queues of the rover for any queue size, any messages    *)
(* and any number of them.                                                 *)
(***************************************************************************)
EXTENDS RoverPipeline, SelectionProofs

Queues == {1, 2, 3, 6}

CloudTypes == {1} \cup 4..9

MotorVals == {"raw", "adjusted"} \cup WifiVals

\* The words that are ever put into each queue.
QueueWords(n) ==
    CASE n = 1 -> {SPIWord("none"), TimeWord("none")} \cup {WIFIWord(c) : c \in WifiVals}
      [] n = 2 -> {MotorWord(w) : w \in MotorVals}
      [] n = 3 -> {JsonWord("none", type) : type \in 0..10}
      [] n = 6 -> {CloudWord("none", type) : type \in CloudTypes}

Sends(n, words) == {Send(n, w) : w \in words}

\* The calls that the handlers of each thread make.
CallsOf(t) ==
    CASE t = "rx" -> Sends(6, QueueWords(6)) \cup Sends(3, QueueWords(3))
      [] t = "t0" -> {Call("spiOP")} \cup Sends(6, QueueWords(6)) \cup Sends(2, QueueWords(2))
      [] t = "t1" -> {Write(w) : w \in MotorVals}
      [] t = "t2" -> {Call("initSpi"), Call("Uartinit0"), Call("timer"), Call("spiOP"),
                      Call("errorRoutine")}
                     \cup Sends(1, QueueWords(1)) \cup Sends(2, QueueWords(2))
      [] t = "mc" -> {Call("publish")}

QueueType ==
    /\ DOMAIN queue = Queues /\ queue = [n \in Queues |-> queue[n]]
    /\ \A n \in Queues : queue[n] \in Seq(QueueWords(n)) /\ Len(queue[n]) <= QUEUE_SIZE

TodoType ==
    /\ DOMAIN todo = Tasks /\ todo = [t \in Tasks |-> todo[t]]
    /\ \A t \in Tasks : todo[t] \in Seq(CallsOf(t)) /\ (todo[t] = Boot \/ Len(todo[t]) <= 2)

FlagType ==
    /\ awaitingAck \in BOOLEAN /\ ticking \in BOOLEAN /\ uartOpen \in BOOLEAN
    /\ halted \in BOOLEAN /\ rawSince \in BOOLEAN
    /\ awaitingAck => todo["mc"] # << >>

ScalarType ==
    /\ bus \in {"free", "configuring", "reading"}
    /\ uart \in {"none"} \cup MotorVals
    /\ lastWifiVal \in WifiVals /\ counter \in 1..3 /\ enable_counter \in 0..3
    /\ stop_counter \in {0, 1, 666, 777}
    /\ received \in 0..MaxReceived

DataType == QueueType /\ TodoType /\ ScalarType

PipeType == DataType /\ FlagType

\* Before the UART is open, threadFxn2 has not started: no command is on its way
\* to the controller, which is at rest and only asks for the encoders.
ClosedInv ==
    ~uartOpen =>
        /\ todo["t2"] \in {Boot, Tail(Boot)}
        /\ todo["t1"] = << >> /\ todo["t0"] \in Seq({Call("spiOP")})
        /\ queue[1] \in Seq({SPIWord("none"), TimeWord("none")}) /\ queue[2] = << >>
        /\ uart = "none" /\ lastWifiVal = STOP

\* The newest word on its way from queue 2 to the UART, or the one it shows.
Newest ==
    IF queue[2] # << >> THEN queue[2][Len(queue[2])].val
    ELSE IF todo["t1"] # << >> THEN Head(todo["t1"]).word.val
    ELSE uart

\* What the controller still sends to the motors, if anything.
Silent == \A i \in 1..Len(todo["t0"]) : todo["t0"][i].to # 2

StopsNext ==
    /\ todo["t0"] # << >>
    /\ todo["t0"][Len(todo["t0"])] = SendMotorMsgToQ2(STOP)

\* The cases in which another word may follow that of the STOP.
Excused == rawSince \/ StopUnderWay

\* A rover that was told to stop: the controller is about to send the word, or it
\* has sent it and only a word given by number can follow it.
StopInv ==
    /\ Len(todo["t1"]) <= 1
    /\ lastWifiVal = STOP =>
          StopsNext \/ (Silent /\ (Excused \/ Newest \in {STOP, "none"}))

Holds(s, x) == \E i \in 1..Len(s) : s[i] = x

\* A STOP is in queue 3 behind place k, or the callback is about to put one there.
StopBehind(k) ==
    \/ \E j \in 1..Len(queue[3]) : j > k /\ queue[3][j] = JsonWord("none", 5)
    \/ Holds(todo["rx"], SendJsonMsgToQ3(5))

\* A raw word that was received before the last STOP is ahead of it until threadFxn2
\* has put it into queue 2, past the controller.
BypassInv ==
    ~rawSince =>
        /\ ~Holds(todo["rx"], SendJsonMsgToQ3(10))
        /\ \A k \in 1..Len(queue[3]) : queue[3][k] = JsonWord("none", 10) => StopBehind(k)
        /\ \A i \in 1..Len(todo["t2"]) : todo["t2"][i].to = 2 => StopBehind(0)

-----------------------------------------------------------------------------
(***************************************************************************)
(* What a step does to one queue or to the calls of one thread.            *)
(***************************************************************************)

LEMMA WordGoesIn ==
    ASSUME QueueType, NEW n \in Queues, NEW w \in QueueWords(n), HasRoom(queue[n]),
           queue' = [queue EXCEPT ![n] = Append(@, w)]
    PROVE  QueueType'
<1>1. queue[n] \in Seq(QueueWords(n)) /\ Len(queue[n]) < QUEUE_SIZE
    BY DEF QueueType, HasRoom
<1>2. Append(queue[n], w) \in Seq(QueueWords(n)) /\ Len(Append(queue[n], w)) = Len(queue[n]) + 1
    BY <1>1, AppendProperties
<1>3. Len(Append(queue[n], w)) <= QUEUE_SIZE
    <2>1. Len(queue[n]) \in Nat
        BY <1>1, LenProperties
    <2>. QED
        BY <1>1, <1>2, <2>1, QueueSizeAssumption
<1>4. queue' = [m \in Queues |-> IF m = n THEN Append(queue[n], w) ELSE queue[m]]
    BY DEF QueueType
<1>. QED
    BY <1>2, <1>3, <1>4 DEF QueueType

LEMMA WordGoesOut ==
    ASSUME QueueType, NEW n \in Queues, queue[n] # << >>,
           queue' = [queue EXCEPT ![n] = Tail(@)]
    PROVE  QueueType' /\ Head(queue[n]) \in QueueWords(n)
<1>1. queue[n] \in Seq(QueueWords(n)) /\ Len(queue[n]) <= QUEUE_SIZE
    BY DEF QueueType
<1>2. Head(queue[n]) \in QueueWords(n) /\ Tail(queue[n]) \in Seq(QueueWords(n))
      /\ Len(Tail(queue[n])) = Len(queue[n]) - 1
    BY <1>1, HeadTailProperties
<1>3. Len(Tail(queue[n])) <= QUEUE_SIZE
    <2>1. Len(queue[n]) \in Nat
        BY <1>1, LenProperties
    <2>. QED
        BY <1>1, <1>2, <2>1, QueueSizeAssumption
<1>4. queue' = [m \in Queues |-> IF m = n THEN Tail(queue[n]) ELSE queue[m]]
    BY DEF QueueType
<1>. QED
    BY <1>2, <1>3, <1>4 DEF QueueType

LEMMA NextCalls ==
    ASSUME TodoType, NEW t \in Tasks, NEW calls \in Seq(CallsOf(t)), Len(calls) <= 2,
           todo' = [todo EXCEPT ![t] = calls]
    PROVE  TodoType'
<1>1. todo' = [u \in Tasks |-> IF u = t THEN calls ELSE todo[u]]
    BY DEF TodoType
<1>. QED
    BY <1>1 DEF TodoType

LEMMA CallDone ==
    ASSUME TodoType, NEW t \in Tasks, todo[t] # << >>,
           todo' = [todo EXCEPT ![t] = Tail(@)]
    PROVE  TodoType' /\ Head(todo[t]) \in CallsOf(t)
<1>1. todo[t] \in Seq(CallsOf(t)) /\ (todo[t] = Boot \/ Len(todo[t]) <= 2)
    BY DEF TodoType
<1>2. Head(todo[t]) \in CallsOf(t) /\ Tail(todo[t]) \in Seq(CallsOf(t))
      /\ Len(Tail(todo[t])) = Len(todo[t]) - 1
    BY <1>1, HeadTailProperties
<1>3. Len(Tail(todo[t])) <= 2
    <2>1. Len(todo[t]) \in Nat
        BY <1>1, LenProperties
    <2>2. todo[t] = Boot => Len(todo[t]) = 3
        <3>1. Len(Boot) = 3
            BY DEF Boot
        <3>. QED
            BY <3>1, Zenon
    <2>3. Len(todo[t]) = 3 \/ Len(todo[t]) <= 2
        BY <1>1, <2>2, Zenon
    <2>4. \A n \in Nat : n = 3 \/ n <= 2 => n - 1 <= 2
        OBVIOUS
    <2>. QED
        BY <1>2, <2>1, <2>3, <2>4, Zenon
<1>. QED
    BY <1>2, <1>3, NextCalls

\* No call, one call, two calls, as the handlers write them.
LEMMA FewCalls ==
    ASSUME NEW S, NEW a \in S, NEW b \in S
    PROVE  /\ << >> \in Seq(S) /\ Len(<< >>) <= 2
           /\ <<a>> \in Seq(S) /\ Len(<<a>>) <= 2
           /\ <<a, b>> \in Seq(S) /\ Len(<<a, b>>) <= 2
OBVIOUS

\* What the calls of each thread are.
LEMMA CallNames ==
    /\ \A n, w : Send(n, w).call = "send" /\ Send(n, w).to = n /\ Send(n, w).word = w
    /\ \A c : Call(c).call = c /\ Call(c).to = 0
    /\ \A w : Write(w).call = "UART_write" /\ Write(w).to = 0 /\ Write(w).word.val = w
BY DEF Send, Call, Write, Word

\* A send is one of the thread's, to a queue that takes its word.
LEMMA SendTyped ==
    ASSUME NEW t \in Tasks, NEW op \in CallsOf(t), op.call = "send"
    PROVE  op.to \in Queues /\ op.word \in QueueWords(op.to)
           /\ (op.to = 2 => t \in {"t0", "t2"})
<1>1. ASSUME NEW n \in Queues, op \in Sends(n, QueueWords(n))
      PROVE  op.to = n /\ op.word \in QueueWords(n)
    BY <1>1, CallNames DEF Sends
<1>2. \A c \in {"initSpi", "Uartinit0", "timer", "spiOP", "errorRoutine", "publish"} : op # Call(c)
    BY CallNames
<1>3. \A w : op # Write(w)
    BY CallNames
<1>4. CASE t = "rx"
    <2>1. op \in Sends(6, QueueWords(6)) \/ op \in Sends(3, QueueWords(3))
        BY <1>4 DEF CallsOf
    <2>. QED
        BY <1>1, <1>4, <2>1 DEF Queues
<1>5. CASE t = "t0"
    <2>1. op \in Sends(6, QueueWords(6)) \/ op \in Sends(2, QueueWords(2))
        BY <1>2, <1>5 DEF CallsOf
    <2>. QED
        BY <1>1, <1>5, <2>1 DEF Queues
<1>6. CASE t = "t2"
    <2>1. op \in Sends(1, QueueWords(1)) \/ op \in Sends(2, QueueWords(2))
        BY <1>2, <1>6 DEF CallsOf
    <2>. QED
        BY <1>1, <1>6, <2>1 DEF Queues
<1>7. t # "t1" /\ t # "mc"
    BY <1>2, <1>3 DEF CallsOf
<1>. QED
    BY <1>4, <1>5, <1>6, <1>7 DEF Tasks

-----------------------------------------------------------------------------
(***************************************************************************)
(* What the handlers leave to be done.                                     *)
(***************************************************************************)

\* The calls of the handlers are those of CallsOf.
LEMMA CallsTyped ==
    /\ \A type \in CloudTypes : SendWIFIMsgToQ6(type) \in CallsOf("rx") \cap CallsOf("t0")
    /\ \A type \in 0..10 : SendJsonMsgToQ3(type) \in CallsOf("rx")
    /\ \A w \in MotorVals : SendMotorMsgToQ2(w) \in CallsOf("t0") \cap CallsOf("t2")
    /\ \A c \in WifiVals : SendWIFIMsgToQ1(c) \in CallsOf("t2")
    /\ \A w \in MotorVals : Write(w) \in CallsOf("t1")
    /\ Call("spiOP") \in CallsOf("t0") \cap CallsOf("t2")
    /\ {Call("initSpi"), Call("Uartinit0"), Call("timer"), Call("errorRoutine")} \subseteq CallsOf("t2")
    /\ Call("publish") \in CallsOf("mc")
<1>1. \A type \in CloudTypes : SendWIFIMsgToQ6(type) \in Sends(6, QueueWords(6))
    BY DEF SendWIFIMsgToQ6, Sends, QueueWords
<1>2. \A type \in 0..10 : SendJsonMsgToQ3(type) \in Sends(3, QueueWords(3))
    BY DEF SendJsonMsgToQ3, Sends, QueueWords
<1>3. \A w \in MotorVals : SendMotorMsgToQ2(w) \in Sends(2, QueueWords(2))
    BY DEF SendMotorMsgToQ2, Sends, QueueWords
<1>4. \A c \in WifiVals : SendWIFIMsgToQ1(c) \in Sends(1, QueueWords(1))
    BY DEF SendWIFIMsgToQ1, Sends, QueueWords
<1>. QED
    BY <1>1, <1>2, <1>3, <1>4 DEF CallsOf

\* What each receiver reads in a word of its queue.
LEMMA WordsRead ==
    /\ \A w \in QueueWords(3) : DequeueQ3(w, Unset).type = w.tag - 1 /\ w.tag - 1 \in 0..10
    /\ \A w \in QueueWords(2) : DequeueQ2(w, Unset).val = w.val /\ w.val \in MotorVals
    /\ \A w \in QueueWords(6) : DequeueQ6(w, Unset).type \in CloudTypes
<1>1. \A w \in QueueWords(3) : DequeueQ3(w, Unset).type = w.tag - 1 /\ w.tag - 1 \in 0..10
    <2>1. SUFFICES ASSUME NEW type \in 0..10
                   PROVE  LET w == JsonWord("none", type)
                          IN  DequeueQ3(w, Unset).type = w.tag - 1 /\ w.tag - 1 \in 0..10
        BY DEF QueueWords
    <2>2. JsonWord("none", type).tag = type + 1
        BY DEF JsonWord, Word
    <2>. QED
        BY <2>2 DEF DequeueQ3, Unset
<1>2. \A w \in QueueWords(2) : DequeueQ2(w, Unset).val = w.val /\ w.val \in MotorVals
    BY DEF QueueWords, MotorWord, Word, DequeueQ2, Unset
<1>3. \A w \in QueueWords(6) : DequeueQ6(w, Unset).type \in CloudTypes
    <2>1. SUFFICES ASSUME NEW type \in CloudTypes
                   PROVE  DequeueQ6(CloudWord("none", type), Unset).type \in CloudTypes
        BY DEF QueueWords
    <2>2. type \in 1..9
        BY DEF CloudTypes
    <2>3. CloudWord("none", type).tag = type + 1
        BY <2>2 DEF CloudWord, Word
    <2>. QED
        BY <2>2, <2>3 DEF DequeueQ6, Unset
<1>. QED
    BY <1>1, <1>2, <1>3

\* The words of queue 1 by what the controller takes them for.
LEMMA MessageTypes ==
    ASSUME QueueType, NEW type, NextMessage(type)
    PROVE  LET w == Head(queue[1])
           IN  /\ w \in QueueWords(1)
               /\ type = Q1_TYPE_TIME => w.tag = 4
               /\ type = Q1_TYPE_SPI => w.tag = 1
               /\ type = Q1_TYPE_WIFI => w.tag = 2 /\ w.val \in WifiVals
<1>. DEFINE w == Head(queue[1])
<1>1. queue[1] \in Seq(QueueWords(1)) /\ queue[1] # << >>
    BY DEF QueueType, Queues, NextMessage
<1>2. w \in QueueWords(1)
    BY <1>1, HeadTailProperties
<1>3. \/ w.tag \in {1, 4}
      \/ w.tag = 2 /\ w.val \in WifiVals
    BY <1>2 DEF QueueWords, SPIWord, TimeWord, WIFIWord, Word
<1>4. /\ w.tag = 1 => type = Q1_TYPE_SPI
      /\ w.tag = 4 => type = Q1_TYPE_TIME
      /\ w.tag = 2 => type = Q1_TYPE_WIFI
    BY DEF NextMessage, Unset1, DequeueQ1
<1>. QED
    BY <1>2, <1>3, <1>4 DEF Q1_TYPE_SPI, Q1_TYPE_TIME, Q1_TYPE_WIFI

LEMMA WorkTyped ==
    ASSUME NEW type \in 0..10
    PROVE  Work(type) \in Seq(CallsOf("t2")) /\ Len(Work(type)) <= 2
<1>1. \A a \in CallsOf("t2") : << >> \in Seq(CallsOf("t2")) /\ <<a>> \in Seq(CallsOf("t2"))
                               /\ Len(<< >>) <= 2 /\ Len(<<a>>) <= 2
    BY FewCalls
<1>2. Work(type) = << >> \/ \E a \in CallsOf("t2") : Work(type) = <<a>>
    <2>1. type \in 4..8 => CommandOf[type] \in WifiVals
        BY DEF CommandOf, WifiVals
    <2>2. "raw" \in MotorVals
        BY DEF MotorVals
    <2>. QED
        BY <2>1, <2>2, CallsTyped DEF Work
<1>3. \E a : a \in CallsOf("t2")
    BY CallsTyped
<1>. QED
    BY <1>1, <1>2, <1>3

LEMMA PublicationsTyped ==
    ASSUME NEW type \in CloudTypes
    PROVE  Publications(type) \in Seq(CallsOf("mc")) /\ Len(Publications(type)) <= 2
<1>1. \/ Publications(type) = << >>
      \/ Publications(type) = <<Call("publish")>>
      \/ Publications(type) = <<Call("publish"), Call("publish")>>
    BY DEF Publications, CloudTypes
<1>2. Call("publish") \in CallsOf("mc")
    BY CallsTyped
<1>. QED
    BY <1>1, <1>2, FewCalls

LEMMA JoinedTyped ==
    ASSUME NEW S, NEW a \in S, NEW b \in S, NEW x \in {<< >>, <<a>>}, NEW y \in {<< >>, <<b>>}
    PROVE  x \o y \in Seq(S) /\ Len(x \o y) <= 2
<1>1. x \o y \in {<< >>, <<a>>, <<b>>, <<a, b>>}
    BY Joined
<1>. QED
    BY <1>1, FewCalls

\* The calls of the controller after a count and after a command.
CountCalls ==
    (IF Moving /\ counter = 2 THEN <<SendWIFIMsgToQ6(5)>> ELSE << >>) \o
    (IF Settles THEN <<SendMotorMsgToQ2("adjusted")>> ELSE << >>)

CommandCalls(c) == Announcement(c) \o <<SendMotorMsgToQ2(c)>>

LEMMA CountCallsTyped == CountCalls \in Seq(CallsOf("t0")) /\ Len(CountCalls) <= 2
<1>. DEFINE x == IF Moving /\ counter = 2 THEN <<SendWIFIMsgToQ6(5)>> ELSE << >>
            y == IF Settles THEN <<SendMotorMsgToQ2("adjusted")>> ELSE << >>
<1>1. SendWIFIMsgToQ6(5) \in CallsOf("t0") /\ SendMotorMsgToQ2("adjusted") \in CallsOf("t0")
    BY CallsTyped DEF CloudTypes, MotorVals
<1>2. x \in {<< >>, <<SendWIFIMsgToQ6(5)>>} /\ y \in {<< >>, <<SendMotorMsgToQ2("adjusted")>>}
    OBVIOUS
<1>3. CountCalls = x \o y
    BY DEF CountCalls
<1>. HIDE DEF x, y
<1>. QED
    BY <1>1, <1>2, <1>3, JoinedTyped

LEMMA CommandCallsTyped ==
    ASSUME NEW c \in WifiVals
    PROVE  /\ CommandCalls(c) \in Seq(CallsOf("t0")) /\ Len(CommandCalls(c)) <= 2
           /\ \/ CommandCalls(c) = <<SendMotorMsgToQ2(c)>>
              \/ \E type \in CloudTypes :
                    CommandCalls(c) = <<SendWIFIMsgToQ6(type), SendMotorMsgToQ2(c)>>
<1>1. Announcement(c) = << >> \/ \E type \in CloudTypes : Announcement(c) = <<SendWIFIMsgToQ6(type)>>
    BY DEF Announcement, CloudTypes
<1>2. \A type \in CloudTypes : SendWIFIMsgToQ6(type) \in CallsOf("t0")
    BY CallsTyped
<1>3. SendMotorMsgToQ2(c) \in CallsOf("t0")
    BY CallsTyped DEF MotorVals
<1>4. \/ CommandCalls(c) = <<SendMotorMsgToQ2(c)>>
      \/ \E type \in CloudTypes : CommandCalls(c) = <<SendWIFIMsgToQ6(type), SendMotorMsgToQ2(c)>>
    BY <1>1, Joined DEF CommandCalls
<1>. QED
    BY <1>2, <1>3, <1>4, FewCalls

\* The calls of the callback.
ReceiveCalls(body) ==
    <<SendWIFIMsgToQ6(4)>> \o
    IF body = "other" THEN << >> ELSE <<SendJsonMsgToQ3(BodyTypes[body])>>

LEMMA ReceiveCallsTyped ==
    ASSUME NEW body \in Bodies
    PROVE  /\ ReceiveCalls(body) \in Seq(CallsOf("rx")) /\ Len(ReceiveCalls(body)) <= 2
           /\ \/ ReceiveCalls(body) = <<SendWIFIMsgToQ6(4)>>
              \/ \E type \in 0..10 :
                    ReceiveCalls(body) = <<SendWIFIMsgToQ6(4), SendJsonMsgToQ3(type)>>
<1>1. body # "other" => BodyTypes[body] \in 0..10
    BY BodiesAssumption DEF AllBodies, BodyTypes
<1>2. \A type \in 0..10 : SendJsonMsgToQ3(type) \in CallsOf("rx")
    BY CallsTyped
<1>3. SendWIFIMsgToQ6(4) \in CallsOf("rx")
    BY CallsTyped DEF CloudTypes
<1>4. \/ ReceiveCalls(body) = <<SendWIFIMsgToQ6(4)>>
      \/ \E type \in 0..10 : ReceiveCalls(body) = <<SendWIFIMsgToQ6(4), SendJsonMsgToQ3(type)>>
    BY <1>1, Joined DEF ReceiveCalls
<1>. QED
    BY <1>2, <1>3, <1>4, FewCalls

-----------------------------------------------------------------------------
(***************************************************************************)
(* Types.                                                                  *)
(***************************************************************************)

LEMMA PipeTypeInit == Init => PipeType
<1>. SUFFICES ASSUME Init PROVE PipeType
    OBVIOUS
<1>1. QueueType
    <2>1. /\ queue = [n \in Queues |-> << >>]
          /\ \A n \in Queues : << >> \in Seq(QueueWords(n)) /\ Len(<< >>) = 0
        BY DEF Init, Queues
    <2>. QED
        BY <2>1, QueueSizeAssumption DEF QueueType
<1>2. TodoType
    <2>1. Boot \in Seq(CallsOf("t2"))
        BY CallsTyped DEF Boot
    <2>2. \A t \in Tasks : << >> \in Seq(CallsOf(t)) /\ Len(<< >>) <= 2
        OBVIOUS
    <2>3. todo = [t \in Tasks |-> IF t = "t2" THEN Boot ELSE << >>]
        BY DEF Init
    <2>. HIDE DEF Init
    <2>. QED
        BY <2>1, <2>2, <2>3 DEF TodoType
<1>3. ScalarType
    BY BodiesAssumption DEF Init, ScalarType, WifiVals
<1>4. FlagType
    BY DEF Init, FlagType
<1>. QED
    BY <1>1, <1>2, <1>3, <1>4 DEF PipeType, DataType

\* An interrupt that puts a word into a queue, or drops it.
LEMMA Interrupted ==
    ASSUME QueueType, NEW n \in Queues, NEW w \in QueueWords(n), Interrupt(n, w)
    PROVE  QueueType'
<1>1. CASE HasRoom(queue[n])
    <2>1. queue' = [queue EXCEPT ![n] = Append(@, w)]
        BY <1>1 DEF Interrupt, SendFromISR
    <2>. QED
        BY <1>1, <2>1, WordGoesIn
<1>2. CASE ~HasRoom(queue[n])
    <2>1. queue' = queue
        BY <1>2 DEF Interrupt, SendFromISR, QueueType
    <2>. QED
        BY <2>1 DEF QueueType
<1>. QED
    BY <1>1, <1>2

\* The call that a thread makes: it is one of its own.
LEMMA SendStepTyped ==
    ASSUME QueueType, TodoType, NEW t \in Tasks, SendStep(t)
    PROVE  /\ QueueType' /\ TodoType'
           /\ LET op == Head(todo[t])
              IN  /\ op \in CallsOf(t) /\ op.to \in Queues /\ op.word \in QueueWords(op.to)
                  /\ op.to = 2 => t \in {"t0", "t2"}
                  /\ queue' = [queue EXCEPT ![op.to] = Append(@, op.word)]
<1>. DEFINE op == Head(todo[t])
<1>1. TodoType' /\ op \in CallsOf(t)
    BY CallDone DEF SendStep, Running
<1>2. op.to \in Queues /\ op.word \in QueueWords(op.to) /\ (op.to = 2 => t \in {"t0", "t2"})
    <2>1. op.call = "send"
        BY DEF SendStep
    <2>. HIDE DEF op
    <2>. QED
        BY <1>1, <2>1, SendTyped
<1>3. HasRoom(queue[op.to]) /\ queue' = [queue EXCEPT ![op.to] = Append(@, op.word)]
    BY DEF SendStep, Put
<1>. HIDE DEF op
<1>4. QueueType'
    BY <1>2, <1>3, WordGoesIn
<1>. QED
    BY <1>1, <1>2, <1>3, <1>4 DEF op

LEMMA DequeueTyped ==
    ASSUME QueueType, TodoType, NEW t \in Tasks, NEW n \in Queues,
           NEW calls \in Seq(CallsOf(t)), Len(calls) <= 2, Dequeue(t, n, calls)
    PROVE  QueueType' /\ TodoType'
<1>1. QueueType'
    BY WordGoesOut DEF Dequeue
<1>2. TodoType'
    BY NextCalls DEF Dequeue
<1>. QED
    BY <1>1, <1>2

\* The head of a queue that is not empty is one of its words.
LEMMA HeadTyped ==
    ASSUME QueueType, NEW n \in Queues, queue[n] # << >>
    PROVE  Head(queue[n]) \in QueueWords(n)
BY HeadTailProperties DEF QueueType

\* mc waits for an acknowledgement only while it has something to publish.
LEMMA FlagTypeStep == PipeType /\ [Next]_vars => FlagType'
<1>. SUFFICES ASSUME PipeType, [Next]_vars PROVE FlagType'
    OBVIOUS
<1>1. /\ FlagType /\ DOMAIN todo = Tasks
      /\ \A t \in Tasks \ {"mc"} : \A calls : [todo EXCEPT ![t] = calls]["mc"] = todo["mc"]
    BY DEF PipeType, DataType, TodoType, Tasks
<1>2. ASSUME NEW t \in {"rx", "t0", "t2"}, SendStep(t) PROVE FlagType'
    BY <1>1, <1>2 DEF SendStep, FlagType, device, Tasks
<1>3. ASSUME NEW t \in {"t0", "t2"}, SpiOP(t) PROVE FlagType'
    BY <1>1, <1>3 DEF SpiOP, FlagType, Tasks
<1>4. CASE Uartinit0
    BY <1>1, <1>4 DEF Uartinit0, FlagType, Tasks
<1>19. CASE InitSpi
    BY <1>1, <1>19 DEF InitSpi, FlagType, Tasks
<1>5. CASE StartTimer
    BY <1>1, <1>5 DEF StartTimer, FlagType, Tasks
<1>6. CASE ErrorRoutine
    BY <1>1, <1>6 DEF ErrorRoutine, FlagType, Tasks
<1>7. CASE UartWrite
    BY <1>1, <1>7 DEF UartWrite, FlagType, Tasks
<1>8. CASE Publish
    BY <1>1, <1>8 DEF Publish, Running, FlagType
<1>9. CASE PubAck
    BY <1>1, <1>9 DEF PubAck, FlagType
<1>10. ASSUME NEW body \in Bodies, Receive(body) PROVE FlagType'
    BY <1>1, <1>10 DEF Receive, FlagType, device, Tasks
<1>11. CASE ThreadFxn1
    BY <1>1, <1>11 DEF ThreadFxn1, Dequeue, FlagType, device, Tasks
<1>12. CASE ThreadFxn2
    BY <1>1, <1>12 DEF ThreadFxn2, Dequeue, FlagType, device, Tasks
<1>13. CASE HandleTick
    BY <1>1, <1>13 DEF HandleTick, Dequeue, FlagType, device, Tasks
<1>14. CASE HandleCount
    BY <1>1, <1>14 DEF HandleCount, Dequeue, FlagType, device, Tasks
<1>15. CASE HandleCommand
    BY <1>1, <1>15 DEF HandleCommand, Dequeue, FlagType, device, Tasks
<1>16. CASE MqttClient
    BY <1>1, <1>16 DEF MqttClient, Dequeue, Waiting, FlagType, device
<1>17. CASE SpiTimer \/ StatsTimer \/ SpiDone
    BY <1>1, <1>17 DEF SpiTimer, StatsTimer, SpiDone, Interrupt, FlagType
<1>18. CASE UNCHANGED vars
    BY <1>1, <1>18 DEF vars, device, FlagType
<1>. QED
    BY <1>2, <1>3, <1>4, <1>5, <1>6, <1>7, <1>8, <1>9, <1>10, <1>11, <1>12, <1>13, <1>14,
       <1>15, <1>16, <1>17, <1>18, <1>19
    DEF Next, Rx, T0, T1, T2, Mc, Halted

LEMMA DataTypeStep == PipeType /\ [Next]_vars => DataType'
<1>. SUFFICES ASSUME PipeType, [Next]_vars PROVE DataType'
    OBVIOUS
<1>0. QueueType /\ TodoType /\ FlagType /\ ScalarType /\ Tasks = {"rx", "t0", "t1", "t2", "mc"}
      /\ {1, 2, 3, 6} = Queues
    BY DEF PipeType, DataType, Tasks, Queues
<1>1. ASSUME NEW t \in {"rx", "t0", "t2"}, SendStep(t) PROVE DataType'
    <2>1. QueueType' /\ TodoType'
        BY <1>0, <1>1, SendStepTyped
    <2>2. ScalarType'
        BY <1>0, <1>1 DEF SendStep, ScalarType, device, controller
    <2>. QED
        BY <2>1, <2>2 DEF DataType
<1>2. ASSUME NEW t \in {"t0", "t2"}, SpiOP(t) PROVE DataType'
    <2>1. QueueType' /\ TodoType'
        BY <1>0, <1>2, CallDone DEF SpiOP, Running, QueueType
    <2>2. ScalarType'
        BY <1>0, <1>2 DEF SpiOP, ScalarType, controller
    <2>. QED
        BY <2>1, <2>2 DEF DataType
<1>3. ASSUME InitSpi \/ Uartinit0 \/ StartTimer \/ ErrorRoutine PROVE DataType'
    <2>1. todo' = [todo EXCEPT !["t2"] = Tail(@)] /\ todo["t2"] # << >> /\ queue' = queue
        BY <1>3 DEF InitSpi, Uartinit0, StartTimer, ErrorRoutine, Running
    <2>2. QueueType' /\ TodoType'
        BY <1>0, <2>1, CallDone DEF QueueType
    <2>3. ScalarType'
        BY <1>0, <1>3 DEF InitSpi, Uartinit0, StartTimer, ErrorRoutine, ScalarType, controller
    <2>. QED
        BY <2>2, <2>3 DEF DataType
<1>4. CASE UartWrite
    <2>1. QueueType' /\ TodoType' /\ Head(todo["t1"]) \in CallsOf("t1")
        BY <1>0, <1>4, CallDone DEF UartWrite, Running, QueueType
    <2>2. uart' \in MotorVals
        BY <1>4, <2>1, CallNames DEF UartWrite, CallsOf
    <2>3. ScalarType'
        BY <1>0, <1>4, <2>2 DEF UartWrite, ScalarType, controller
    <2>. QED
        BY <2>1, <2>3 DEF DataType
<1>5. CASE Publish
    BY <1>0, <1>5 DEF Publish, DataType, QueueType, TodoType, ScalarType, controller
<1>6. CASE PubAck
    <2>1. todo["mc"] # << >>
        BY <1>0, <1>6 DEF PubAck, FlagType
    <2>2. QueueType' /\ TodoType'
        BY <1>0, <1>6, <2>1, CallDone DEF PubAck, QueueType
    <2>3. ScalarType'
        BY <1>0, <1>6 DEF PubAck, ScalarType, controller
    <2>. QED
        BY <2>2, <2>3 DEF DataType
<1>7. ASSUME NEW body \in Bodies, Receive(body) PROVE DataType'
    <2>1. todo' = [todo EXCEPT !["rx"] = ReceiveCalls(body)] /\ queue' = queue
        BY <1>7 DEF Receive, ReceiveCalls
    <2>2. QueueType' /\ TodoType'
        BY <1>0, <2>1, ReceiveCallsTyped, NextCalls DEF QueueType
    <2>3. ScalarType'
        BY <1>0, <1>7, BodiesAssumption DEF Receive, ScalarType, controller, device
    <2>. QED
        BY <2>2, <2>3 DEF DataType
<1>8. CASE ThreadFxn2
    <2>. DEFINE type == DequeueQ3(Head(queue[3]), Unset).type
    <2>1. type \in 0..10
        BY <1>0, <1>8, HeadTyped, WordsRead DEF ThreadFxn2, Dequeue
    <2>2. Dequeue("t2", 3, Work(type))
        BY <1>8 DEF ThreadFxn2
    <2>. HIDE DEF type
    <2>3. QueueType' /\ TodoType'
        BY <1>0, <2>1, <2>2, WorkTyped, DequeueTyped
    <2>4. ScalarType'
        BY <1>0, <1>8 DEF ThreadFxn2, ScalarType, controller, device
    <2>. QED
        BY <2>3, <2>4 DEF DataType
<1>9. CASE ThreadFxn1
    <2>. DEFINE w == DequeueQ2(Head(queue[2]), Unset).val
    <2>1. w \in MotorVals
        BY <1>0, <1>9, HeadTyped, WordsRead DEF ThreadFxn1, Dequeue
    <2>2. Dequeue("t1", 2, <<Write(w)>>)
        BY <1>9 DEF ThreadFxn1
    <2>. HIDE DEF w
    <2>3. Write(w) \in CallsOf("t1")
        BY <2>1, CallsTyped
    <2>4. <<Write(w)>> \in Seq(CallsOf("t1")) /\ Len(<<Write(w)>>) <= 2
        BY <2>3, FewCalls
    <2>5. QueueType' /\ TodoType'
        BY <1>0, <2>2, <2>4, DequeueTyped
    <2>6. ScalarType'
        BY <1>0, <1>9 DEF ThreadFxn1, ScalarType, controller, device
    <2>. QED
        BY <2>5, <2>6 DEF DataType
<1>10. CASE HandleTick
    <2>1. Dequeue("t0", 1, <<Call("spiOP")>>)
        BY <1>10 DEF HandleTick
    <2>2. Call("spiOP") \in CallsOf("t0")
        BY CallsTyped
    <2>3. <<Call("spiOP")>> \in Seq(CallsOf("t0")) /\ Len(<<Call("spiOP")>>) <= 2
        BY <2>2, FewCalls
    <2>4. QueueType' /\ TodoType'
        BY <1>0, <2>1, <2>3, DequeueTyped
    <2>5. ScalarType'
        BY <1>0, <1>10 DEF HandleTick, ScalarType, controller, device
    <2>. QED
        BY <2>4, <2>5 DEF DataType
<1>11. CASE HandleCount
    <2>1. Dequeue("t0", 1, CountCalls)
        BY <1>11 DEF HandleCount, CountCalls
    <2>2. QueueType' /\ TodoType'
        BY <1>0, <2>1, CountCallsTyped, DequeueTyped
    <2>3. enable_counter' \in 0..3 /\ counter' \in 1..3
        BY <1>0, <1>11 DEF HandleCount, Settles, ScalarType
    <2>4. ScalarType'
        BY <1>0, <1>11, <2>3 DEF HandleCount, ScalarType, device
    <2>. QED
        BY <2>2, <2>4 DEF DataType
<1>12. CASE HandleCommand
    <2>. DEFINE c == Head(queue[1]).val
    <2>1. c \in WifiVals
        BY <1>0, <1>12, MessageTypes DEF HandleCommand
    <2>2. Dequeue("t0", 1, CommandCalls(c)) /\ lastWifiVal' = c
        BY <1>12 DEF HandleCommand, CommandCalls
    <2>3. enable_counter' \in 0..3 /\ stop_counter' \in {0, 1, 666, 777}
        BY <1>0, <1>12 DEF HandleCommand, ScalarType
    <2>. HIDE DEF c
    <2>4. QueueType' /\ TodoType'
        BY <1>0, <2>1, <2>2, CommandCallsTyped, DequeueTyped
    <2>5. UNCHANGED <<counter, device, received, rawSince>>
        BY <1>12 DEF HandleCommand
    <2>6. ScalarType'
        BY <1>0, <2>1, <2>2, <2>3, <2>5 DEF ScalarType, device
    <2>. QED
        BY <2>4, <2>6 DEF DataType
<1>13. CASE MqttClient
    <2>. DEFINE type == DequeueQ6(Head(queue[6]), Unset).type
    <2>1. type \in CloudTypes
        BY <1>0, <1>13, HeadTyped, WordsRead DEF MqttClient, Dequeue
    <2>2. Dequeue("mc", 6, Publications(type))
        BY <1>13 DEF MqttClient
    <2>. HIDE DEF type
    <2>3. QueueType' /\ TodoType'
        BY <1>0, <2>1, <2>2, PublicationsTyped, DequeueTyped
    <2>4. ScalarType'
        BY <1>0, <1>13 DEF MqttClient, ScalarType, controller, device
    <2>. QED
        BY <2>3, <2>4 DEF DataType
<1>14. ASSUME SpiTimer \/ StatsTimer \/ SpiDone PROVE DataType'
    <2>1. TimeWord("none") \in QueueWords(1) /\ SPIWord("none") \in QueueWords(1)
          /\ CloudWord("none", 1) \in QueueWords(6)
        BY DEF QueueWords, CloudTypes
    <2>2. QueueType'
        <3>1. CASE queue' = queue
            BY <1>0, <3>1 DEF QueueType
        <3>2. \/ queue' = queue
              \/ Interrupt(1, TimeWord("none")) \/ Interrupt(1, SPIWord("none"))
              \/ Interrupt(6, CloudWord("none", 1))
            BY <1>14 DEF SpiTimer, StatsTimer, SpiDone
        <3>. QED
            BY <1>0, <2>1, <3>1, <3>2, Interrupted
    <2>3. todo' = todo /\ bus' \in {"free", "configuring", "reading"}
          /\ UNCHANGED <<awaitingAck, ticking, uartOpen, uart, halted, controller, received, rawSince>>
        BY <1>0, <1>14 DEF SpiTimer, StatsTimer, SpiDone, Interrupt, BusAfterCallback, ScalarType
    <2>4. TodoType' /\ ScalarType'
        BY <1>0, <2>3 DEF TodoType, ScalarType, controller
    <2>. QED
        BY <2>2, <2>4 DEF DataType
<1>15. CASE UNCHANGED vars
    BY <1>0, <1>15 DEF vars, device, controller, DataType, QueueType, TodoType, ScalarType
<1>. QED
    BY <1>1, <1>2, <1>3, <1>4, <1>5, <1>6, <1>7, <1>8, <1>9, <1>10, <1>11, <1>12,
       <1>13, <1>14, <1>15
    DEF Next, Rx, T0, T1, T2, Mc, Halted

LEMMA PipeTypeStep == PipeType /\ [Next]_vars => PipeType'
BY DataTypeStep, FlagTypeStep DEF PipeType

LEMMA PipeTypeInv == Spec => []PipeType
<1>. QED
    BY PipeTypeInit, PipeTypeStep, PTL DEF Spec

LEMMA WordsOfQueues == ASSUME NEW n \in Queues PROVE QueueWords(n) \subseteq Words
<1>1. \A tag \in 0..11, val \in {"none", "raw", "adjusted"} \cup WifiVals : Word(tag, val) \in Words
    BY DEF Word, Words
<1>2. CASE n = 1
    <2>1. QueueWords(1) = {Word(1, "none"), Word(4, "none")} \cup {Word(2, c) : c \in WifiVals}
        BY DEF QueueWords, SPIWord, TimeWord, WIFIWord
    <2>. QED
        BY <1>1, <1>2, <2>1
<1>3. CASE n = 2
    <2>1. QueueWords(2) = {Word(3, w) : w \in MotorVals}
        BY DEF QueueWords, MotorWord
    <2>. QED
        BY <1>1, <1>3, <2>1 DEF MotorVals
<1>4. CASE n = 3
    <2>1. \A type \in 0..10 : JsonWord("none", type) = Word(type + 1, "none")
        BY DEF JsonWord
    <2>2. QueueWords(3) = {JsonWord("none", type) : type \in 0..10}
        BY DEF QueueWords
    <2>. QED
        BY <1>1, <1>4, <2>1, <2>2
<1>5. CASE n = 6
    <2>1. \A type \in CloudTypes : type \in 1..9 /\ CloudWord("none", type) = Word(type + 1, "none")
        BY DEF CloudWord, CloudTypes
    <2>2. QueueWords(6) = {CloudWord("none", type) : type \in CloudTypes}
        BY DEF QueueWords
    <2>. QED
        BY <1>1, <1>5, <2>1, <2>2
<1>. QED
    BY <1>2, <1>3, <1>4, <1>5 DEF Queues

\* Every queue holds words of its own only and never more than its size, although
\* three threads and two interrupts write to queue 1 and two of each to queue 6; a
\* handler leaves at most two calls to be done.
THEOREM PipelineTypeCorrect == Spec => []TypeOK
<1>1. ASSUME PipeType PROVE TypeOK
    <2>0. QueueType /\ TodoType /\ FlagType /\ ScalarType
        BY <1>1 DEF PipeType, DataType
    <2>1. \A n \in {1, 2, 3, 6} : queue[n] \in Seq(Words) /\ Len(queue[n]) <= QUEUE_SIZE
        <3>1. ASSUME NEW n \in Queues PROVE queue[n] \in Seq(Words)
            <4>1. queue[n] \in Seq(QueueWords(n)) /\ QueueWords(n) \subseteq Words
                BY <2>0, WordsOfQueues DEF QueueType
            <4>. QED
                BY <4>1, SeqMonotonic
        <3>. QED
            BY <2>0, <3>1 DEF QueueType, Queues
    <2>2. \A t \in Tasks : todo[t] = Boot \/ Len(todo[t]) <= 2
        BY <2>0 DEF TodoType
    <2>3. {awaitingAck, ticking, uartOpen, halted, rawSince} \subseteq BOOLEAN
        BY <2>0 DEF FlagType
    <2>4. /\ bus \in {"free", "configuring", "reading"}
          /\ uart \in {"none", "raw", "adjusted"} \cup WifiVals
          /\ lastWifiVal \in WifiVals /\ counter \in 1..3 /\ enable_counter \in 0..3
          /\ stop_counter \in {0, 1, 666, 777}
          /\ received \in 0..MaxReceived
        BY <2>0 DEF ScalarType, MotorVals
    <2>. QED
        BY <2>1, <2>2, <2>3, <2>4 DEF TypeOK
<1>. QED
    BY <1>1, PipeTypeInv, PTL

-----------------------------------------------------------------------------
(***************************************************************************)
(* The UART is open before anything is written to it.                      *)
(***************************************************************************)

LEMMA TailOf ==
    ASSUME NEW S, NEW s \in Seq(S), s # << >>
    PROVE  /\ Len(s) \in Nat \ {0} /\ Tail(s) \in Seq(S) /\ Len(Tail(s)) = Len(s) - 1
           /\ Head(s) = s[1]
           /\ \A i \in 1..Len(Tail(s)) : Tail(s)[i] = s[i + 1]
           /\ Tail(s) = << >> => Len(s) = 1
           /\ Tail(s) # << >> => Tail(s)[Len(Tail(s))] = s[Len(s)]
<1>1. /\ Len(s) \in Nat /\ Tail(s) \in Seq(S) /\ Len(Tail(s)) = Len(s) - 1 /\ Head(s) = s[1]
      /\ \A i \in 1..Len(Tail(s)) : Tail(s)[i] = s[i + 1]
    BY HeadTailProperties, LenProperties
<1>2. Len(s) # 0
    BY EmptySeq
<1>3. ASSUME Tail(s) = << >> PROVE Len(Tail(s)) = 0
    BY <1>3, EmptySeq
<1>4. ASSUME Tail(s) # << >> PROVE Tail(s)[Len(Tail(s))] = s[Len(s)]
    <2>1. Len(Tail(s)) # 0
        BY <1>1, <1>4, EmptySeq
    <2>2. Len(Tail(s)) \in 1..Len(Tail(s))
        BY <1>1, <1>2, <2>1
    <2>. QED
        BY <1>1, <1>2, <2>2
<1>. QED
    BY <1>1, <1>2, <1>3, <1>4

\* Each step leaves the other queues and the calls of the other threads alone.
LEMMA Apart ==
    ASSUME PipeType
    PROVE  /\ \A n, m \in Queues : \A x : n # m => [queue EXCEPT ![n] = x][m] = queue[m]
           /\ \A t, u \in Tasks : \A x : t # u => [todo EXCEPT ![t] = x][u] = todo[u]
           /\ \A n \in Queues : \A x : [queue EXCEPT ![n] = x][n] = x
           /\ \A t \in Tasks : \A x : [todo EXCEPT ![t] = x][t] = x
BY DEF PipeType, DataType, QueueType, TodoType

LEMMA OneQueue ==
    ASSUME PipeType, NEW n \in Queues, NEW x, queue' = [queue EXCEPT ![n] = x]
    PROVE  queue'[n] = x /\ \A m \in Queues \ {n} : queue'[m] = queue[m]
BY Apart

LEMMA OneThread ==
    ASSUME PipeType, NEW t \in Tasks, NEW x, todo' = [todo EXCEPT ![t] = x]
    PROVE  todo'[t] = x /\ \A u \in Tasks \ {t} : todo'[u] = todo[u]
BY Apart

LEMMA Dequeued ==
    ASSUME PipeType, NEW t \in Tasks, NEW n \in Queues, NEW calls, Dequeue(t, n, calls)
    PROVE  /\ queue[n] # << >> /\ queue'[n] = Tail(queue[n]) /\ todo[t] = << >> /\ todo'[t] = calls
           /\ \A m \in Queues \ {n} : queue'[m] = queue[m]
           /\ \A u \in Tasks \ {t} : todo'[u] = todo[u]
<1>1. /\ queue' = [queue EXCEPT ![n] = Tail(queue[n])] /\ queue[n] # << >>
      /\ todo' = [todo EXCEPT ![t] = calls] /\ todo[t] = << >>
    BY DEF Dequeue, Waiting
<1>. QED
    BY <1>1, OneQueue, OneThread

LEMMA CallMade ==
    ASSUME PipeType, NEW t \in Tasks, todo' = [todo EXCEPT ![t] = Tail(@)]
    PROVE  todo'[t] = Tail(todo[t]) /\ \A u \in Tasks \ {t} : todo'[u] = todo[u]
BY OneThread

LEMMA WordSent ==
    ASSUME PipeType, NEW t \in Tasks, SendStep(t)
    PROVE  LET op == Head(todo[t])
           IN  /\ op.to \in Queues /\ queue'[op.to] = Append(queue[op.to], op.word)
               /\ \A m \in Queues \ {op.to} : queue'[m] = queue[m]
<1>. DEFINE op == Head(todo[t])
<1>1. op.to \in Queues /\ queue' = [queue EXCEPT ![op.to] = Append(queue[op.to], op.word)]
    BY SendStepTyped DEF PipeType, DataType
<1>. HIDE DEF op
<1>2. queue'[op.to] = Append(queue[op.to], op.word) /\ \A m \in Queues \ {op.to} : queue'[m] = queue[m]
    BY <1>1, OneQueue
<1>. QED
    BY <1>1, <1>2 DEF op

LEMMA WordFromInterrupt ==
    ASSUME PipeType, NEW n \in Queues, NEW w, Interrupt(n, w)
    PROVE  /\ queue'[n] = queue[n] \/ queue'[n] = Append(queue[n], w)
           /\ \A m \in Queues \ {n} : queue'[m] = queue[m]
<1>1. queue' = [queue EXCEPT ![n] = SendFromISR(queue[n], w)]
    BY DEF Interrupt
<1>2. queue'[n] = SendFromISR(queue[n], w) /\ \A m \in Queues \ {n} : queue'[m] = queue[m]
    BY <1>1, OneQueue
<1>. QED
    BY <1>2 DEF SendFromISR

LEMMA SendsOf ==
    /\ \A op \in CallsOf("rx") : op.to \in {3, 6}
    /\ \A op \in CallsOf("t0") : op.call = "send" => op.to \in {2, 6}
    /\ \A op \in CallsOf("t2") : op.call = "send" => op.to \in {1, 2}
BY CallNames DEF CallsOf, Sends

LEMMA Booted ==
    /\ Boot # << >> /\ Head(Boot).call = "initSpi"
    /\ Tail(Boot) # << >> /\ Head(Tail(Boot)).call = "Uartinit0"
    /\ \A s \in Seq({Call("spiOP")}) :
          s # << >> => Head(s).call = "spiOP" /\ Tail(s) \in Seq({Call("spiOP")})
<1>1. /\ Boot # << >> /\ Head(Boot) = Call("initSpi")
      /\ Tail(Boot) # << >> /\ Head(Tail(Boot)) = Call("Uartinit0")
    BY DEF Boot
<1>. QED
    BY <1>1, CallNames, HeadTailProperties

LEMMA ClosedInit == Init => ClosedInv
BY DEF Init, ClosedInv, Tasks

LEMMA ClosedStep == PipeType /\ ClosedInv /\ [Next]_vars => ClosedInv'
<1>. SUFFICES ASSUME PipeType, ClosedInv, [Next]_vars, ~uartOpen' PROVE ClosedInv'
    BY DEF ClosedInv
<1>. DEFINE Ticks == {SPIWord("none"), TimeWord("none")}
<1>0. QueueType /\ TodoType /\ Tasks = {"rx", "t0", "t1", "t2", "mc"} /\ Queues = {1, 2, 3, 6}
    BY DEF PipeType, DataType, Tasks, Queues
<1>1. ~uartOpen
    BY DEF Next, Rx, T0, T1, T2, Mc, Halted, vars, device, controller, Receive, PubAck, SendStep,
           SpiOP, HandleTick, HandleCount, HandleCommand, ThreadFxn1, UartWrite, InitSpi,
           Uartinit0, StartTimer, ErrorRoutine, ThreadFxn2, Publish, MqttClient, SpiTimer, StatsTimer,
           SpiDone, Interrupt
<1>2. /\ todo["t2"] \in {Boot, Tail(Boot)} /\ todo["t1"] = << >> /\ queue[2] = << >>
      /\ uart = "none" /\ lastWifiVal = STOP
      /\ todo["t0"] \in Seq({Call("spiOP")}) /\ queue[1] \in Seq(Ticks)
    BY <1>1 DEF ClosedInv
<1>3. ASSUME UNCHANGED <<uart, lastWifiVal>>, todo'["t2"] \in {Boot, Tail(Boot)}, todo'["t1"] = todo["t1"],
             todo'["t0"] \in Seq({Call("spiOP")}), queue'[1] \in Seq(Ticks), queue'[2] = queue[2]
      PROVE  ClosedInv'
    BY <1>2, <1>3 DEF ClosedInv
<1>. HIDE DEF Ticks
<1>4. CASE SendStep("rx")
    <2>1. LET op == Head(todo["rx"])
          IN  op.to \in {3, 6} /\ queue' = [queue EXCEPT ![op.to] = Append(@, op.word)]
        BY <1>0, <1>4, SendStepTyped, SendsOf
    <2>2. queue'[1] = queue[1] /\ queue'[2] = queue[2]
        BY <1>0, <2>1, Apart
    <2>3. \A t \in {"t0", "t1", "t2"} : todo'[t] = todo[t]
        BY <1>0, <1>4, Apart DEF SendStep
    <2>. QED
        BY <1>2, <1>3, <1>4, <2>2, <2>3 DEF SendStep, device, controller
<1>5. CASE SpiOP("t0")
    <2>1. todo'["t0"] \in Seq({Call("spiOP")}) /\ todo'["t1"] = todo["t1"] /\ todo'["t2"] = todo["t2"]
        BY <1>0, <1>2, <1>5, Apart, Booted DEF SpiOP, Running
    <2>. QED
        BY <1>2, <1>3, <1>5, <2>1 DEF SpiOP, controller
<1>14. CASE InitSpi
    <2>1. /\ todo["t2"] = Boot /\ todo'["t2"] = Tail(Boot) /\ UNCHANGED <<uart, lastWifiVal>>
          /\ queue' = queue /\ todo'["t1"] = todo["t1"] /\ todo'["t0"] = todo["t0"]
        <3>1. Head(todo["t2"]).call = "initSpi" /\ todo' = [todo EXCEPT !["t2"] = Tail(@)]
              /\ queue' = queue /\ UNCHANGED <<uart, lastWifiVal>>
            BY <1>14 DEF InitSpi, controller
        <3>2. todo["t2"] = Boot
            BY <1>2, <3>1, Booted
        <3>. QED
            BY <1>0, <3>1, <3>2, CallMade
    <2>. QED
        BY <1>2, <1>3, <2>1
<1>6. ~SendStep("t0") /\ ~SendStep("t2") /\ ~SpiOP("t2") /\ ~StartTimer /\ ~ErrorRoutine
      /\ ~ThreadFxn2 /\ ~UartWrite /\ ~ThreadFxn1 /\ ~Uartinit0
    BY <1>2, Booted DEF SendStep, SpiOP, StartTimer, ErrorRoutine, ThreadFxn2, UartWrite,
           ThreadFxn1, Uartinit0, Dequeue, Running, Waiting
<1>7. CASE HandleTick
    <2>1. Dequeue("t0", 1, <<Call("spiOP")>>) /\ UNCHANGED <<uart, lastWifiVal>>
        BY <1>7 DEF HandleTick, device, controller
    <2>2. /\ todo'["t0"] = <<Call("spiOP")>> /\ todo'["t1"] = todo["t1"] /\ todo'["t2"] = todo["t2"]
          /\ queue'[1] = Tail(queue[1]) /\ queue[1] # << >> /\ queue'[2] = queue[2]
        BY <1>0, <2>1, Dequeued
    <2>3. queue'[1] \in Seq(Ticks)
        BY <1>2, <2>2, HeadTailProperties
    <2>4. todo'["t0"] \in Seq({Call("spiOP")})
        BY <2>2
    <2>. QED
        BY <1>2, <1>3, <2>1, <2>2, <2>3, <2>4
<1>8. CASE HandleCount
    <2>1. CountCalls = << >>
        BY <1>2, Joined DEF CountCalls, Moving, Settles
    <2>2. Dequeue("t0", 1, << >>) /\ UNCHANGED <<uart, lastWifiVal>>
        BY <1>8, <2>1 DEF HandleCount, CountCalls, device
    <2>3. /\ todo'["t0"] = << >> /\ todo'["t1"] = todo["t1"] /\ todo'["t2"] = todo["t2"]
          /\ queue'[1] = Tail(queue[1]) /\ queue[1] # << >> /\ queue'[2] = queue[2]
        BY <1>0, <2>2, Dequeued
    <2>4. queue'[1] \in Seq(Ticks)
        BY <1>2, <2>3, HeadTailProperties
    <2>. QED
        BY <1>2, <1>3, <2>2, <2>3, <2>4
<1>9. ~HandleCommand
    <2>1. SUFFICES ASSUME HandleCommand PROVE FALSE
        OBVIOUS
    <2>2. queue[1] # << >> /\ Head(queue[1]).tag = 2
        BY <1>0, <2>1, MessageTypes DEF HandleCommand, NextMessage
    <2>3. Head(queue[1]) \in Ticks
        BY <1>2, <2>2, HeadTailProperties
    <2>. QED
        BY <2>2, <2>3 DEF Ticks, SPIWord, TimeWord, Word
<1>10. CASE Publish \/ PubAck \/ \E body \in Bodies : Receive(body)
    <2>1. queue' = queue /\ UNCHANGED <<uart, lastWifiVal>>
        BY <1>10 DEF Publish, PubAck, Receive, device, controller
    <2>2. \A t \in {"t0", "t1", "t2"} : todo'[t] = todo[t]
        <3>1. todo' = todo \/ \E t \in {"rx", "mc"} : \E calls : todo' = [todo EXCEPT ![t] = calls]
            BY <1>10 DEF Publish, PubAck, Receive
        <3>. QED
            BY <1>0, <3>1, Apart
    <2>. QED
        BY <1>2, <1>3, <2>1, <2>2
<1>11. CASE MqttClient
    <2>1. queue'[1] = queue[1] /\ queue'[2] = queue[2] /\ UNCHANGED <<uart, lastWifiVal>>
        BY <1>0, <1>11, Apart DEF MqttClient, Dequeue, device, controller
    <2>2. \A t \in {"t0", "t1", "t2"} : todo'[t] = todo[t]
        BY <1>0, <1>11, Apart DEF MqttClient, Dequeue
    <2>. QED
        BY <1>2, <1>3, <2>1, <2>2
<1>12. CASE SpiTimer \/ StatsTimer \/ SpiDone
    <2>1. todo' = todo /\ UNCHANGED <<uart, lastWifiVal>> /\ queue'[2] = queue[2]
        BY <1>0, <1>12, WordFromInterrupt DEF SpiTimer, StatsTimer, SpiDone, Interrupt, controller
    <2>0. queue' = queue => queue'[1] = queue[1]
        OBVIOUS
    <2>2. SPIWord("none") \in Ticks /\ TimeWord("none") \in Ticks
        BY DEF Ticks
    <2>3. \/ queue'[1] = queue[1]
          \/ \E w \in Ticks : queue'[1] = Append(queue[1], w)
        <3>1. CASE StatsTimer
            BY <1>0, <3>1, WordFromInterrupt DEF StatsTimer
        <3>2. ASSUME NEW w \in Ticks, Interrupt(1, w)
              PROVE  queue'[1] = queue[1] \/ queue'[1] = Append(queue[1], w)
            BY <1>0, <3>2, WordFromInterrupt
        <3>3. CASE SpiTimer
            BY <2>2, <3>2, <3>3 DEF SpiTimer
        <3>4. CASE SpiDone
            BY <2>0, <2>2, <3>2, <3>4 DEF SpiDone
        <3>. QED
            BY <1>12, <3>1, <3>3, <3>4
    <2>4. \A w \in Ticks : Append(queue[1], w) \in Seq(Ticks)
        BY <1>2, AppendProperties
    <2>5. queue'[1] \in Seq(Ticks)
        BY <1>2, <2>3, <2>4
    <2>. QED
        BY <1>2, <1>3, <2>1, <2>5
<1>13. CASE UNCHANGED vars
    BY <1>2, <1>3, <1>13 DEF vars, device, controller
<1>. QED
    BY <1>4, <1>5, <1>6, <1>7, <1>8, <1>9, <1>10, <1>11, <1>12, <1>13, <1>14
    DEF Next, Rx, T0, T1, T2, Mc, Halted

\* No word reaches the motor UART before threadFxn2 has opened it, for any messages
\* and any timing: threadFxn1, which writes, never looks whether it is open.
THEOREM UartFirst == Spec => []UartOpenedFirst
<1>1. PipeType /\ ClosedInv => UartOpenedFirst
    BY DEF ClosedInv, UartOpenedFirst
<1>2. Spec => []ClosedInv
    BY PipeTypeInv, ClosedInit, ClosedStep, PTL DEF Spec
<1>. QED
    BY <1>1, <1>2, PipeTypeInv, PTL

-----------------------------------------------------------------------------
(***************************************************************************)
(* Two queues and three threads are one channel.                           *)
(***************************************************************************)

Commands1 == {WIFIWord(c) : c \in WifiVals}
Commands3 == {JsonWord("none", type) : type \in 4..8}

\* The four parts of the way.
InQ1   == Chosen(queue[1], CommandInQ1)
OfT2   == Chosen(todo["t2"], SentToQ1)
InQ3   == Chosen(queue[3], CommandInQ3)
OfRx   == Chosen(todo["rx"], SentToQ3)

LEMMA Maps ==
    /\ CommandInQ1 \in [Commands1 -> WifiVals] /\ DOMAIN CommandInQ1 = Commands1
    /\ CommandInQ3 \in [Commands3 -> WifiVals] /\ DOMAIN CommandInQ3 = Commands3
    /\ SentToQ1 \in [Sends(1, Commands1) -> WifiVals] /\ DOMAIN SentToQ1 = Sends(1, Commands1)
    /\ SentToQ3 \in [Sends(3, Commands3) -> WifiVals] /\ DOMAIN SentToQ3 = Sends(3, Commands3)
    /\ \A w \in Commands1 : SentToQ1[Send(1, w)] = CommandInQ1[w]
    /\ \A w \in Commands3 : SentToQ3[Send(3, w)] = CommandInQ3[w]
<1>1. CommandInQ1 \in [Commands1 -> WifiVals]
    BY DEF CommandInQ1, Commands1, WIFIWord, Word
<1>2. CommandInQ3 \in [Commands3 -> WifiVals]
    <2>1. \A type \in 4..8 : CommandOf[JsonWord("none", type).tag - 1] \in WifiVals
        <3>1. \A type \in 4..8 : JsonWord("none", type).tag = type + 1
            BY DEF JsonWord, Word
        <3>2. \A type \in 4..8 : CommandOf[(type + 1) - 1] = CommandOf[type] /\ CommandOf[type] \in WifiVals
            BY DEF CommandOf, WifiVals
        <3>. QED
            BY <3>1, <3>2
    <2>. QED
        BY <2>1 DEF CommandInQ3, Commands3
<1>3. /\ SentToQ1 \in [Sends(1, Commands1) -> WifiVals]
      /\ \A w \in Commands1 : SentToQ1[Send(1, w)] = CommandInQ1[w]
    <2>1. SentToQ1 = [op \in Sends(1, Commands1) |-> CommandInQ1[op.word]]
        BY <1>1 DEF SentToQ1, Sends
    <2>2. \A w \in Commands1 : Send(1, w) \in Sends(1, Commands1) /\ Send(1, w).word = w
        BY CallNames DEF Sends
    <2>3. \A op \in Sends(1, Commands1) : op.word \in Commands1
        BY CallNames DEF Sends
    <2>. QED
        BY <1>1, <2>1, <2>2, <2>3
<1>4. /\ SentToQ3 \in [Sends(3, Commands3) -> WifiVals]
      /\ \A w \in Commands3 : SentToQ3[Send(3, w)] = CommandInQ3[w]
    <2>1. SentToQ3 = [op \in Sends(3, Commands3) |-> CommandInQ3[op.word]]
        BY <1>2 DEF SentToQ3, Sends
    <2>2. \A w \in Commands3 : Send(3, w) \in Sends(3, Commands3) /\ Send(3, w).word = w
        BY CallNames DEF Sends
    <2>3. \A op \in Sends(3, Commands3) : op.word \in Commands3
        BY CallNames DEF Sends
    <2>. QED
        BY <1>2, <2>1, <2>2, <2>3
<1>. QED
    BY <1>1, <1>2, <1>3, <1>4

LEMMA PartsType ==
    ASSUME PipeType
    PROVE  /\ InQ1 \in Seq(WifiVals) /\ OfT2 \in Seq(WifiVals)
           /\ InQ3 \in Seq(WifiVals) /\ OfRx \in Seq(WifiVals)
           /\ queue[1] \in Seq(QueueWords(1)) /\ queue[3] \in Seq(QueueWords(3))
           /\ todo["t2"] \in Seq(CallsOf("t2")) /\ todo["rx"] \in Seq(CallsOf("rx"))
<1>1. /\ queue[1] \in Seq(QueueWords(1)) /\ queue[3] \in Seq(QueueWords(3))
      /\ todo["t2"] \in Seq(CallsOf("t2")) /\ todo["rx"] \in Seq(CallsOf("rx"))
    BY DEF PipeType, DataType, QueueType, TodoType, Queues, Tasks
<1>2. InQ1 \in Seq(WifiVals)
    BY <1>1, Maps, ChosenType DEF InQ1
<1>3. OfT2 \in Seq(WifiVals)
    BY <1>1, Maps, ChosenType DEF OfT2
<1>4. InQ3 \in Seq(WifiVals)
    BY <1>1, Maps, ChosenType DEF InQ3
<1>5. OfRx \in Seq(WifiVals)
    BY <1>1, Maps, ChosenType DEF OfRx
<1>. QED
    BY <1>1, <1>2, <1>3, <1>4, <1>5

\* A word of queue 1 or 3 that is a command, and a call that sends one.
LEMMA CommandWords ==
    /\ \A w \in QueueWords(1) : w \in Commands1 <=> w.tag = 2
    /\ \A w \in Commands1 : CommandInQ1[w] = w.val
    /\ \A type \in 0..10 : /\ JsonWord("none", type) \in Commands3 <=> type \in 4..8
                           /\ type \in 4..8 => CommandInQ3[JsonWord("none", type)] = CommandOf[type]
    /\ \A op, n, words : op \in Sends(n, words) => op.call = "send" /\ op.to = n /\ op = Send(n, op.word)
    /\ \A w, n, words : Send(n, w) \in Sends(n, words) <=> w \in words
<1>1. \A w \in QueueWords(1) : w \in Commands1 <=> w.tag = 2
    BY DEF QueueWords, Commands1, SPIWord, TimeWord, WIFIWord, Word
<1>2. \A w \in Commands1 : CommandInQ1[w] = w.val
    BY DEF CommandInQ1, Commands1
<1>3. \A type \in 0..10 : JsonWord("none", type).tag = type + 1
    BY DEF JsonWord, Word
<1>4. ASSUME NEW type \in 0..10
      PROVE  /\ JsonWord("none", type) \in Commands3 <=> type \in 4..8
             /\ type \in 4..8 => CommandInQ3[JsonWord("none", type)] = CommandOf[type]
    <2>1. ASSUME JsonWord("none", type) \in Commands3 PROVE type \in 4..8
        <3>1. PICK other \in 4..8 : JsonWord("none", type) = JsonWord("none", other)
            BY <2>1 DEF Commands3
        <3>2. type + 1 = other + 1
            BY <1>3, <3>1
        <3>. QED
            BY <3>2
    <2>2. ASSUME type \in 4..8 PROVE JsonWord("none", type) \in Commands3
        BY <2>2 DEF Commands3
    <2>3. type \in 4..8 => CommandInQ3[JsonWord("none", type)] = CommandOf[JsonWord("none", type).tag - 1]
        BY <2>2 DEF CommandInQ3, Commands3
    <2>4. JsonWord("none", type).tag - 1 = type
        BY <1>3
    <2>. QED
        BY <2>1, <2>2, <2>3, <2>4
<1>5. \A op, n, words : op \in Sends(n, words) => op.call = "send" /\ op.to = n /\ op = Send(n, op.word)
    BY CallNames DEF Sends
<1>6. ASSUME NEW w, NEW n, NEW words PROVE Send(n, w) \in Sends(n, words) <=> w \in words
    <2>1. ASSUME Send(n, w) \in Sends(n, words) PROVE w \in words
        <3>1. PICK x \in words : Send(n, w) = Send(n, x)
            BY <2>1 DEF Sends
        <3>2. w = x
            BY <3>1, CallNames
        <3>. QED
            BY <3>2
    <2>. QED
        BY <2>1 DEF Sends
<1>. QED
    BY <1>1, <1>2, <1>4, <1>5, <1>6

LEMMA PartsKept ==
    ASSUME queue'[1] = queue[1], queue'[3] = queue[3],
           todo'["t2"] = todo["t2"], todo'["rx"] = todo["rx"]
    PROVE  InQ1' = InQ1 /\ OfT2' = OfT2 /\ InQ3' = InQ3 /\ OfRx' = OfRx
BY DEF InQ1, OfT2, InQ3, OfRx

\* A word that goes into queue 1 or 3 or leaves it.
LEMMA QueueOne ==
    ASSUME PipeType
    PROVE  /\ \A w \in QueueWords(1) : queue'[1] = Append(queue[1], w) =>
                /\ w \in Commands1 => InQ1' = InQ1 \o <<CommandInQ1[w]>>
                /\ w \notin Commands1 => InQ1' = InQ1
           /\ queue[1] # << >> /\ queue'[1] = Tail(queue[1]) =>
                /\ Head(queue[1]) \in Commands1 => InQ1 = <<CommandInQ1[Head(queue[1])]>> \o InQ1'
                /\ Head(queue[1]) \notin Commands1 => InQ1 = InQ1'
<1>1. queue[1] \in Seq(QueueWords(1)) /\ DOMAIN CommandInQ1 = Commands1
    BY PartsType, Maps
<1>2. \A w \in QueueWords(1) :
        /\ w \in Commands1 => Chosen(Append(queue[1], w), CommandInQ1) = InQ1 \o <<CommandInQ1[w]>>
        /\ w \notin Commands1 => Chosen(Append(queue[1], w), CommandInQ1) = InQ1
    <2>1. \A w \in QueueWords(1) :
            /\ w \in DOMAIN CommandInQ1 =>
                 Chosen(Append(queue[1], w), CommandInQ1)
                   = Chosen(queue[1], CommandInQ1) \o <<CommandInQ1[w]>>
            /\ w \notin DOMAIN CommandInQ1 =>
                 Chosen(Append(queue[1], w), CommandInQ1) = Chosen(queue[1], CommandInQ1)
        BY <1>1, WordOn
    <2>. QED
        BY <1>1, <2>1 DEF InQ1
<1>3. queue[1] # << >> =>
        /\ Head(queue[1]) \in Commands1 =>
             InQ1 = <<CommandInQ1[Head(queue[1])]>> \o Chosen(Tail(queue[1]), CommandInQ1)
        /\ Head(queue[1]) \notin Commands1 => InQ1 = Chosen(Tail(queue[1]), CommandInQ1)
    BY <1>1, WordOff DEF InQ1
<1>4. \A q : queue'[1] = q => InQ1' = Chosen(q, CommandInQ1)
    BY DEF InQ1, CommandInQ1
<1>. QED
    BY <1>2, <1>3, <1>4

LEMMA QueueThree ==
    ASSUME PipeType
    PROVE  /\ \A w \in QueueWords(3) : queue'[3] = Append(queue[3], w) =>
                /\ w \in Commands3 => InQ3' = InQ3 \o <<CommandInQ3[w]>>
                /\ w \notin Commands3 => InQ3' = InQ3
           /\ queue[3] # << >> /\ queue'[3] = Tail(queue[3]) =>
                /\ Head(queue[3]) \in Commands3 => InQ3 = <<CommandInQ3[Head(queue[3])]>> \o InQ3'
                /\ Head(queue[3]) \notin Commands3 => InQ3 = InQ3'
<1>1. queue[3] \in Seq(QueueWords(3)) /\ DOMAIN CommandInQ3 = Commands3
    BY PartsType, Maps
<1>2. \A w \in QueueWords(3) :
        /\ w \in Commands3 => Chosen(Append(queue[3], w), CommandInQ3) = InQ3 \o <<CommandInQ3[w]>>
        /\ w \notin Commands3 => Chosen(Append(queue[3], w), CommandInQ3) = InQ3
    <2>1. \A w \in QueueWords(3) :
            /\ w \in DOMAIN CommandInQ3 =>
                 Chosen(Append(queue[3], w), CommandInQ3)
                   = Chosen(queue[3], CommandInQ3) \o <<CommandInQ3[w]>>
            /\ w \notin DOMAIN CommandInQ3 =>
                 Chosen(Append(queue[3], w), CommandInQ3) = Chosen(queue[3], CommandInQ3)
        BY <1>1, WordOn
    <2>. QED
        BY <1>1, <2>1 DEF InQ3
<1>3. queue[3] # << >> =>
        /\ Head(queue[3]) \in Commands3 =>
             InQ3 = <<CommandInQ3[Head(queue[3])]>> \o Chosen(Tail(queue[3]), CommandInQ3)
        /\ Head(queue[3]) \notin Commands3 => InQ3 = Chosen(Tail(queue[3]), CommandInQ3)
    BY <1>1, WordOff DEF InQ3
<1>4. \A q : queue'[3] = q => InQ3' = Chosen(q, CommandInQ3)
    BY DEF InQ3, CommandInQ3
<1>. QED
    BY <1>2, <1>3, <1>4

\* A call that threadFxn2 or the callback makes.
LEMMA ThreadCalls ==
    ASSUME PipeType
    PROVE  /\ todo["t2"] # << >> /\ todo'["t2"] = Tail(todo["t2"]) =>
                /\ Head(todo["t2"]) \in Sends(1, Commands1) => OfT2 = <<SentToQ1[Head(todo["t2"])]>> \o OfT2'
                /\ Head(todo["t2"]) \notin Sends(1, Commands1) => OfT2 = OfT2'
           /\ todo["rx"] # << >> /\ todo'["rx"] = Tail(todo["rx"]) =>
                /\ Head(todo["rx"]) \in Sends(3, Commands3) => OfRx = <<SentToQ3[Head(todo["rx"])]>> \o OfRx'
                /\ Head(todo["rx"]) \notin Sends(3, Commands3) => OfRx = OfRx'
<1>1. todo["t2"] \in Seq(CallsOf("t2")) /\ DOMAIN SentToQ1 = Sends(1, Commands1)
    BY PartsType, Maps
<1>2. todo["rx"] \in Seq(CallsOf("rx")) /\ DOMAIN SentToQ3 = Sends(3, Commands3)
    BY PartsType, Maps
<1>3. todo["t2"] # << >> =>
        /\ Head(todo["t2"]) \in Sends(1, Commands1) =>
             OfT2 = <<SentToQ1[Head(todo["t2"])]>> \o Chosen(Tail(todo["t2"]), SentToQ1)
        /\ Head(todo["t2"]) \notin Sends(1, Commands1) => OfT2 = Chosen(Tail(todo["t2"]), SentToQ1)
    BY <1>1, WordOff DEF OfT2
<1>4. todo["rx"] # << >> =>
        /\ Head(todo["rx"]) \in Sends(3, Commands3) =>
             OfRx = <<SentToQ3[Head(todo["rx"])]>> \o Chosen(Tail(todo["rx"]), SentToQ3)
        /\ Head(todo["rx"]) \notin Sends(3, Commands3) => OfRx = Chosen(Tail(todo["rx"]), SentToQ3)
    BY <1>2, WordOff DEF OfRx
<1>5. /\ \A s : todo'["t2"] = s => OfT2' = Chosen(s, SentToQ1)
      /\ \A s : todo'["rx"] = s => OfRx' = Chosen(s, SentToQ3)
    BY DEF OfT2, OfRx, SentToQ1, SentToQ3
<1>. QED
    BY <1>3, <1>4, <1>5

\* A command that threadFxn2 sends goes from its calls to the end of queue 1.
LEMMA T2Sends ==
    ASSUME PipeType, SendStep("t2")
    PROVE  InQ1' \o OfT2' = InQ1 \o OfT2 /\ InQ3' = InQ3 /\ OfRx' = OfRx
<1>. DEFINE op == Head(todo["t2"])
<1>0. QueueType /\ TodoType /\ Tasks = {"rx", "t0", "t1", "t2", "mc"} /\ Queues = {1, 2, 3, 6}
    BY DEF PipeType, DataType, Tasks, Queues
<1>1. /\ op \in CallsOf("t2") /\ op.call = "send" /\ op.to \in {1, 2} /\ op.word \in QueueWords(op.to)
    BY <1>0, SendStepTyped, SendsOf DEF SendStep
<1>2. /\ queue'[op.to] = Append(queue[op.to], op.word)
      /\ \A m \in Queues \ {op.to} : queue'[m] = queue[m]
    BY <1>0, WordSent
<1>3. todo["t2"] # << >> /\ todo'["t2"] = Tail(todo["t2"]) /\ todo'["rx"] = todo["rx"]
    BY <1>0, CallMade DEF SendStep, Running
<1>4. queue'[3] = queue[3]
    BY <1>0, <1>1, <1>2
<1>5. InQ3' = InQ3 /\ OfRx' = OfRx
    BY <1>3, <1>4 DEF InQ3, OfRx
<1>6. OfT2 = (IF op \in Sends(1, Commands1) THEN <<SentToQ1[op]>> \o OfT2' ELSE OfT2')
    BY <1>3, ThreadCalls
<1>. HIDE DEF op
<1>7. CASE op.to = 2
    <2>1. queue'[1] = queue[1]
        BY <1>0, <1>2, <1>7
    <2>2. op \notin Sends(1, Commands1)
        BY <1>7, CommandWords
    <2>. QED
        BY <1>5, <1>6, <2>1, <2>2 DEF InQ1
<1>8. CASE op.to = 1
    <2>1. queue'[1] = Append(queue[1], op.word) /\ op.word \in QueueWords(1)
        BY <1>1, <1>2, <1>8
    <2>2. op = Send(1, op.word)
        <3>1. op \in Sends(1, QueueWords(1)) \/ op \in Sends(2, QueueWords(2))
            BY <1>1, CallNames DEF CallsOf
        <3>. QED
            BY <1>8, <3>1, CommandWords
    <2>3. op \in Sends(1, Commands1) <=> op.word \in Commands1
        BY <2>2, CommandWords
    <2>4. CASE op.word \in Commands1
        <3>1. InQ1' = InQ1 \o <<CommandInQ1[op.word]>>
            BY <2>1, <2>4, QueueOne
        <3>2. SentToQ1[op] = CommandInQ1[op.word] /\ CommandInQ1[op.word] \in WifiVals
            BY <2>2, <2>4, Maps
        <3>3. InQ1 \in Seq(WifiVals) /\ <<CommandInQ1[op.word]>> \in Seq(WifiVals) /\ OfT2' \in Seq(WifiVals)
            <4>1. OfT2' \in Seq(WifiVals)
                <5>1. todo'["t2"] \in Seq(CallsOf("t2"))
                    BY <1>3, PartsType, HeadTailProperties
                <5>. QED
                    BY <5>1, Maps, ChosenType DEF OfT2
            <4>2. InQ1 \in Seq(WifiVals)
                BY PartsType
            <4>. QED
                BY <3>2, <4>1, <4>2
        <3>4. (InQ1 \o <<CommandInQ1[op.word]>>) \o OfT2' = InQ1 \o (<<CommandInQ1[op.word]>> \o OfT2')
            BY <3>3, ConcatAssociative
        <3>. QED
            BY <1>5, <1>6, <2>3, <2>4, <3>1, <3>2, <3>4
    <2>5. CASE op.word \notin Commands1
        <3>1. InQ1' = InQ1
            BY <2>1, <2>5, QueueOne
        <3>. QED
            BY <1>5, <1>6, <2>3, <2>5, <3>1
    <2>. QED
        BY <2>4, <2>5
<1>. QED
    BY <1>1, <1>7, <1>8

\* A command that the callback sends goes from its calls to the end of queue 3.
LEMMA RxSends ==
    ASSUME PipeType, SendStep("rx")
    PROVE  InQ3' \o OfRx' = InQ3 \o OfRx /\ InQ1' = InQ1 /\ OfT2' = OfT2
<1>. DEFINE op == Head(todo["rx"])
<1>0. QueueType /\ TodoType /\ Tasks = {"rx", "t0", "t1", "t2", "mc"} /\ Queues = {1, 2, 3, 6}
    BY DEF PipeType, DataType, Tasks, Queues
<1>1. /\ op \in CallsOf("rx") /\ op.to \in {3, 6} /\ op.word \in QueueWords(op.to)
    BY <1>0, SendStepTyped, SendsOf
<1>2. /\ queue'[op.to] = Append(queue[op.to], op.word)
      /\ \A m \in Queues \ {op.to} : queue'[m] = queue[m]
    BY <1>0, WordSent
<1>3. todo["rx"] # << >> /\ todo'["rx"] = Tail(todo["rx"]) /\ todo'["t2"] = todo["t2"]
    BY <1>0, CallMade DEF SendStep, Running
<1>4. queue'[1] = queue[1]
    BY <1>0, <1>1, <1>2
<1>5. InQ1' = InQ1 /\ OfT2' = OfT2
    BY <1>3, <1>4 DEF InQ1, OfT2
<1>6. OfRx = (IF op \in Sends(3, Commands3) THEN <<SentToQ3[op]>> \o OfRx' ELSE OfRx')
    BY <1>3, ThreadCalls
<1>. HIDE DEF op
<1>7. CASE op.to = 6
    <2>1. queue'[3] = queue[3]
        BY <1>0, <1>2, <1>7
    <2>2. op \notin Sends(3, Commands3)
        BY <1>7, CommandWords
    <2>. QED
        BY <1>5, <1>6, <2>1, <2>2 DEF InQ3
<1>8. CASE op.to = 3
    <2>1. queue'[3] = Append(queue[3], op.word) /\ op.word \in QueueWords(3)
        BY <1>1, <1>2, <1>8
    <2>2. op = Send(3, op.word)
        <3>1. op \in Sends(6, QueueWords(6)) \/ op \in Sends(3, QueueWords(3))
            BY <1>1 DEF CallsOf
        <3>. QED
            BY <1>8, <3>1, CommandWords
    <2>3. op \in Sends(3, Commands3) <=> op.word \in Commands3
        BY <2>2, CommandWords
    <2>4. CASE op.word \in Commands3
        <3>1. InQ3' = InQ3 \o <<CommandInQ3[op.word]>>
            BY <2>1, <2>4, QueueThree
        <3>2. SentToQ3[op] = CommandInQ3[op.word] /\ CommandInQ3[op.word] \in WifiVals
            BY <2>2, <2>4, Maps
        <3>3. InQ3 \in Seq(WifiVals) /\ <<CommandInQ3[op.word]>> \in Seq(WifiVals) /\ OfRx' \in Seq(WifiVals)
            <4>1. OfRx' \in Seq(WifiVals)
                <5>1. todo'["rx"] \in Seq(CallsOf("rx"))
                    BY <1>3, PartsType, HeadTailProperties
                <5>. QED
                    BY <5>1, Maps, ChosenType DEF OfRx
            <4>2. InQ3 \in Seq(WifiVals)
                BY PartsType
            <4>. QED
                BY <3>2, <4>1, <4>2
        <3>4. (InQ3 \o <<CommandInQ3[op.word]>>) \o OfRx' = InQ3 \o (<<CommandInQ3[op.word]>> \o OfRx')
            BY <3>3, ConcatAssociative
        <3>. QED
            BY <1>5, <1>6, <2>3, <2>4, <3>1, <3>2, <3>4
    <2>5. CASE op.word \notin Commands3
        <3>1. InQ3' = InQ3
            BY <2>1, <2>5, QueueThree
        <3>. QED
            BY <1>5, <1>6, <2>3, <2>5, <3>1
    <2>. QED
        BY <2>4, <2>5
<1>. QED
    BY <1>1, <1>7, <1>8

\* threadFxn2 takes a word of queue 3 when it has nothing left to do; a command is then
\* the one thing it has to send.
LEMMA T2Takes ==
    ASSUME PipeType, ThreadFxn2
    PROVE  OfT2' \o InQ3' = OfT2 \o InQ3 /\ InQ1' = InQ1 /\ OfRx' = OfRx
<1>. DEFINE w == Head(queue[3])
            type == w.tag - 1
<1>0. QueueType /\ TodoType /\ Tasks = {"rx", "t0", "t1", "t2", "mc"} /\ Queues = {1, 2, 3, 6}
    BY DEF PipeType, DataType, Tasks, Queues
<1>1. Dequeue("t2", 3, Work(DequeueQ3(w, Unset).type))
    BY DEF ThreadFxn2
<1>2. /\ todo["t2"] = << >> /\ queue[3] # << >> /\ queue'[3] = Tail(queue[3])
      /\ queue'[1] = queue[1] /\ todo'["rx"] = todo["rx"]
      /\ todo'["t2"] = Work(DequeueQ3(w, Unset).type)
    BY <1>0, <1>1, Dequeued
<1>3. w \in QueueWords(3)
    BY <1>2, PartsType, HeadTailProperties
<1>4. type \in 0..10 /\ DequeueQ3(w, Unset).type = type
    BY <1>3, WordsRead
<1>5. w = JsonWord("none", type)
    <2>1. PICK other \in 0..10 : w = JsonWord("none", other)
        BY <1>3 DEF QueueWords
    <2>2. w.tag = other + 1
        BY <2>1 DEF JsonWord, Word
    <2>3. type = other
        BY <2>2
    <2>. QED
        BY <2>1, <2>3
<1>6. InQ1' = InQ1 /\ OfRx' = OfRx
    BY <1>2 DEF InQ1, OfRx
<1>7. OfT2 = << >>
    BY <1>2, ChosenNone DEF OfT2
<1>8. todo'["t2"] = Work(type)
    BY <1>2, <1>4
<1>9. InQ3 \in Seq(WifiVals)
    BY PartsType
<1>10. queue'[3] \in Seq(QueueWords(3))
    BY <1>2, PartsType, HeadTailProperties
<1>11. InQ3' \in Seq(WifiVals)
    BY <1>10, Maps, ChosenType DEF InQ3
<1>. HIDE DEF w, type
<1>12. CASE type \in 4..8
    <2>. DEFINE c == CommandOf[type]
                op == SendWIFIMsgToQ1(c)
    <2>1. w \in Commands3 /\ CommandInQ3[w] = c
        BY <1>4, <1>5, <1>12, CommandWords
    <2>2. c \in WifiVals
        BY <1>12 DEF CommandOf, WifiVals
    <2>3. InQ3 = <<c>> \o InQ3'
        BY <1>2, <2>1, QueueThree DEF w
    <2>4. todo'["t2"] = <<op>>
        BY <1>8, <1>12 DEF Work
    <2>5. WIFIWord(c) \in Commands1 /\ CommandInQ1[WIFIWord(c)] = c
        BY <2>2 DEF Commands1, CommandInQ1, WIFIWord, Word
    <2>6. op \in Sends(1, Commands1) /\ SentToQ1[op] = c
        BY <2>5, CommandWords, Maps DEF SendWIFIMsgToQ1
    <2>7. OfT2' = Chosen(<<op>>, SentToQ1)
        BY <2>4 DEF OfT2, SentToQ1
    <2>. HIDE DEF op
    <2>8. Chosen(<<op>>, SentToQ1) = <<c>>
        BY <2>6, Maps, OneChosen
    <2>9. OfT2 \o InQ3 = InQ3
        BY <1>7, <1>9, ConcatEmptySeq
    <2>. QED
        BY <1>6, <2>3, <2>7, <2>8, <2>9
<1>13. CASE type \notin 4..8
    <2>1. w \notin Commands3
        BY <1>4, <1>5, <1>13, CommandWords
    <2>2. InQ3' = InQ3
        BY <1>2, <2>1, QueueThree DEF w
    <2>3. \/ Work(type) = << >>
          \/ \E op : Work(type) = <<op>> /\ op \notin Sends(1, Commands1)
        <3>1. \A n, cs : Call("spiOP") \notin Sends(n, cs) /\ Call("errorRoutine") \notin Sends(n, cs)
            BY CommandWords, CallNames
        <3>2. SendMotorMsgToQ2("raw") \notin Sends(1, Commands1)
            <4>1. SendMotorMsgToQ2("raw").to = 2
                BY CallNames DEF SendMotorMsgToQ2
            <4>. QED
                BY <4>1, CommandWords
        <3>3. type = 0 \/ type \in 1..3 \/ type = 9 \/ type = 10
            BY <1>4, <1>13
        <3>. QED
            BY <3>1, <3>2, <3>3 DEF Work
    <2>4. OfT2' = Chosen(Work(type), SentToQ1)
        BY <1>8 DEF OfT2, SentToQ1
    <2>5. Chosen(Work(type), SentToQ1) = << >>
        BY <2>3, Maps, OneChosen, ChosenNone
    <2>. QED
        BY <1>6, <1>7, <2>2, <2>4, <2>5
<1>. QED
    BY <1>12, <1>13

\* The callback has nothing left to send when it is called, and then at most one command.
LEMMA RxReceives ==
    ASSUME PipeType, NEW body \in Bodies, Receive(body)
    PROVE  /\ InQ1' = InQ1 /\ OfT2' = OfT2 /\ InQ3' = InQ3 /\ OfRx = << >>
           /\ OfRx' = << >> \/ \E c \in WifiVals : OfRx' = <<c>>
<1>0. TodoType /\ Tasks = {"rx", "t0", "t1", "t2", "mc"}
    BY DEF PipeType, DataType, Tasks
<1>1. /\ todo["rx"] = << >> /\ queue' = queue
      /\ todo' = [todo EXCEPT !["rx"] = ReceiveCalls(body)]
    BY DEF Receive, ReceiveCalls, Waiting
<1>2. todo'["rx"] = ReceiveCalls(body) /\ todo'["t2"] = todo["t2"]
    BY <1>0, <1>1, OneThread
<1>3. OfRx = << >>
    BY <1>1, ChosenNone DEF OfRx
<1>4. InQ1' = InQ1 /\ OfT2' = OfT2 /\ InQ3' = InQ3
    BY <1>1, <1>2 DEF InQ1, OfT2, InQ3
<1>5. OfRx' = Chosen(ReceiveCalls(body), SentToQ3)
    BY <1>2 DEF OfRx, SentToQ3
<1>6. SendWIFIMsgToQ6(4) \notin Sends(3, Commands3)
    <2>1. SendWIFIMsgToQ6(4).to = 6
        BY CallNames DEF SendWIFIMsgToQ6
    <2>. QED
        BY <2>1, CommandWords
<1>7. CASE ReceiveCalls(body) = <<SendWIFIMsgToQ6(4)>>
    <2>1. SendWIFIMsgToQ6(4) \notin DOMAIN SentToQ3
        BY <1>6, Maps, Zenon
    <2>2. Chosen(<<SendWIFIMsgToQ6(4)>>, SentToQ3) = << >>
        BY <2>1, OneChosen
    <2>3. OfRx' = << >>
        BY <1>5, <1>7, <2>2
    <2>. QED
        BY <1>3, <1>4, <2>3
<1>8. ASSUME NEW type \in 0..10,
             ReceiveCalls(body) = <<SendWIFIMsgToQ6(4), SendJsonMsgToQ3(type)>>
      PROVE  OfRx' = << >> \/ \E c \in WifiVals : OfRx' = <<c>>
    <2>. DEFINE op == SendJsonMsgToQ3(type)
    <2>1. OfRx' = Chosen(<<op>>, SentToQ3)
        BY <1>5, <1>6, <1>8, Maps, TwoChosen
    <2>. HIDE DEF op
    <2>2. OfRx' = IF op \in Sends(3, Commands3) THEN <<SentToQ3[op]>> ELSE << >>
        BY <2>1, Maps, OneChosen
    <2>3. op \in Sends(3, Commands3) => SentToQ3[op] \in WifiVals
        BY Maps
    <2>. QED
        BY <2>2, <2>3
<1>. QED
    BY <1>3, <1>4, <1>7, <1>8, ReceiveCallsTyped

\* The way of the commands, whichever neighbours are taken together.
Way == InQ1 \o OfT2 \o InQ3 \o OfRx

LEMMA PartsTypeNext ==
    ASSUME PipeType, [Next]_vars
    PROVE  InQ1' \in Seq(WifiVals) /\ OfT2' \in Seq(WifiVals)
           /\ InQ3' \in Seq(WifiVals) /\ OfRx' \in Seq(WifiVals)
<1>1. PipeType'
    BY PipeTypeStep
<1>2. /\ queue'[1] \in Seq(QueueWords(1)) /\ queue'[3] \in Seq(QueueWords(3))
      /\ todo'["t2"] \in Seq(CallsOf("t2")) /\ todo'["rx"] \in Seq(CallsOf("rx"))
    BY <1>1 DEF PipeType, DataType, QueueType, TodoType, Queues, Tasks
<1>3. InQ1' \in Seq(WifiVals)
    BY <1>2, Maps, ChosenType DEF InQ1
<1>4. OfT2' \in Seq(WifiVals)
    BY <1>2, Maps, ChosenType DEF OfT2
<1>5. InQ3' \in Seq(WifiVals)
    BY <1>2, Maps, ChosenType DEF InQ3
<1>6. OfRx' \in Seq(WifiVals)
    BY <1>2, Maps, ChosenType DEF OfRx
<1>. QED
    BY <1>3, <1>4, <1>5, <1>6

\* The steps that leave every part of the way as it was.
LEMMA WayKept ==
    ASSUME PipeType,
           \/ PubAck \/ SendStep("t0") \/ SpiOP("t0") \/ SpiOP("t2")
           \/ HandleTick \/ HandleCount \/ ThreadFxn1 \/ UartWrite
           \/ InitSpi \/ Uartinit0 \/ StartTimer \/ ErrorRoutine \/ Publish \/ MqttClient
           \/ SpiTimer \/ StatsTimer \/ SpiDone \/ UNCHANGED vars
    PROVE  /\ InQ1' = InQ1 /\ OfT2' = OfT2 /\ InQ3' = InQ3 /\ OfRx' = OfRx
           /\ lastWifiVal' = lastWifiVal
<1>0. QueueType /\ TodoType /\ Tasks = {"rx", "t0", "t1", "t2", "mc"} /\ Queues = {1, 2, 3, 6}
    BY DEF PipeType, DataType, Tasks, Queues
<1>1. CASE PubAck \/ UartWrite \/ Publish \/ SpiOP("t0") \/ UNCHANGED vars
    <2>1. queue' = queue /\ lastWifiVal' = lastWifiVal
        BY <1>1 DEF PubAck, UartWrite, Publish, SpiOP, vars, controller
    <2>2. todo'["t2"] = todo["t2"] /\ todo'["rx"] = todo["rx"]
        <3>1. \/ todo' = todo
              \/ \E t \in {"t0", "t1", "mc"} : todo' = [todo EXCEPT ![t] = Tail(@)]
            BY <1>1 DEF PubAck, UartWrite, Publish, SpiOP, vars
        <3>. QED
            BY <1>0, <3>1, CallMade
    <2>. QED
        BY <2>1, <2>2, PartsKept
<1>2. CASE SendStep("t0")
    <2>. DEFINE op == Head(todo["t0"])
    <2>1. op.to \in {2, 6}
        BY <1>0, <1>2, SendStepTyped, SendsOf DEF SendStep
    <2>2. \A m \in Queues \ {op.to} : queue'[m] = queue[m]
        BY <1>0, <1>2, WordSent
    <2>3. todo'["t2"] = todo["t2"] /\ todo'["rx"] = todo["rx"]
        BY <1>0, <1>2, CallMade DEF SendStep
    <2>. HIDE DEF op
    <2>4. queue'[1] = queue[1] /\ queue'[3] = queue[3]
        BY <1>0, <2>1, <2>2
    <2>5. lastWifiVal' = lastWifiVal
        BY <1>2 DEF SendStep, controller
    <2>. QED
        BY <2>3, <2>4, <2>5, PartsKept
<1>3. CASE SpiOP("t2") \/ InitSpi \/ Uartinit0 \/ StartTimer \/ ErrorRoutine
    <2>1. /\ queue' = queue /\ lastWifiVal' = lastWifiVal /\ todo["t2"] # << >>
          /\ todo' = [todo EXCEPT !["t2"] = Tail(@)]
          /\ Head(todo["t2"]).call \in {"spiOP", "initSpi", "Uartinit0", "timer", "errorRoutine"}
        BY <1>3 DEF SpiOP, InitSpi, Uartinit0, StartTimer, ErrorRoutine, Running, controller
    <2>2. todo'["t2"] = Tail(todo["t2"]) /\ todo'["rx"] = todo["rx"]
        BY <1>0, <2>1, CallMade
    <2>3. Head(todo["t2"]) \notin Sends(1, Commands1)
        BY <2>1, CommandWords
    <2>4. OfT2' = OfT2
        BY <2>1, <2>2, <2>3, ThreadCalls
    <2>. QED
        BY <2>1, <2>2, <2>4 DEF InQ1, InQ3, OfRx
<1>4. CASE HandleTick \/ HandleCount
    <2>1. PICK type \in {Q1_TYPE_TIME, Q1_TYPE_SPI} :
             /\ NextMessage(type) /\ \E calls : Dequeue("t0", 1, calls)
             /\ lastWifiVal' = lastWifiVal
        BY <1>4 DEF HandleTick, HandleCount, controller
    <2>2. /\ queue[1] # << >> /\ queue'[1] = Tail(queue[1]) /\ queue'[3] = queue[3]
          /\ todo'["t2"] = todo["t2"] /\ todo'["rx"] = todo["rx"]
        BY <1>0, <2>1, Dequeued
    <2>3. Head(queue[1]) \in QueueWords(1) /\ Head(queue[1]).tag # 2
        BY <1>0, <2>1, MessageTypes
    <2>4. Head(queue[1]) \notin Commands1
        BY <2>3, CommandWords
    <2>5. InQ1' = InQ1
        BY <2>2, <2>4, QueueOne
    <2>. QED
        BY <2>1, <2>2, <2>5 DEF OfT2, InQ3, OfRx
<1>5. CASE ThreadFxn1 \/ MqttClient
    <2>1. PICK t \in {"t1", "mc"}, n \in {2, 6} :
             (\E calls : Dequeue(t, n, calls)) /\ lastWifiVal' = lastWifiVal
        BY <1>5 DEF ThreadFxn1, MqttClient, controller
    <2>2. /\ queue'[1] = queue[1] /\ queue'[3] = queue[3]
          /\ todo'["t2"] = todo["t2"] /\ todo'["rx"] = todo["rx"]
        BY <1>0, <2>1, Dequeued
    <2>. QED
        BY <2>1, <2>2, PartsKept
<1>6. CASE SpiTimer \/ StatsTimer \/ SpiDone
    <2>1. todo' = todo /\ lastWifiVal' = lastWifiVal
        BY <1>6 DEF SpiTimer, StatsTimer, SpiDone, Interrupt, controller
    <2>2. queue'[3] = queue[3]
        BY <1>0, <1>6, WordFromInterrupt DEF SpiTimer, StatsTimer, SpiDone
    <2>3. \/ queue'[1] = queue[1]
          \/ \E w \in {TimeWord("none"), SPIWord("none")} : queue'[1] = Append(queue[1], w)
        BY <1>0, <1>6, WordFromInterrupt DEF SpiTimer, StatsTimer, SpiDone
    <2>4. \A w \in {TimeWord("none"), SPIWord("none")} : w \in QueueWords(1) /\ w \notin Commands1
        <3>1. \A w \in {TimeWord("none"), SPIWord("none")} : w \in QueueWords(1) /\ w.tag # 2
            BY DEF QueueWords, TimeWord, SPIWord, Word
        <3>. QED
            BY <3>1, CommandWords
    <2>5. InQ1' = InQ1
        <3>1. queue'[1] = queue[1] => InQ1' = InQ1
            BY DEF InQ1, CommandInQ1
        <3>2. \A w \in {TimeWord("none"), SPIWord("none")} :
                 queue'[1] = Append(queue[1], w) => InQ1' = InQ1
            BY <2>4, QueueOne
        <3>. QED
            BY <2>3, <3>1, <3>2
    <2>. QED
        BY <2>1, <2>2, <2>5 DEF OfT2, InQ3, OfRx
<1>. QED
    BY <1>1, <1>2, <1>3, <1>4, <1>5, <1>6

\* The controller takes a command: the oldest one of the way.
LEMMA CommandTaken ==
    ASSUME PipeType, HandleCommand
    PROVE  /\ InQ1 = <<lastWifiVal'>> \o InQ1' /\ lastWifiVal' \in WifiVals
           /\ OfT2' = OfT2 /\ InQ3' = InQ3 /\ OfRx' = OfRx
<1>0. QueueType /\ Tasks = {"rx", "t0", "t1", "t2", "mc"} /\ Queues = {1, 2, 3, 6}
    BY DEF PipeType, DataType, Tasks, Queues
<1>1. /\ NextMessage(Q1_TYPE_WIFI) /\ lastWifiVal' = Head(queue[1]).val
      /\ Dequeue("t0", 1, CommandCalls(Head(queue[1]).val))
    BY DEF HandleCommand, CommandCalls
<1>2. /\ queue[1] # << >> /\ queue'[1] = Tail(queue[1]) /\ queue'[3] = queue[3]
      /\ todo'["t2"] = todo["t2"] /\ todo'["rx"] = todo["rx"]
    BY <1>0, <1>1, Dequeued
<1>3. /\ Head(queue[1]) \in QueueWords(1) /\ Head(queue[1]).tag = 2
      /\ Head(queue[1]).val \in WifiVals
    BY <1>0, <1>1, MessageTypes
<1>4. Head(queue[1]) \in Commands1 /\ CommandInQ1[Head(queue[1])] = Head(queue[1]).val
    BY <1>3, CommandWords
<1>5. InQ1 = <<CommandInQ1[Head(queue[1])]>> \o InQ1'
    BY <1>2, <1>4, QueueOne
<1>. QED
    BY <1>1, <1>2, <1>3, <1>4, <1>5 DEF OfT2, InQ3, OfRx

LEMMA WayIsTransit == Way = InTransit
BY DEF Way, InTransit, InQ1, OfT2, InQ3, OfRx

LEMMA WayInit == Init => Way = << >>
<1>. SUFFICES ASSUME Init PROVE Way = << >>
    OBVIOUS
<1>1. /\ queue[1] = << >> /\ queue[3] = << >> /\ todo["rx"] = << >> /\ todo["t2"] = Boot
    BY DEF Init, Tasks
<1>2. InQ1 = << >> /\ InQ3 = << >> /\ OfRx = << >>
    BY <1>1, ChosenNone DEF InQ1, InQ3, OfRx
<1>3. \A c \in {"initSpi", "Uartinit0", "timer"} : Call(c) \notin DOMAIN SentToQ1
    <2>1. \A n, cs : \A c \in {"initSpi", "Uartinit0", "timer"} : Call(c) \notin Sends(n, cs)
        BY CommandWords, CallNames
    <2>. QED
        BY <2>1, Maps
<1>4. Chosen(<<Call("Uartinit0"), Call("timer")>>, SentToQ1) = Chosen(<<Call("timer")>>, SentToQ1)
    BY <1>3, TwoChosen
<1>5. Chosen(<<Call("timer")>>, SentToQ1) = << >>
    BY <1>3, OneChosen
<1>8. Chosen(Boot, SentToQ1) = Chosen(Tail(Boot), SentToQ1)
    <2>1. Boot \in Seq(CallsOf("t2")) /\ Boot # << >> /\ Head(Boot) = Call("initSpi")
        BY CallsTyped DEF Boot
    <2>. QED
        BY <1>3, <2>1, WordOff
<1>9. Tail(Boot) = <<Call("Uartinit0"), Call("timer")>>
    BY DEF Boot
<1>6. OfT2 = << >>
    BY <1>1, <1>4, <1>5, <1>8, <1>9 DEF OfT2
<1>7. << >> \o << >> = << >>
    BY Joined
<1>. QED
    BY <1>2, <1>6, <1>7 DEF Way

\* Every step accepts a command at the end of the way, delivers the one at its front or
\* leaves the way and the controller's state as they are.
LEMMA WayStep ==
    ASSUME PipeType, [Next]_vars
    PROVE  \/ \E c \in WifiVals : Way' = Append(Way, c) /\ lastWifiVal' = lastWifiVal
           \/ HandleCommand /\ Way # << >> /\ lastWifiVal' = Head(Way) /\ Way' = Tail(Way)
           \/ Way' = Way /\ lastWifiVal' = lastWifiVal
<1>1. /\ InQ1 \in Seq(WifiVals) /\ OfT2 \in Seq(WifiVals)
      /\ InQ3 \in Seq(WifiVals) /\ OfRx \in Seq(WifiVals)
    BY PartsType
<1>2. /\ InQ1' \in Seq(WifiVals) /\ OfT2' \in Seq(WifiVals)
      /\ InQ3' \in Seq(WifiVals) /\ OfRx' \in Seq(WifiVals)
    BY PartsTypeNext
<1>3. /\ Way = (InQ1 \o OfT2) \o (InQ3 \o OfRx)
      /\ Way = (InQ1 \o (OfT2 \o InQ3)) \o OfRx
      /\ Way = InQ1 \o (OfT2 \o InQ3 \o OfRx)
      /\ Way \in Seq(WifiVals)
    BY <1>1, Regrouped DEF Way
<1>4. /\ Way' = (InQ1' \o OfT2') \o (InQ3' \o OfRx')
      /\ Way' = (InQ1' \o (OfT2' \o InQ3')) \o OfRx'
      /\ Way' = InQ1' \o (OfT2' \o InQ3' \o OfRx')
      /\ Way' \in Seq(WifiVals)
    BY <1>2, Regrouped DEF Way
<1>5. ASSUME NEW body \in Bodies, Receive(body)
      PROVE  \/ \E c \in WifiVals : Way' = Append(Way, c) /\ lastWifiVal' = lastWifiVal
             \/ Way' = Way /\ lastWifiVal' = lastWifiVal
    <2>. DEFINE before == InQ1 \o OfT2 \o InQ3
    <2>1. lastWifiVal' = lastWifiVal
        BY <1>5 DEF Receive, controller
    <2>2. /\ InQ1' = InQ1 /\ OfT2' = OfT2 /\ InQ3' = InQ3 /\ OfRx = << >>
          /\ OfRx' = << >> \/ \E c \in WifiVals : OfRx' = <<c>>
        BY <1>5, RxReceives
    <2>3. before \in Seq(WifiVals)
        <3>1. InQ1 \o OfT2 \in Seq(WifiVals)
            BY <1>1, ConcatProperties
        <3>. QED
            BY <1>1, <3>1, ConcatProperties
    <2>4. Way = before \o << >> /\ Way' = before \o OfRx'
        BY <2>2 DEF Way
    <2>. HIDE DEF before
    <2>5. Way = before
        BY <2>3, <2>4, ConcatEmptySeq
    <2>6. \A c \in WifiVals : Append(before, c) = before \o <<c>>
        BY <2>3, AppendIsConcat
    <2>. QED
        BY <2>1, <2>2, <2>4, <2>5, <2>6
<1>6. CASE SendStep("rx")
    <2>1. InQ3' \o OfRx' = InQ3 \o OfRx /\ InQ1' = InQ1 /\ OfT2' = OfT2
        BY <1>6, RxSends
    <2>2. lastWifiVal' = lastWifiVal
        BY <1>6 DEF SendStep, controller
    <2>. QED
        BY <1>3, <1>4, <2>1, <2>2
<1>7. CASE SendStep("t2")
    <2>1. InQ1' \o OfT2' = InQ1 \o OfT2 /\ InQ3' = InQ3 /\ OfRx' = OfRx
        BY <1>7, T2Sends
    <2>2. lastWifiVal' = lastWifiVal
        BY <1>7 DEF SendStep, controller
    <2>. QED
        BY <1>3, <1>4, <2>1, <2>2
<1>8. CASE ThreadFxn2
    <2>1. OfT2' \o InQ3' = OfT2 \o InQ3 /\ InQ1' = InQ1 /\ OfRx' = OfRx
        BY <1>8, T2Takes
    <2>2. lastWifiVal' = lastWifiVal
        BY <1>8 DEF ThreadFxn2, controller
    <2>. QED
        BY <1>3, <1>4, <2>1, <2>2
<1>9. CASE HandleCommand
    <2>. DEFINE c == lastWifiVal'
                after == OfT2 \o InQ3 \o OfRx
    <2>1. /\ InQ1 = <<c>> \o InQ1' /\ c \in WifiVals
          /\ OfT2' = OfT2 /\ InQ3' = InQ3 /\ OfRx' = OfRx
        BY <1>9, CommandTaken
    <2>2. after \in Seq(WifiVals)
        <3>1. OfT2 \o InQ3 \in Seq(WifiVals)
            BY <1>1, ConcatProperties
        <3>. QED
            BY <1>1, <3>1, ConcatProperties
    <2>3. Way = (<<c>> \o InQ1') \o after /\ Way' = InQ1' \o after
        BY <1>3, <1>4, <2>1
    <2>. HIDE DEF after, c
    <2>4. <<c>> \in Seq(WifiVals)
        BY <2>1
    <2>5. Way = <<c>> \o Way'
        <3>1. (<<c>> \o InQ1') \o after = <<c>> \o (InQ1' \o after)
            BY <1>2, <2>2, <2>4, ConcatAssociative
        <3>. QED
            BY <2>3, <3>1, Zenon
    <2>6. Way # << >> /\ Head(Way) = c /\ Tail(Way) = Way'
        <3>1. \A t \in Seq(WifiVals) :
                 <<c>> \o t # << >> /\ Head(<<c>> \o t) = c /\ Tail(<<c>> \o t) = t
            BY <2>1, FirstTaken
        <3>. QED
            BY <1>4, <2>5, <3>1, Zenon
    <2>. QED
        BY <1>9, <2>6 DEF c
<1>10. CASE \/ PubAck \/ SendStep("t0") \/ SpiOP("t0") \/ SpiOP("t2")
            \/ HandleTick \/ HandleCount \/ ThreadFxn1 \/ UartWrite
            \/ InitSpi \/ Uartinit0 \/ StartTimer \/ ErrorRoutine \/ Publish \/ MqttClient
            \/ SpiTimer \/ StatsTimer \/ SpiDone \/ UNCHANGED vars
    BY <1>3, <1>4, <1>10, WayKept
<1>. QED
    BY <1>5, <1>6, <1>7, <1>8, <1>9, <1>10 DEF Next, Rx, T0, T1, T2, Mc, Halted

LEMMA CommandsImplement == Spec => Channel!ChannelSpec
<1>1. Init => Channel!ChannelInit
    <2>1. Init => lastWifiVal = STOP
        BY DEF Init
    <2>. QED
        BY <2>1, WayInit, WayIsTransit DEF Channel!ChannelInit
<1>2. PipeType /\ [Next]_vars => [Channel!ChannelNext]_(Channel!channelVars)
    <2>. SUFFICES ASSUME PipeType, [Next]_vars
                  PROVE  [Channel!ChannelNext]_(Channel!channelVars)
        OBVIOUS
    <2>1. Way' = InTransit'
        BY DEF Way, InTransit, InQ1, OfT2, InQ3, OfRx
    <2>2. \/ \E c \in WifiVals : InTransit' = Append(InTransit, c) /\ lastWifiVal' = lastWifiVal
          \/ InTransit # << >> /\ lastWifiVal' = Head(InTransit) /\ InTransit' = Tail(InTransit)
          \/ InTransit' = InTransit /\ lastWifiVal' = lastWifiVal
        BY <2>1, WayIsTransit, WayStep
    <2>. QED
        BY <2>2 DEF Channel!ChannelNext, Channel!Accept, Channel!Deliver, Channel!channelVars
<1>. QED
    BY <1>1, <1>2, PipeTypeInv, PTL DEF Spec, Channel!ChannelSpec

-----------------------------------------------------------------------------
(***************************************************************************)
(* The word of a STOP is the last one.                                     *)
(***************************************************************************)

\* Who is in one of two sequences is in both together.
LEMMA HoldsJoined ==
    ASSUME NEW S, NEW s \in Seq(S), NEW t \in Seq(S), NEW x, Holds(s, x) \/ Holds(t, x)
    PROVE  Holds(s \o t, x)
<1>1. /\ Len(s) \in Nat /\ Len(t) \in Nat /\ Len(s \o t) = Len(s) + Len(t)
      /\ \A i \in 1..(Len(s) + Len(t)) :
            (s \o t)[i] = IF i <= Len(s) THEN s[i] ELSE t[i - Len(s)]
    BY ConcatProperties, LenProperties
<1>2. ASSUME NEW i \in 1..Len(s), s[i] = x PROVE Holds(s \o t, x)
    <2>1. i \in 1..(Len(s) + Len(t)) /\ i <= Len(s)
        BY <1>1
    <2>2. (s \o t)[i] = x
        BY <1>1, <1>2, <2>1
    <2>. QED
        BY <1>1, <2>1, <2>2 DEF Holds
<1>3. ASSUME NEW i \in 1..Len(t), t[i] = x PROVE Holds(s \o t, x)
    <2>1. Len(s) + i \in 1..(Len(s) + Len(t)) /\ ~(Len(s) + i <= Len(s)) /\ (Len(s) + i) - Len(s) = i
        BY <1>1
    <2>2. (s \o t)[Len(s) + i] = x
        BY <1>1, <1>3, <2>1
    <2>. QED
        BY <1>1, <2>1, <2>2 DEF Holds
<1>. QED
    BY <1>2, <1>3 DEF Holds

LEMMA HoldsTail ==
    ASSUME NEW S, NEW s \in Seq(S), s # << >>, NEW x, Holds(Tail(s), x)
    PROVE  Holds(s, x)
<1>1. PICK i \in 1..Len(Tail(s)) : Tail(s)[i] = x
    BY DEF Holds
<1>2. Len(s) \in Nat \ {0} /\ Len(Tail(s)) = Len(s) - 1 /\ Tail(s)[i] = s[i + 1]
    BY TailOf
<1>3. i + 1 \in 1..Len(s)
    BY <1>2
<1>. QED
    BY <1>1, <1>2, <1>3 DEF Holds

\* A STOP that is on its way stays on its way until the controller takes it.
LEMMA StopStays ==
    ASSUME PipeType, [Next]_vars, StopUnderWay, ~HandleCommand
    PROVE  StopUnderWay'
<1>1. Holds(Way, STOP) /\ Way \in Seq(WifiVals)
    <2>1. /\ InQ1 \in Seq(WifiVals) /\ OfT2 \in Seq(WifiVals)
          /\ InQ3 \in Seq(WifiVals) /\ OfRx \in Seq(WifiVals)
        BY PartsType
    <2>. QED
        BY <2>1, WayIsTransit, Regrouped DEF Holds, StopUnderWay, Way
<1>2. Way' = Way \/ \E c \in WifiVals : Way' = Append(Way, c)
    BY WayStep
<1>3. \A c \in WifiVals : Holds(Append(Way, c), STOP)
    <2>. TAKE c \in WifiVals
    <2>1. <<c>> \in Seq(WifiVals) /\ Append(Way, c) = Way \o <<c>>
        BY <1>1, AppendIsConcat
    <2>2. Holds(Way \o <<c>>, STOP)
        BY <1>1, <2>1, HoldsJoined
    <2>. QED
        BY <2>1, <2>2
<1>4. Holds(Way', STOP)
    BY <1>1, <1>2, <1>3
<1>5. Way' = InTransit'
    BY DEF Way, InTransit, InQ1, OfT2, InQ3, OfRx
<1>. QED
    BY <1>4, <1>5 DEF Holds, StopUnderWay

\* The STOPs before threadFxn2 are on their way to the controller.
LEMMA BehindIsUnderWay == PipeType /\ StopBehind(0) => StopUnderWay
<1>. SUFFICES ASSUME PipeType, StopBehind(0) PROVE StopUnderWay
    OBVIOUS
<1>0. /\ InQ1 \in Seq(WifiVals) /\ OfT2 \in Seq(WifiVals)
      /\ InQ3 \in Seq(WifiVals) /\ OfRx \in Seq(WifiVals)
      /\ queue[3] \in Seq(QueueWords(3)) /\ todo["rx"] \in Seq(CallsOf("rx"))
    BY PartsType
<1>1. JsonWord("none", 5) \in Commands3 /\ CommandInQ3[JsonWord("none", 5)] = STOP
    <2>1. CommandOf[5] = STOP
        BY DEF CommandOf
    <2>. QED
        BY <2>1, CommandWords
<1>2. CASE \E j \in 1..Len(queue[3]) : queue[3][j] = JsonWord("none", 5)
    <2>1. PICK j \in 1..Len(queue[3]) : queue[3][j] = JsonWord("none", 5)
        BY <1>2
    <2>2. queue[3][j] \in DOMAIN CommandInQ3 /\ CommandInQ3[queue[3][j]] = STOP
        BY <1>1, <2>1, Maps
    <2>3. Holds(InQ3, STOP)
        BY <1>0, <2>2, ChosenHas DEF InQ3, Holds
    <2>. QED
        <3>1. InQ1 \o OfT2 \in Seq(WifiVals)
            BY <1>0, ConcatProperties
        <3>2. (InQ1 \o OfT2) \o InQ3 \in Seq(WifiVals) /\ Holds((InQ1 \o OfT2) \o InQ3, STOP)
            BY <1>0, <2>3, <3>1, ConcatProperties, HoldsJoined
        <3>3. Holds(((InQ1 \o OfT2) \o InQ3) \o OfRx, STOP)
            BY <1>0, <3>2, HoldsJoined
        <3>. QED
            BY <3>3, WayIsTransit DEF Way, StopUnderWay, Holds
<1>3. CASE Holds(todo["rx"], SendJsonMsgToQ3(5))
    <2>1. PICK i \in 1..Len(todo["rx"]) : todo["rx"][i] = SendJsonMsgToQ3(5)
        BY <1>3 DEF Holds
    <2>2. todo["rx"][i] \in DOMAIN SentToQ3 /\ SentToQ3[todo["rx"][i]] = STOP
        BY <1>1, <2>1, Maps, CommandWords DEF SendJsonMsgToQ3
    <2>3. Holds(OfRx, STOP)
        BY <1>0, <2>2, ChosenHas DEF OfRx, Holds
    <2>. QED
        <3>1. (InQ1 \o OfT2) \o InQ3 \in Seq(WifiVals)
            BY <1>0, ConcatProperties
        <3>2. Holds(((InQ1 \o OfT2) \o InQ3) \o OfRx, STOP)
            BY <1>0, <2>3, <3>1, HoldsJoined
        <3>. QED
            BY <3>2, WayIsTransit DEF Way, StopUnderWay, Holds
<1>. QED
    BY <1>2, <1>3 DEF StopBehind

LEMMA BypassInit == Init => BypassInv
<1>. SUFFICES ASSUME Init PROVE BypassInv
    OBVIOUS
<1>1. todo["rx"] = << >> /\ todo["t2"] = Boot /\ queue[3] = << >>
    BY DEF Init, Tasks
<1>2. \A i \in 1..Len(Boot) : Boot[i].to # 2
    BY CallNames DEF Boot
<1>. QED
    BY <1>1, <1>2 DEF BypassInv, Holds

\* The callback, threadFxn2 and queue 3 between them.
LEMMA BypassKept ==
    ASSUME BypassInv, rawSince' = rawSince, queue'[3] = queue[3], todo'["rx"] = todo["rx"],
           todo'["t2"] = todo["t2"]
    PROVE  BypassInv'
BY DEF BypassInv, StopBehind, Holds

LEMMA T2Calls ==
    ASSUME PipeType, BypassInv, rawSince' = rawSince, queue'[3] = queue[3],
           todo'["rx"] = todo["rx"], todo["t2"] # << >>, todo'["t2"] = Tail(todo["t2"])
    PROVE  BypassInv'
<1>1. todo["t2"] \in Seq(CallsOf("t2"))
    BY PartsType
<1>2. \A i \in 1..Len(Tail(todo["t2"])) :
         i + 1 \in 1..Len(todo["t2"]) /\ Tail(todo["t2"])[i] = todo["t2"][i + 1]
    BY <1>1, TailOf
<1>3. \A k : StopBehind(k)' = StopBehind(k)
    BY DEF StopBehind, Holds
<1>. QED
    BY <1>2, <1>3 DEF BypassInv, Holds

LEMMA RxCalls ==
    ASSUME PipeType, BypassInv, SendStep("rx")
    PROVE  BypassInv'
<1>. DEFINE op == Head(todo["rx"])
            q  == queue[3]
            stop == SendJsonMsgToQ3(5)
<1>0. /\ QueueType /\ TodoType /\ Tasks = {"rx", "t0", "t1", "t2", "mc"} /\ Queues = {1, 2, 3, 6}
      /\ q \in Seq(QueueWords(3)) /\ todo["rx"] \in Seq(CallsOf("rx"))
    BY PartsType DEF PipeType, DataType, Tasks, Queues
<1>1. op \in CallsOf("rx") /\ op.to \in {3, 6} /\ op.word \in QueueWords(op.to)
    BY <1>0, SendStepTyped, SendsOf
<1>2. /\ queue'[op.to] = Append(queue[op.to], op.word)
      /\ \A m \in Queues \ {op.to} : queue'[m] = queue[m]
    BY <1>0, WordSent
<1>3. /\ todo["rx"] # << >> /\ todo'["rx"] = Tail(todo["rx"]) /\ todo'["t2"] = todo["t2"]
      /\ rawSince' = rawSince
    BY <1>0, CallMade DEF SendStep, Running
<1>4. \A x : Holds(todo["rx"], x) => op = x \/ Holds(todo'["rx"], x)
    <2>1. SUFFICES ASSUME NEW x, NEW i \in 1..Len(todo["rx"]), todo["rx"][i] = x, op # x
                   PROVE  Holds(todo'["rx"], x)
        BY DEF Holds
    <2>2. /\ Len(todo["rx"]) \in Nat \ {0} /\ Len(Tail(todo["rx"])) = Len(todo["rx"]) - 1
          /\ op = todo["rx"][1]
          /\ \A j \in 1..Len(Tail(todo["rx"])) : Tail(todo["rx"])[j] = todo["rx"][j + 1]
        BY <1>0, <1>3, TailOf
    <2>3. i # 1
        BY <2>1, <2>2
    <2>4. i - 1 \in 1..Len(Tail(todo["rx"])) /\ (i - 1) + 1 = i
        BY <2>2, <2>3
    <2>5. Tail(todo["rx"])[i - 1] = x
        BY <2>1, <2>2, <2>4
    <2>. QED
        BY <1>3, <2>4, <2>5 DEF Holds
<1>5. ~rawSince => ~Holds(todo'["rx"], SendJsonMsgToQ3(10)) /\ op # SendJsonMsgToQ3(10)
    <2>1. Holds(todo'["rx"], SendJsonMsgToQ3(10)) => Holds(todo["rx"], SendJsonMsgToQ3(10))
        BY <1>0, <1>3, HoldsTail
    <2>2. op = todo["rx"][1] /\ 1 \in 1..Len(todo["rx"])
        BY <1>0, <1>3, TailOf
    <2>. QED
        BY <2>1, <2>2 DEF BypassInv, Holds
<1>. HIDE DEF op, q, stop
<1>6. CASE op.to = 6
    <2>1. queue'[3] = q
        BY <1>0, <1>2, <1>6 DEF q
    <2>2. op # stop
        BY <1>6, CallNames DEF stop, SendJsonMsgToQ3
    <2>3. \A k : StopBehind(k) => StopBehind(k)'
        BY <1>4, <2>1, <2>2 DEF StopBehind, stop, q
    <2>. QED
        BY <1>3, <1>5, <2>1, <2>3 DEF BypassInv, q
<1>7. CASE op.to = 3
    <2>1. queue'[3] = Append(q, op.word) /\ op.word \in QueueWords(3)
        BY <1>1, <1>2, <1>7 DEF q
    <2>2. /\ Len(q) \in Nat /\ Len(queue'[3]) = Len(q) + 1 /\ queue'[3][Len(q) + 1] = op.word
          /\ \A k \in 1..Len(q) : queue'[3][k] = q[k]
        BY <1>0, <2>1, AppendProperties, LenProperties
    <2>3. op = stop => op.word = JsonWord("none", 5)
        BY CallNames DEF stop, SendJsonMsgToQ3
    <2>4. \A k \in 0..Len(q) : StopBehind(k) => StopBehind(k)'
        <3>1. SUFFICES ASSUME NEW k \in 0..Len(q), StopBehind(k) PROVE StopBehind(k)'
            OBVIOUS
        <3>2. CASE \E j \in 1..Len(q) : j > k /\ q[j] = JsonWord("none", 5)
            <4>1. PICK j \in 1..Len(q) : j > k /\ q[j] = JsonWord("none", 5)
                BY <3>2
            <4>2. j \in 1..Len(queue'[3]) /\ queue'[3][j] = JsonWord("none", 5)
                BY <2>2, <4>1
            <4>. QED
                BY <4>1, <4>2 DEF StopBehind
        <3>3. CASE Holds(todo["rx"], stop) /\ op = stop
            <4>1. Len(q) + 1 > k /\ Len(q) + 1 \in 1..Len(queue'[3])
                BY <2>2
            <4>. QED
                BY <2>2, <2>3, <3>3, <4>1 DEF StopBehind
        <3>4. CASE Holds(todo["rx"], stop) /\ op # stop
            BY <1>4, <3>4 DEF StopBehind, stop
        <3>. QED
            BY <3>1, <3>2, <3>3, <3>4 DEF StopBehind, stop, q
    <2>5. ASSUME ~rawSince', NEW k \in 1..Len(queue'[3]), queue'[3][k] = JsonWord("none", 10)
          PROVE  StopBehind(k)'
        <3>1. CASE k \in 1..Len(q)
            <4>1. q[k] = JsonWord("none", 10) /\ k \in 0..Len(q)
                BY <2>2, <2>5, <3>1
            <4>2. StopBehind(k)
                BY <1>3, <2>5, <3>1, <4>1 DEF BypassInv, q
            <4>. QED
                BY <2>4, <4>1, <4>2
        <3>2. CASE k = Len(q) + 1
            <4>1. op.word = JsonWord("none", 10)
                BY <2>2, <2>5, <3>2
            <4>2. op = Send(3, op.word)
                <5>1. op \in Sends(6, QueueWords(6)) \/ op \in Sends(3, QueueWords(3))
                    BY <1>1 DEF CallsOf
                <5>. QED
                    BY <1>7, <5>1, CommandWords
            <4>3. op = SendJsonMsgToQ3(10)
                BY <4>1, <4>2 DEF SendJsonMsgToQ3
            <4>. QED
                BY <1>3, <1>5, <2>5, <4>3
        <3>. QED
            BY <2>2, <3>1, <3>2
    <2>6. ASSUME ~rawSince', NEW i \in 1..Len(todo'["t2"]), todo'["t2"][i].to = 2
          PROVE  StopBehind(0)'
        <3>1. StopBehind(0)
            BY <1>3, <2>6 DEF BypassInv
        <3>. QED
            BY <2>2, <2>4, <3>1
    <2>. QED
        BY <1>3, <1>5, <2>5, <2>6 DEF BypassInv
<1>. QED
    BY <1>1, <1>6, <1>7

\* threadFxn2 takes a raw word: the STOP behind it comes next or later.
LEMMA T2Fetches ==
    ASSUME PipeType, BypassInv, ThreadFxn2
    PROVE  BypassInv'
<1>. DEFINE w == Head(queue[3])
            type == w.tag - 1
            q == queue[3]
<1>0. QueueType /\ TodoType /\ Tasks = {"rx", "t0", "t1", "t2", "mc"} /\ Queues = {1, 2, 3, 6}
    BY DEF PipeType, DataType, Tasks, Queues
<1>1. Dequeue("t2", 3, Work(DequeueQ3(w, Unset).type)) /\ rawSince' = rawSince
    BY DEF ThreadFxn2
<1>2. /\ q # << >> /\ queue'[3] = Tail(q) /\ todo'["rx"] = todo["rx"]
      /\ todo'["t2"] = Work(DequeueQ3(w, Unset).type)
    BY <1>0, <1>1, Dequeued
<1>3. q \in Seq(QueueWords(3))
    BY PartsType
<1>4. w \in QueueWords(3)
    BY <1>2, <1>3, HeadTailProperties
<1>5. type \in 0..10 /\ DequeueQ3(w, Unset).type = type
    BY <1>4, WordsRead
<1>6. type = 10 => w = JsonWord("none", 10)
    <2>1. PICK other \in 0..10 : w = JsonWord("none", other)
        BY <1>4 DEF QueueWords
    <2>2. w.tag = other + 1
        BY <2>1 DEF JsonWord, Word
    <2>. QED
        BY <2>1, <2>2
<1>7. /\ Len(q) \in Nat \ {0} /\ Len(Tail(q)) = Len(q) - 1 /\ w = q[1]
      /\ \A k \in 1..Len(Tail(q)) : Tail(q)[k] = q[k + 1]
    BY <1>2, <1>3, TailOf
<1>. HIDE DEF w, type, q
<1>8. ASSUME NEW k \in Nat, StopBehind(k + 1) PROVE StopBehind(k)'
    <2>1. CASE \E j \in 1..Len(q) : j > k + 1 /\ q[j] = JsonWord("none", 5)
        <3>1. PICK j \in 1..Len(q) : j > k + 1 /\ q[j] = JsonWord("none", 5)
            BY <2>1
        <3>2. j - 1 \in 1..Len(Tail(q)) /\ j - 1 > k /\ (j - 1) + 1 = j
            BY <1>7, <3>1
        <3>3. queue'[3][j - 1] = JsonWord("none", 5)
            BY <1>2, <1>7, <3>1, <3>2
        <3>. QED
            BY <1>2, <3>2, <3>3 DEF StopBehind
    <2>. QED
        BY <1>2, <1>8, <2>1 DEF StopBehind, q
<1>9. ASSUME ~rawSince', NEW k \in 1..Len(queue'[3]), queue'[3][k] = JsonWord("none", 10)
      PROVE  StopBehind(k)'
    <2>1. q[k + 1] = JsonWord("none", 10) /\ k + 1 \in 1..Len(q) /\ k \in Nat
        BY <1>2, <1>7, <1>9
    <2>2. StopBehind(k + 1)
        BY <1>1, <1>9, <2>1 DEF BypassInv, q
    <2>. QED
        BY <1>8, <2>1, <2>2
<1>10. ASSUME ~rawSince', NEW i \in 1..Len(todo'["t2"]), todo'["t2"][i].to = 2
       PROVE  StopBehind(0)'
    <2>1. type = 10
        <3>1. \A c : SendWIFIMsgToQ1(c).to = 1
            BY CallNames DEF SendWIFIMsgToQ1
        <3>2. todo'["t2"] = Work(type)
            BY <1>2, <1>5
        <3>3. \A a : 1..Len(<<a>>) = {1} /\ <<a>>[1] = a
            OBVIOUS
        <3>4. type = 0 \/ type \in 1..3 \/ type \in 4..8 \/ type = 9 \/ type = 10
            BY <1>5
        <3>5. CASE type = 0
            <4>1. todo'["t2"] = << >>
                BY <3>2, <3>5 DEF Work
            <4>. QED
                BY <1>10, <4>1
        <3>6. CASE type \in 1..3
            <4>1. todo'["t2"] = <<Call("spiOP")>>
                BY <3>2, <3>6 DEF Work
            <4>. QED
                BY <1>10, <3>3, <4>1, CallNames
        <3>7. CASE type \in 4..8
            <4>1. todo'["t2"] = <<SendWIFIMsgToQ1(CommandOf[type])>>
                BY <3>2, <3>7 DEF Work
            <4>. QED
                BY <1>10, <3>1, <3>3, <4>1
        <3>8. CASE type = 9
            <4>1. todo'["t2"] = <<Call("errorRoutine")>>
                BY <3>2, <3>8 DEF Work
            <4>. QED
                BY <1>10, <3>3, <4>1, CallNames
        <3>. QED
            BY <3>4, <3>5, <3>6, <3>7, <3>8
    <2>2. q[1] = JsonWord("none", 10) /\ 1 \in 1..Len(q)
        BY <1>6, <1>7, <2>1
    <2>3. StopBehind(0 + 1)
        BY <1>1, <1>10, <2>2 DEF BypassInv, q
    <2>. QED
        BY <1>8, <2>3
<1>11. ~rawSince' => ~Holds(todo'["rx"], SendJsonMsgToQ3(10))
    BY <1>1, <1>2 DEF BypassInv, Holds
<1>. QED
    BY <1>9, <1>10, <1>11 DEF BypassInv

\* The callback starts with nothing to send, and sends a raw word or a STOP last.
LEMMA RxStarts ==
    ASSUME PipeType, NEW body \in Bodies, Receive(body)
    PROVE  /\ todo["rx"] = << >> /\ queue' = queue /\ todo'["t2"] = todo["t2"]
           /\ rawSince' = IF body = "raw" THEN TRUE ELSE IF body = "stop" THEN FALSE ELSE rawSince
           /\ body # "raw" => ~Holds(todo'["rx"], SendJsonMsgToQ3(10))
           /\ body = "stop" => Holds(todo'["rx"], SendJsonMsgToQ3(5))
<1>0. TodoType /\ Tasks = {"rx", "t0", "t1", "t2", "mc"}
    BY DEF PipeType, DataType, Tasks
<1>1. /\ todo["rx"] = << >> /\ queue' = queue
      /\ todo' = [todo EXCEPT !["rx"] = ReceiveCalls(body)]
      /\ rawSince' = IF body = "raw" THEN TRUE ELSE IF body = "stop" THEN FALSE ELSE rawSince
    BY DEF Receive, ReceiveCalls, Waiting
<1>2. todo'["rx"] = ReceiveCalls(body) /\ todo'["t2"] = todo["t2"]
    BY <1>0, <1>1, OneThread
<1>3. CASE body = "other"
    <2>1. ReceiveCalls(body) = <<SendWIFIMsgToQ6(4)>>
        BY <1>3, Joined DEF ReceiveCalls
    <2>2. SendWIFIMsgToQ6(4).to = 6 /\ SendJsonMsgToQ3(10).to = 3
        BY CallNames DEF SendWIFIMsgToQ6, SendJsonMsgToQ3
    <2>3. ~Holds(<<SendWIFIMsgToQ6(4)>>, SendJsonMsgToQ3(10))
        BY <2>2 DEF Holds
    <2>. QED
        BY <1>1, <1>2, <1>3, <2>1, <2>3
<1>4. CASE body # "other"
    <2>1. ReceiveCalls(body) = <<SendWIFIMsgToQ6(4), SendJsonMsgToQ3(BodyTypes[body])>>
        BY <1>4, Joined DEF ReceiveCalls
    <2>2. SendWIFIMsgToQ6(4).to = 6 /\ SendJsonMsgToQ3(10).to = 3
        BY CallNames DEF SendWIFIMsgToQ6, SendJsonMsgToQ3
    <2>3. /\ BodyTypes[body] \in 0..10
          /\ body # "raw" => BodyTypes[body] # 10
          /\ body = "stop" => BodyTypes[body] = 5
        BY <1>4, BodiesAssumption DEF AllBodies, BodyTypes
    <2>4. \A type \in 0..10 : SendJsonMsgToQ3(type) = SendJsonMsgToQ3(10) => type = 10
        <3>1. \A type \in 0..10 : SendJsonMsgToQ3(type).word.tag = type + 1
            BY CallNames DEF SendJsonMsgToQ3, JsonWord, Word
        <3>2. \A type \in 0..10 : type + 1 = 10 + 1 => type = 10
            OBVIOUS
        <3>. QED
            BY <3>1, <3>2
    <2>5. \A a, b, x : Holds(<<a, b>>, x) <=> a = x \/ b = x
        <3>1. \A a, b : 1..Len(<<a, b>>) = {1, 2} /\ <<a, b>>[1] = a /\ <<a, b>>[2] = b
            OBVIOUS
        <3>. QED
            BY <3>1 DEF Holds
    <2>6. body # "raw" => SendJsonMsgToQ3(BodyTypes[body]) # SendJsonMsgToQ3(10)
        BY <2>3, <2>4
    <2>. QED
        BY <1>1, <1>2, <2>1, <2>2, <2>3, <2>5, <2>6
<1>. QED
    BY <1>3, <1>4

LEMMA RxBegins ==
    ASSUME PipeType, BypassInv, NEW body \in Bodies, Receive(body)
    PROVE  BypassInv'
<1>1. /\ todo["rx"] = << >> /\ queue' = queue /\ todo'["t2"] = todo["t2"]
      /\ rawSince' = IF body = "raw" THEN TRUE ELSE IF body = "stop" THEN FALSE ELSE rawSince
      /\ body # "raw" => ~Holds(todo'["rx"], SendJsonMsgToQ3(10))
      /\ body = "stop" => Holds(todo'["rx"], SendJsonMsgToQ3(5))
    BY RxStarts
<1>2. CASE body = "raw"
    BY <1>1, <1>2 DEF BypassInv
<1>3. CASE body = "stop"
    <2>1. \A k : StopBehind(k)'
        BY <1>1, <1>3 DEF StopBehind
    <2>. QED
        BY <1>1, <1>3, <2>1 DEF BypassInv
<1>4. CASE body # "raw" /\ body # "stop"
    <2>1. ~Holds(todo["rx"], SendJsonMsgToQ3(5))
        BY <1>1 DEF Holds
    <2>2. \A k : StopBehind(k) => StopBehind(k)'
        BY <1>1, <2>1 DEF StopBehind
    <2>. QED
        BY <1>1, <1>4, <2>2 DEF BypassInv
<1>. QED
    BY <1>2, <1>3, <1>4

LEMMA BypassStep == PipeType /\ BypassInv /\ [Next]_vars => BypassInv'
<1>. SUFFICES ASSUME PipeType, BypassInv, [Next]_vars PROVE BypassInv'
    OBVIOUS
<1>0. /\ QueueType /\ TodoType /\ Tasks = {"rx", "t0", "t1", "t2", "mc"} /\ Queues = {1, 2, 3, 6}
    BY DEF PipeType, DataType, Tasks, Queues
<1>1. CASE SendStep("rx") \/ ThreadFxn2 \/ \E body \in Bodies : Receive(body)
    BY <1>1, RxCalls, T2Fetches, RxBegins
<1>2. CASE SendStep("t2")
    <2>1. Head(todo["t2"]).to \in {1, 2}
        BY <1>0, <1>2, SendStepTyped, SendsOf DEF SendStep
    <2>2. \A m \in Queues \ {Head(todo["t2"]).to} : queue'[m] = queue[m]
        BY <1>0, <1>2, WordSent
    <2>3. queue'[3] = queue[3]
        BY <1>0, <2>1, <2>2
    <2>4. /\ todo["t2"] # << >> /\ todo'["t2"] = Tail(todo["t2"]) /\ todo'["rx"] = todo["rx"]
          /\ rawSince' = rawSince
        BY <1>0, <1>2, CallMade DEF SendStep, Running
    <2>. QED
        BY <2>3, <2>4, T2Calls
<1>3. CASE SpiOP("t2") \/ InitSpi \/ Uartinit0 \/ StartTimer \/ ErrorRoutine
    <2>1. /\ todo' = [todo EXCEPT !["t2"] = Tail(@)] /\ todo["t2"] # << >>
          /\ UNCHANGED <<rawSince, queue>>
        BY <1>3 DEF SpiOP, InitSpi, Uartinit0, StartTimer, ErrorRoutine, Running
    <2>2. todo'["t2"] = Tail(todo["t2"]) /\ todo'["rx"] = todo["rx"]
        BY <1>0, <2>1, CallMade
    <2>. QED
        BY <2>1, <2>2, T2Calls
<1>4. CASE SendStep("t0")
    <2>1. Head(todo["t0"]).to \in {2, 6}
        BY <1>0, <1>4, SendStepTyped, SendsOf DEF SendStep
    <2>2. \A m \in Queues \ {Head(todo["t0"]).to} : queue'[m] = queue[m]
        BY <1>0, <1>4, WordSent
    <2>3. queue'[3] = queue[3]
        BY <1>0, <2>1, <2>2
    <2>4. todo'["t2"] = todo["t2"] /\ todo'["rx"] = todo["rx"] /\ rawSince' = rawSince
        BY <1>0, <1>4, CallMade DEF SendStep
    <2>. QED
        BY <2>3, <2>4, BypassKept
<1>5. CASE SpiOP("t0") \/ UartWrite \/ Publish \/ PubAck
    <2>1. /\ UNCHANGED <<rawSince, queue>>
          /\ todo' = todo \/ \E t \in {"t0", "t1", "mc"} : todo' = [todo EXCEPT ![t] = Tail(@)]
        BY <1>5 DEF SpiOP, UartWrite, Publish, PubAck
    <2>2. todo'["t2"] = todo["t2"] /\ todo'["rx"] = todo["rx"]
        BY <1>0, <2>1, CallMade
    <2>. QED
        BY <2>1, <2>2, BypassKept
<1>6. CASE HandleTick \/ HandleCount \/ HandleCommand \/ ThreadFxn1 \/ MqttClient
    <2>1. PICK t \in {"t0", "t1", "mc"}, n \in {1, 2, 6} :
             (\E calls : Dequeue(t, n, calls)) /\ rawSince' = rawSince
        BY <1>6 DEF HandleTick, HandleCount, HandleCommand, ThreadFxn1, MqttClient
    <2>2. queue'[3] = queue[3] /\ todo'["t2"] = todo["t2"] /\ todo'["rx"] = todo["rx"]
        BY <1>0, <2>1, Dequeued
    <2>. QED
        BY <2>1, <2>2, BypassKept
<1>7. CASE SpiTimer \/ StatsTimer \/ SpiDone
    <2>1. todo' = todo /\ rawSince' = rawSince
        BY <1>7 DEF SpiTimer, StatsTimer, SpiDone, Interrupt
    <2>2. queue'[3] = queue[3]
        BY <1>0, <1>7, WordFromInterrupt DEF SpiTimer, StatsTimer, SpiDone
    <2>. QED
        BY <2>1, <2>2, BypassKept
<1>8. CASE UNCHANGED vars
    BY <1>8, BypassKept DEF vars
<1>. QED
    BY <1>1, <1>2, <1>3, <1>4, <1>5, <1>6, <1>7, <1>8 DEF Next, Rx, T0, T1, T2, Mc, Halted

\* A STOP that ends the excuse of a raw word is under way itself.
LEMMA ExcuseStays ==
    ASSUME PipeType, [Next]_vars, ~HandleCommand, Excused
    PROVE  Excused'
<1>1. CASE StopUnderWay
    BY <1>1, StopStays DEF Excused
<1>2. CASE rawSince /\ rawSince'
    BY <1>2 DEF Excused
<1>3. CASE rawSince /\ ~rawSince'
    <2>1. PICK body \in Bodies : Receive(body)
        BY <1>3 DEF Next, Rx, T0, T1, T2, Mc, Halted, vars, SendStep, SpiOP, PubAck, Publish,
               InitSpi, Uartinit0, StartTimer, ErrorRoutine, UartWrite, ThreadFxn1, ThreadFxn2,
               HandleTick, HandleCount, HandleCommand, MqttClient, SpiTimer, StatsTimer,
               SpiDone, Interrupt
    <2>2. body = "stop" /\ Holds(todo'["rx"], SendJsonMsgToQ3(5))
        BY <1>3, <2>1, RxStarts
    <2>3. StopBehind(0)'
        BY <2>2 DEF StopBehind
    <2>4. PipeType'
        BY PipeTypeStep
    <2>5. (PipeType /\ StopBehind(0) => StopUnderWay)'
        BY BehindIsUnderWay, PTL
    <2>. QED
        BY <2>3, <2>4, <2>5 DEF Excused
<1>. QED
    BY <1>1, <1>2, <1>3 DEF Excused

LEMMA StopInit == Init => StopInv
<1>. SUFFICES ASSUME Init PROVE StopInv
    OBVIOUS
<1>1. todo["t0"] = << >> /\ todo["t1"] = << >> /\ queue[2] = << >> /\ uart = "none"
    BY DEF Init, Tasks
<1>. QED
    BY <1>1 DEF StopInv, Silent, Newest

\* A call that the controller makes and that is not the last word for the motors.
LEMMA ControllerCalls ==
    ASSUME PipeType, StopInv, lastWifiVal = STOP, todo["t0"] # << >>, Head(todo["t0"]).to # 2,
           todo'["t0"] = Tail(todo["t0"])
    PROVE  /\ StopsNext => StopsNext'
           /\ Silent => Silent'
<1>1. todo["t0"] \in Seq(CallsOf("t0"))
    BY DEF PipeType, DataType, TodoType, Tasks
<1>2. ASSUME StopsNext PROVE StopsNext'
    <2>1. Tail(todo["t0"]) # << >>
        BY <1>1, <1>2, TailOf, CallNames DEF StopsNext, SendMotorMsgToQ2
    <2>. QED
        BY <1>1, <1>2, <2>1, TailOf DEF StopsNext
<1>3. ASSUME Silent PROVE Silent'
    <2>1. \A i \in 1..Len(Tail(todo["t0"])) :
              Tail(todo["t0"])[i] = todo["t0"][i + 1] /\ i + 1 \in 1..Len(todo["t0"])
        BY <1>1, TailOf
    <2>. QED
        BY <1>3, <2>1 DEF Silent
<1>. QED
    BY <1>2, <1>3

LEMMA StopStep == PipeType /\ BypassInv /\ StopInv /\ [Next]_vars => StopInv'
<1>. SUFFICES ASSUME PipeType, BypassInv, StopInv, [Next]_vars PROVE StopInv'
    OBVIOUS
<1>0. /\ QueueType /\ TodoType /\ Tasks = {"rx", "t0", "t1", "t2", "mc"} /\ Queues = {1, 2, 3, 6}
      /\ Len(todo["t1"]) <= 1
    BY DEF PipeType, DataType, Tasks, Queues, StopInv
<1>11. ASSUME NEW calls, Dequeue("t0", 1, calls)
       PROVE  /\ todo["t0"] = << >> /\ todo'["t0"] = calls /\ todo'["t1"] = todo["t1"]
              /\ queue'[2] = queue[2] /\ ~StopsNext
    BY <1>0, <1>11, Dequeued DEF StopsNext
<1>17. CASE HandleCommand
    <2>. DEFINE c == Head(queue[1]).val
    <2>1. Dequeue("t0", 1, CommandCalls(c)) /\ lastWifiVal' = c
        BY <1>17 DEF HandleCommand, CommandCalls
    <2>2. c \in WifiVals
        BY <1>0, <1>17, MessageTypes DEF HandleCommand
    <2>. HIDE DEF c
    <2>3. /\ CommandCalls(c) # << >>
          /\ CommandCalls(c)[Len(CommandCalls(c))] = SendMotorMsgToQ2(c)
        <3>1. \/ CommandCalls(c) = <<SendMotorMsgToQ2(c)>>
              \/ \E type \in CloudTypes :
                    CommandCalls(c) = <<SendWIFIMsgToQ6(type), SendMotorMsgToQ2(c)>>
            BY <2>2, CommandCallsTyped
        <3>2. \A a, b : /\ <<a>> # << >> /\ <<a>>[Len(<<a>>)] = a
                        /\ <<a, b>> # << >> /\ <<a, b>>[Len(<<a, b>>)] = b
            OBVIOUS
        <3>. QED
            BY <3>1, <3>2
    <2>4. c = STOP => StopsNext'
        BY <1>11, <2>1, <2>3 DEF StopsNext
    <2>. QED
        BY <1>0, <1>11, <2>1, <2>4 DEF StopInv
<1>. SUFFICES ASSUME ~HandleCommand PROVE StopInv'
    BY <1>17
<1>18. Excused => Excused'
    BY ExcuseStays
<1>1. ASSUME UNCHANGED <<lastWifiVal, uart>>, queue'[2] = queue[2],
             todo'["t0"] = todo["t0"], todo'["t1"] = todo["t1"]
      PROVE  StopInv'
    BY <1>1, <1>18 DEF StopInv, StopsNext, Silent, Newest
<1>2. CASE SendStep("rx")
    <2>. DEFINE op == Head(todo["rx"])
    <2>1. op.to \in {3, 6}
        BY <1>0, <1>2, SendStepTyped, SendsOf
    <2>2. queue'[2] = queue[2]
        <3>1. \A m \in Queues \ {op.to} : queue'[m] = queue[m]
            BY <1>0, <1>2, WordSent
        <3>2. 2 \in Queues \ {op.to}
            BY <1>0, <2>1
        <3>. QED
            BY <3>1, <3>2, Zenon
    <2>3. todo'["t0"] = todo["t0"] /\ todo'["t1"] = todo["t1"]
        BY <1>0, <1>2, CallMade DEF SendStep
    <2>. QED
        BY <1>1, <1>2, <2>1, <2>2, <2>3 DEF SendStep, device, controller
<1>3. CASE SendStep("t0")
    <2>. DEFINE op == Head(todo["t0"])
    <2>1. /\ op.to \in {2, 6} /\ op \in CallsOf("t0")
        BY <1>0, <1>3, SendStepTyped, SendsOf DEF SendStep
    <2>2. /\ queue'[op.to] = Append(queue[op.to], op.word)
          /\ \A m \in Queues \ {op.to} : queue'[m] = queue[m]
        BY <1>0, <1>3, WordSent
    <2>3. todo["t0"] # << >> /\ todo'["t0"] = Tail(todo["t0"]) /\ todo'["t1"] = todo["t1"]
        BY <1>0, <1>3, CallMade DEF SendStep, Running
    <2>4. UNCHANGED <<lastWifiVal, uart>>
        BY <1>3 DEF SendStep, device, controller
    <2>5. CASE op.to = 6
        <3>1. queue'[2] = queue[2]
            BY <1>0, <2>2, <2>5
        <3>2. lastWifiVal = STOP => (StopsNext => StopsNext') /\ (Silent => Silent')
            BY <2>3, <2>5, ControllerCalls
        <3>. QED
            <4>1. Newest' = Newest /\ Len(todo'["t1"]) <= 1 /\ lastWifiVal' = lastWifiVal
                BY <1>0, <2>3, <2>4, <3>1 DEF Newest
            <4>. QED
                BY <1>18, <3>2, <4>1, Zenon DEF StopInv
    <2>6. CASE op.to = 2
        <3>1. todo["t0"] \in Seq(CallsOf("t0"))
            BY <1>0 DEF TodoType
        <3>2. ~Silent
            <4>1. 1 \in 1..Len(todo["t0"]) /\ todo["t0"][1].to = 2
                BY <2>3, <2>6, <3>1, TailOf
            <4>. QED
                BY <4>1 DEF Silent
        <3>3. CASE lastWifiVal # STOP
            BY <1>0, <2>3, <2>4, <3>3 DEF StopInv
        <3>4. CASE lastWifiVal = STOP /\ Tail(todo["t0"]) # << >>
            <4>1. StopsNext
                BY <3>2, <3>4 DEF StopInv
            <4>2. StopsNext'
                BY <2>3, <3>1, <3>4, <4>1, TailOf DEF StopsNext
            <4>. QED
                BY <1>0, <2>3, <4>2 DEF StopInv
        <3>5. CASE lastWifiVal = STOP /\ Tail(todo["t0"]) = << >>
            <4>1. StopsNext
                BY <3>2, <3>5 DEF StopInv
            <4>2. op = SendMotorMsgToQ2(STOP)
                BY <2>3, <3>1, <3>5, <4>1, TailOf DEF StopsNext
            <4>3. op.word.val = STOP
                <5>1. MotorWord(STOP).val = STOP
                    BY DEF MotorWord, Word
                <5>2. SendMotorMsgToQ2(STOP).word = MotorWord(STOP)
                    BY CallNames DEF SendMotorMsgToQ2
                <5>. QED
                    BY <4>2, <5>1, <5>2, Zenon
            <4>4. Silent'
                <5>1. todo'["t0"] = << >> /\ 1..Len(<< >>) = {}
                    BY <2>3, <3>5
                <5>. QED
                    BY <5>1 DEF Silent
            <4>5. queue[2] \in Seq(QueueWords(2)) /\ queue'[2] = Append(queue[2], op.word)
                  /\ op.word \in QueueWords(2)
                BY <1>0, <1>3, <2>2, <2>6, SendStepTyped DEF QueueType
            <4>. HIDE DEF op
            <4>6. queue'[2] # << >> /\ queue'[2][Len(queue'[2])] = op.word
                BY <4>5, AppendProperties
            <4>7. Newest' = STOP
                BY <4>3, <4>6 DEF Newest
            <4>. QED
                BY <1>0, <2>3, <4>4, <4>7 DEF StopInv
        <3>. QED
            BY <3>3, <3>4, <3>5
    <2>. QED
        BY <2>1, <2>5, <2>6
<1>4. CASE SendStep("t2")
    <2>. DEFINE op == Head(todo["t2"])
    <2>1. op.to \in {1, 2}
        BY <1>0, <1>4, SendStepTyped, SendsOf DEF SendStep
    <2>2. \A m \in Queues \ {op.to} : queue'[m] = queue[m]
        BY <1>0, <1>4, WordSent
    <2>3. todo'["t0"] = todo["t0"] /\ todo'["t1"] = todo["t1"]
        BY <1>0, <1>4, CallMade DEF SendStep
    <2>4. UNCHANGED <<lastWifiVal, uart>>
        BY <1>4 DEF SendStep, device, controller
    <2>5. CASE op.to = 1
        <3>1. queue'[2] = queue[2]
            BY <1>0, <2>2, <2>5
        <3>. QED
            BY <1>1, <2>3, <2>4, <3>1
    <2>6. CASE op.to = 2
        <3>1. op = todo["t2"][1] /\ 1 \in 1..Len(todo["t2"])
            <4>1. todo["t2"] # << >> /\ todo["t2"] \in Seq(CallsOf("t2"))
                BY <1>0, <1>4 DEF SendStep, Running, TodoType
            <4>. QED
                BY <4>1, TailOf
        <3>2. Excused
            BY <2>6, <3>1, BehindIsUnderWay DEF BypassInv, Excused
        <3>. QED
            BY <1>0, <1>18, <2>3, <2>4, <3>2 DEF StopInv, StopsNext, Silent
    <2>. QED
        BY <2>1, <2>5, <2>6
<1>5. CASE SpiOP("t0")
    <2>1. /\ todo["t0"] # << >> /\ todo'["t0"] = Tail(todo["t0"]) /\ todo'["t1"] = todo["t1"]
          /\ Head(todo["t0"]).call = "spiOP" /\ Head(todo["t0"]) \in CallsOf("t0")
        BY <1>0, <1>5, CallMade, CallDone DEF SpiOP, Running
    <2>2. Head(todo["t0"]).to # 2
        BY <2>1, CallNames DEF CallsOf, Sends
    <2>3. UNCHANGED <<lastWifiVal, uart, queue>>
        BY <1>5 DEF SpiOP, controller
    <2>4. lastWifiVal = STOP => (StopsNext => StopsNext') /\ (Silent => Silent')
        BY <2>1, <2>2, ControllerCalls
    <2>. QED
        BY <1>0, <1>18, <2>1, <2>3, <2>4 DEF StopInv, Newest
<1>6. CASE SpiOP("t2") \/ InitSpi \/ Uartinit0 \/ StartTimer \/ ErrorRoutine
    <2>1. /\ todo' = [todo EXCEPT !["t2"] = Tail(@)]
          /\ UNCHANGED <<lastWifiVal, uart, queue>>
        BY <1>6 DEF SpiOP, InitSpi, Uartinit0, StartTimer, ErrorRoutine, controller
    <2>2. todo'["t0"] = todo["t0"] /\ todo'["t1"] = todo["t1"]
        BY <1>0, <2>1, CallMade
    <2>. QED
        BY <1>1, <2>1, <2>2
<1>7. CASE Publish \/ PubAck \/ \E body \in Bodies : Receive(body)
    <2>1. queue' = queue /\ UNCHANGED <<uart, lastWifiVal>>
        BY <1>7 DEF Publish, PubAck, Receive, device, controller
    <2>2. todo' = todo \/ \E t \in {"rx", "mc"} : \E calls : todo' = [todo EXCEPT ![t] = calls]
        BY <1>7 DEF Publish, PubAck, Receive
    <2>3. todo'["t0"] = todo["t0"] /\ todo'["t1"] = todo["t1"]
        <3>1. ASSUME NEW t \in {"rx", "mc"}, NEW calls, todo' = [todo EXCEPT ![t] = calls]
              PROVE  todo'["t0"] = todo["t0"] /\ todo'["t1"] = todo["t1"]
            BY <1>0, <3>1, OneThread
        <3>. QED
            BY <2>2, <3>1
    <2>. QED
        BY <1>1, <2>1, <2>3
<1>8. CASE ThreadFxn2 \/ MqttClient
    <2>1. \E t \in {"t2", "mc"}, n \in {3, 6} : \E calls : Dequeue(t, n, calls)
        BY <1>8 DEF ThreadFxn2, MqttClient
    <2>2. queue'[2] = queue[2] /\ todo'["t0"] = todo["t0"] /\ todo'["t1"] = todo["t1"]
        <3>1. PICK t \in {"t2", "mc"}, n \in {3, 6} : \E calls : Dequeue(t, n, calls)
            BY <2>1
        <3>2. PICK calls : Dequeue(t, n, calls)
            BY <3>1
        <3>. QED
            BY <1>0, <3>2, Dequeued
    <2>3. UNCHANGED <<lastWifiVal, uart>>
        BY <1>8 DEF ThreadFxn2, MqttClient, device, controller
    <2>. QED
        BY <1>1, <2>2, <2>3
<1>9. CASE ThreadFxn1
    <2>. DEFINE w == Head(queue[2])
    <2>1. /\ Dequeue("t1", 2, <<Write(DequeueQ2(w, Unset).val)>>)
          /\ UNCHANGED <<lastWifiVal, uart>>
        BY <1>9 DEF ThreadFxn1, device, controller
    <2>2. /\ queue[2] # << >> /\ queue'[2] = Tail(queue[2]) /\ todo'["t0"] = todo["t0"]
          /\ todo'["t1"] = <<Write(DequeueQ2(w, Unset).val)>>
        BY <1>0, <2>1, Dequeued
    <2>3. DequeueQ2(w, Unset).val = w.val
        BY <1>0, <2>2, HeadTyped, WordsRead
    <2>4. todo'["t1"] # << >> /\ Head(todo'["t1"]).word.val = w.val /\ Len(todo'["t1"]) <= 1
        BY <2>2, <2>3, CallNames
    <2>5. queue[2] \in Seq(QueueWords(2))
        BY <1>0 DEF QueueType
    <2>6. Newest' = Newest
        BY <2>2, <2>4, <2>5, TailOf DEF Newest
    <2>. QED
        BY <1>18, <2>1, <2>2, <2>4, <2>6 DEF StopInv, StopsNext, Silent
<1>10. CASE UartWrite
    <2>1. /\ todo["t1"] # << >> /\ todo'["t1"] = Tail(todo["t1"]) /\ todo'["t0"] = todo["t0"]
          /\ uart' = Head(todo["t1"]).word.val /\ UNCHANGED <<lastWifiVal, queue>>
        BY <1>0, <1>10, CallMade DEF UartWrite, Running, controller
    <2>2. todo["t1"] \in Seq(CallsOf("t1"))
        BY <1>0 DEF TodoType
    <2>3. Len(Tail(todo["t1"])) = 0
        BY <1>0, <2>1, <2>2, TailOf
    <2>4. todo'["t1"] = << >> /\ Len(todo'["t1"]) <= 1
        <3>1. Tail(todo["t1"]) \in Seq(CallsOf("t1"))
            BY <2>1, <2>2, TailOf
        <3>2. \A r \in Seq(CallsOf("t1")) : Len(r) = 0 => r = << >>
            BY EmptySeq
        <3>3. todo'["t1"] = << >> /\ Len(todo'["t1"]) = 0
            BY <2>1, <2>3, <3>1, <3>2, Zenon
        <3>. QED
            BY <3>3
    <2>5. Newest' = Newest
        BY <2>1, <2>4 DEF Newest
    <2>. QED
        BY <1>18, <2>1, <2>4, <2>5 DEF StopInv, StopsNext, Silent
<1>12. CASE HandleTick
    <2>1. Dequeue("t0", 1, <<Call("spiOP")>>) /\ UNCHANGED <<lastWifiVal, uart>>
        BY <1>12 DEF HandleTick, device, controller
    <2>2. Silent'
        BY <1>11, <2>1, CallNames DEF Silent
    <2>. QED
        BY <1>0, <1>11, <1>18, <2>1, <2>2 DEF StopInv, Newest
<1>13. CASE HandleCount
    <2>1. Dequeue("t0", 1, CountCalls) /\ UNCHANGED <<lastWifiVal, uart>>
        BY <1>13 DEF HandleCount, CountCalls, device
    <2>2. lastWifiVal = STOP => CountCalls = << >>
        BY Joined DEF CountCalls, Moving, Settles
    <2>3. lastWifiVal = STOP => Silent'
        BY <1>11, <2>1, <2>2 DEF Silent
    <2>. QED
        BY <1>0, <1>11, <1>18, <2>1, <2>3 DEF StopInv, Newest
<1>15. CASE SpiTimer \/ StatsTimer \/ SpiDone
    <2>1. todo' = todo /\ UNCHANGED <<uart, lastWifiVal>>
        BY <1>15 DEF SpiTimer, StatsTimer, SpiDone, Interrupt, controller
    <2>2. queue'[2] = queue[2]
        BY <1>0, <1>15, WordFromInterrupt DEF SpiTimer, StatsTimer, SpiDone
    <2>. QED
        BY <1>1, <2>1, <2>2
<1>16. CASE UNCHANGED vars
    BY <1>1, <1>16 DEF vars, device, controller
<1>. QED
    BY <1>2, <1>3, <1>4, <1>5, <1>6, <1>7, <1>8, <1>9, <1>10, <1>12, <1>13, <1>15, <1>16
    DEF Next, Rx, T0, T1, T2, Mc, Halted

LEMMA StopInvariant == Spec => []StopInv
<1>1. Spec => []BypassInv
    BY PipeTypeInv, BypassInit, BypassStep, PTL DEF Spec
<1>. QED
    BY <1>1, PipeTypeInv, StopInit, StopStep, PTL DEF Spec

\* The last word that the motors get after a STOP is the one of the STOP: whatever the
\* controller or, for words given by number before it, threadFxn2 puts into queue 2, and
\* however late threadFxn1 writes it.
THEOREM StopComesLast == Spec => []StopIsLastWord
<1>1. PipeType /\ StopInv => StopIsLastWord
    BY DEF StopInv, StopIsLastWord, StopsNext, Newest, Waiting, Excused
<1>2. Spec => []StopInv
    BY StopInvariant
<1>. QED
    BY <1>1, <1>2, PipeTypeInv, PTL

-----------------------------------------------------------------------------
(***************************************************************************)
(* Queue 2 and the writer are another channel.                             *)
(***************************************************************************)

LEMMA ValuesChange ==
    ASSUME NEW q \in Seq(QueueWords(2))
    PROVE  /\ Values(q) \in Seq(MotorVals)
           /\ \A w \in QueueWords(2) : /\ w.val \in MotorVals
                                       /\ Values(Append(q, w)) = Append(Values(q), w.val)
           /\ q # << >> => Values(q) = <<Head(q).val>> \o Values(Tail(q))
<1>0. Values(<< >>) = << >>
    BY DEF Values
<1>1. \A w \in QueueWords(2) : w.val \in MotorVals
    BY WordsRead
<1>2. \A p \in Seq(QueueWords(2)) :
         /\ Values(p) \in Seq(MotorVals) /\ Len(Values(p)) = Len(p)
         /\ \A k \in 1..Len(p) : Values(p)[k] = p[k].val
    <2>1. SUFFICES ASSUME NEW p \in Seq(QueueWords(2))
                   PROVE  /\ Values(p) \in Seq(MotorVals) /\ Len(Values(p)) = Len(p)
                          /\ \A k \in 1..Len(p) : Values(p)[k] = p[k].val
        OBVIOUS
    <2>2. Len(p) \in Nat /\ \A k \in 1..Len(p) : p[k].val \in MotorVals
        BY <1>1, ElementOfSeq, LenProperties
    <2>3. Values(p) \in [1..Len(p) -> MotorVals]
        BY <2>2 DEF Values
    <2>. QED
        BY <2>2, <2>3 DEF Values
<1>3. ASSUME NEW w \in QueueWords(2) PROVE Values(Append(q, w)) = Append(Values(q), w.val)
    <2>. DEFINE L == Len(q)
                p == Append(q, w)
                r == Append(Values(q), w.val)
    <2>1. /\ p \in Seq(QueueWords(2)) /\ Len(p) = L + 1 /\ p[L + 1] = w /\ L \in Nat
          /\ \A k \in 1..L : p[k] = q[k]
        BY AppendProperties, LenProperties
    <2>2. /\ r \in Seq(MotorVals) /\ Len(r) = L + 1 /\ r[L + 1] = w.val
          /\ \A k \in 1..L : r[k] = Values(q)[k]
        BY <1>1, <1>2, AppendProperties
    <2>. HIDE DEF L, p, r
    <2>3. /\ Values(p) \in Seq(MotorVals) /\ Len(Values(p)) = L + 1
          /\ \A k \in 1..(L + 1) : Values(p)[k] = p[k].val
        BY <1>2, <2>1
    <2>4. \A k \in 1..(L + 1) : Values(p)[k] = r[k]
        <3>1. \A k \in 1..(L + 1) : k \in 1..L \/ k = L + 1
            BY <2>1
        <3>2. \A k \in 1..L : Values(q)[k] = q[k].val
            BY <1>2 DEF L
        <3>. QED
            BY <2>1, <2>2, <2>3, <3>1, <3>2
    <2>5. Values(p) = r
        BY <2>2, <2>3, <2>4, SeqEqual
    <2>. QED
        BY <2>5 DEF p, r
<1>4. ASSUME q # << >> PROVE Values(q) = <<Head(q).val>> \o Values(Tail(q))
    <2>. DEFINE L == Len(q)
                p == Tail(q)
                v == Head(q).val
                r == <<v>> \o Values(p)
    <2>1. /\ p \in Seq(QueueWords(2)) /\ Len(p) = L - 1 /\ L \in Nat \ {0} /\ Head(q) = q[1]
          /\ \A k \in 1..(L - 1) : p[k] = q[k + 1]
        BY <1>4, TailOf
    <2>2. v = q[1].val /\ v \in MotorVals
        BY <1>1, <2>1, ElementOfSeq
    <2>. HIDE DEF p, v
    <2>3. /\ Values(p) \in Seq(MotorVals) /\ Len(Values(p)) = L - 1
          /\ \A k \in 1..(L - 1) : Values(p)[k] = p[k].val
        BY <1>2, <2>1
    <2>. DEFINE s == Values(p)
    <2>. HIDE DEF s
    <2>4. /\ r \in Seq(MotorVals) /\ Len(r) = L
          /\ \A k \in 1..L : r[k] = IF k <= 1 THEN v ELSE s[k - 1]
        <3>1. <<v>> \in Seq(MotorVals) /\ Len(<<v>>) = 1 /\ <<v>>[1] = v
            BY <2>2
        <3>2. s \in Seq(MotorVals) /\ Len(s) = L - 1
            BY <2>3 DEF s
        <3>3. /\ <<v>> \o s \in Seq(MotorVals) /\ Len(<<v>> \o s) = 1 + (L - 1)
              /\ \A k \in 1..(1 + (L - 1)) :
                    (<<v>> \o s)[k] = IF k <= 1 THEN <<v>>[k] ELSE s[k - 1]
            BY <3>1, <3>2, ConcatProperties
        <3>4. 1 + (L - 1) = L /\ \A k \in 1..L : k <= 1 => k = 1
            BY <2>1
        <3>5. r = <<v>> \o s
            BY DEF s
        <3>. HIDE DEF r
        <3>. QED
            BY <3>1, <3>3, <3>4, <3>5
    <2>. HIDE DEF r, L
    <2>5. \A k \in 1..L : Values(q)[k] = r[k]
        <3>1. \A k \in 1..L : k = 1 \/ (~(k <= 1) /\ k - 1 \in 1..(L - 1) /\ (k - 1) + 1 = k)
            BY <2>1
        <3>2. \A k \in 1..L : Values(q)[k] = q[k].val
            BY <1>2 DEF L
        <3>3. \A k \in 1..(L - 1) : s[k] = q[k + 1].val
            BY <2>1, <2>3 DEF s
        <3>4. 1 \in 1..L /\ 1 <= 1
            BY <2>1
        <3>. QED
            BY <2>2, <2>4, <3>1, <3>2, <3>3, <3>4
    <2>6. Values(q) \in Seq(MotorVals) /\ Len(Values(q)) = L
        BY <1>2 DEF L
    <2>7. Values(q) = r
        BY <2>4, <2>5, <2>6, SeqEqual
    <2>. QED
        BY <2>7 DEF r, p, v
<1>. QED
    BY <1>1, <1>2, <1>3, <1>4

LEMMA DueChange ==
    ASSUME NEW a \in Seq(MotorVals), NEW b \in Seq(MotorVals), NEW c \in MotorVals
    PROVE  /\ a \o Append(b, c) = Append(a \o b, c)
           /\ << >> \o b = b
           /\ <<c>> \o b # << >> /\ Head(<<c>> \o b) = c /\ Tail(<<c>> \o b) = b
<1>1. <<c>> \in Seq(MotorVals)
    OBVIOUS
<1>2. a \o b \in Seq(MotorVals)
    BY ConcatProperties
<1>3. Append(b, c) = b \o <<c>> /\ Append(a \o b, c) = (a \o b) \o <<c>>
    BY <1>2, AppendIsConcat
<1>4. (a \o b) \o <<c>> = a \o (b \o <<c>>)
    BY <1>1, ConcatAssociative
<1>5. << >> \o b = b
    BY ConcatEmptySeq
<1>6. <<c>> \o b # << >> /\ Head(<<c>> \o b) = c /\ Tail(<<c>> \o b) = b
    BY FirstTaken
<1>. QED
    BY <1>3, <1>4, <1>5, <1>6

\* The writer has one word at most in its hands.
LEMMA InHand ==
    ASSUME PipeType, StopInv
    PROVE  /\ queue[2] \in Seq(QueueWords(2)) /\ OfT1 \in Seq(MotorVals)
           /\ todo["t1"] = << >> => OfT1 = << >>
           /\ todo["t1"] # << >> => /\ OfT1 = <<Head(todo["t1"]).word.val>>
                                    /\ Head(todo["t1"]).word.val \in MotorVals
                                    /\ Tail(todo["t1"]) = << >>
<1>1. queue[2] \in Seq(QueueWords(2)) /\ todo["t1"] \in Seq(CallsOf("t1")) /\ Len(todo["t1"]) <= 1
    BY DEF PipeType, DataType, QueueType, TodoType, Queues, Tasks, StopInv
<1>2. CASE todo["t1"] = << >>
    <2>1. OfT1 = << >>
        BY <1>2 DEF OfT1
    <2>. QED
        BY <1>1, <1>2, <2>1
<1>3. CASE todo["t1"] # << >>
    <2>. DEFINE op == Head(todo["t1"])
    <2>1. Len(todo["t1"]) = 1 /\ op = todo["t1"][1] /\ op \in CallsOf("t1")
          /\ Tail(todo["t1"]) \in Seq(CallsOf("t1")) /\ Len(Tail(todo["t1"])) = 0
        <3>1. /\ Len(todo["t1"]) \in Nat \ {0} /\ op = todo["t1"][1]
              /\ Tail(todo["t1"]) \in Seq(CallsOf("t1")) /\ Len(Tail(todo["t1"])) = Len(todo["t1"]) - 1
            BY <1>1, <1>3, TailOf
        <3>2. Len(todo["t1"]) = 1
            <4>1. \A n \in Nat \ {0} : n <= 1 => n = 1
                OBVIOUS
            <4>. QED
                BY <1>1, <3>1, <4>1, Zenon
        <3>. QED
            BY <1>1, <3>1, <3>2, ElementOfSeq
    <2>2. Tail(todo["t1"]) = << >>
        BY <2>1, EmptySeq
    <2>3. op.word.val \in MotorVals
        BY <2>1, CallNames DEF CallsOf
    <2>4. OfT1 = <<op.word.val>>
        BY <2>1 DEF OfT1
    <2>5. <<op.word.val>> \in Seq(MotorVals)
        BY <2>3
    <2>. QED
        BY <1>1, <1>3, <2>2, <2>3, <2>4, <2>5
<1>. QED
    BY <1>2, <1>3

\* A word joins the end, or the oldest one is written, or nothing changes: threadFxn1
\* takes a word without changing what is due.
LEMMA DueStep ==
    ASSUME PipeType, StopInv, [Next]_vars
    PROVE  \/ \E c \in MotorVals : MotorWordsDue' = Append(MotorWordsDue, c) /\ uart' = uart
           \/ MotorWordsDue # << >> /\ uart' = Head(MotorWordsDue) /\ MotorWordsDue' = Tail(MotorWordsDue)
           \/ MotorWordsDue' = MotorWordsDue /\ uart' = uart
<1>0. /\ QueueType /\ TodoType /\ Tasks = {"rx", "t0", "t1", "t2", "mc"} /\ Queues = {1, 2, 3, 6}
    BY DEF PipeType, DataType, Tasks, Queues
<1>. DEFINE q == queue[2]
            Goal == \/ \E c \in MotorVals : MotorWordsDue' = Append(MotorWordsDue, c) /\ uart' = uart
                    \/ /\ MotorWordsDue # << >> /\ uart' = Head(MotorWordsDue)
                       /\ MotorWordsDue' = Tail(MotorWordsDue)
                    \/ MotorWordsDue' = MotorWordsDue /\ uart' = uart
<1>a. q \in Seq(QueueWords(2)) /\ OfT1 \in Seq(MotorVals) /\ Values(q) \in Seq(MotorVals)
    BY InHand, ValuesChange
<1>1. ASSUME uart' = uart, queue'[2] = queue[2], todo'["t1"] = todo["t1"]
      PROVE  Goal
    BY <1>1 DEF MotorWordsDue, OfT1
<1>2. ASSUME NEW w \in QueueWords(2), queue'[2] = Append(q, w), uart' = uart,
             todo'["t1"] = todo["t1"]
      PROVE  Goal
    <2>1. OfT1' = OfT1 /\ Values(queue[2])' = Append(Values(q), w.val) /\ w.val \in MotorVals
        <3>1. OfT1' = OfT1 /\ Values(queue[2])' = Values(queue'[2])
            BY <1>2 DEF OfT1, Values
        <3>2. Values(Append(q, w)) = Append(Values(q), w.val) /\ w.val \in MotorVals
            BY <1>a, <1>2, ValuesChange
        <3>. QED
            BY <1>2, <3>1, <3>2
    <2>2. MotorWordsDue' = OfT1 \o Append(Values(q), w.val)
        BY <2>1 DEF MotorWordsDue
    <2>3. MotorWordsDue' = Append(OfT1 \o Values(q), w.val)
        BY <1>a, <2>1, <2>2, DueChange
    <2>. QED
        BY <1>2, <2>1, <2>3 DEF MotorWordsDue
<1>3. CASE ThreadFxn1
    <2>. DEFINE w == Head(queue[2])
    <2>1. Dequeue("t1", 2, <<Write(DequeueQ2(w, Unset).val)>>) /\ uart' = uart
        BY <1>3 DEF ThreadFxn1, device
    <2>2. /\ queue[2] # << >> /\ queue'[2] = Tail(queue[2]) /\ todo["t1"] = << >>
          /\ todo'["t1"] = <<Write(DequeueQ2(w, Unset).val)>>
        BY <1>0, <2>1, Dequeued
    <2>3. DequeueQ2(w, Unset).val = w.val
        BY <1>0, <2>2, HeadTyped, WordsRead
    <2>4. OfT1 = << >>
        BY <2>2, InHand
    <2>5. OfT1' = <<w.val>>
        <3>1. todo'["t1"] = <<Write(w.val)>> /\ Write(w.val).word.val = w.val
            BY <2>2, <2>3, CallNames
        <3>2. OfT1' = [k \in 1..Len(todo'["t1"]) |-> todo'["t1"][k].word.val]
            BY DEF OfT1
        <3>. QED
            BY <3>1, <3>2
    <2>6. Values(queue[2])' = Values(Tail(queue[2]))
        BY <2>2 DEF Values
    <2>7. Values(queue[2]) = <<w.val>> \o Values(Tail(queue[2]))
        BY <1>a, <2>2, ValuesChange
    <2>8. MotorWordsDue' = Values(queue[2])
        BY <2>5, <2>6, <2>7 DEF MotorWordsDue
    <2>9. MotorWordsDue = Values(queue[2])
        BY <1>a, <2>4, ConcatEmptySeq DEF MotorWordsDue
    <2>. QED
        BY <2>1, <2>8, <2>9
<1>4. CASE UartWrite
    <2>. DEFINE v == Head(todo["t1"]).word.val
    <2>1. todo["t1"] # << >> /\ todo'["t1"] = Tail(todo["t1"]) /\ uart' = v /\ queue' = queue
        BY <1>0, <1>4, CallMade DEF UartWrite, Running
    <2>2. OfT1 = <<v>> /\ v \in MotorVals /\ Tail(todo["t1"]) = << >>
        BY <2>1, InHand
    <2>3. OfT1' = << >>
        BY <2>1, <2>2 DEF OfT1
    <2>. HIDE DEF v
    <2>4. MotorWordsDue = <<v>> \o Values(q) /\ MotorWordsDue' = << >> \o Values(q)
        BY <2>1, <2>2, <2>3 DEF MotorWordsDue
    <2>5. /\ << >> \o Values(q) = Values(q) /\ <<v>> \o Values(q) # << >>
          /\ Head(<<v>> \o Values(q)) = v /\ Tail(<<v>> \o Values(q)) = Values(q)
        BY <1>a, <2>2, DueChange
    <2>. QED
        BY <2>1, <2>4, <2>5
<1>5. CASE SendStep("rx") \/ SendStep("t0") \/ SendStep("t2")
    <2>1. PICK t \in {"rx", "t0", "t2"} : SendStep(t)
        BY <1>5
    <2>. DEFINE op == Head(todo[t])
    <2>2. op.to \in Queues /\ op.word \in QueueWords(op.to)
        BY <1>0, <2>1, SendStepTyped
    <2>3. /\ queue'[op.to] = Append(queue[op.to], op.word)
          /\ \A m \in Queues \ {op.to} : queue'[m] = queue[m]
        BY <1>0, <2>1, WordSent
    <2>4. todo'["t1"] = todo["t1"] /\ uart' = uart
        BY <1>0, <2>1, CallMade DEF SendStep, device
    <2>. HIDE DEF op
    <2>5. CASE op.to = 2
        BY <1>2, <2>2, <2>3, <2>4, <2>5
    <2>6. CASE op.to # 2
        BY <1>0, <1>1, <2>3, <2>4, <2>6
    <2>. QED
        BY <2>5, <2>6
<1>6. CASE \/ SpiOP("t0") \/ SpiOP("t2") \/ InitSpi \/ Uartinit0 \/ StartTimer \/ ErrorRoutine
           \/ Publish \/ PubAck \/ \E body \in Bodies : Receive(body)
    <2>1. queue' = queue /\ uart' = uart
        BY <1>6 DEF SpiOP, InitSpi, Uartinit0, StartTimer, ErrorRoutine, Publish, PubAck, Receive, device
    <2>2. todo' = todo \/ \E t \in Tasks \ {"t1"} : \E calls : todo' = [todo EXCEPT ![t] = calls]
        BY <1>0, <1>6 DEF SpiOP, InitSpi, Uartinit0, StartTimer, ErrorRoutine, Publish, PubAck, Receive
    <2>3. todo'["t1"] = todo["t1"]
        <3>1. ASSUME NEW t \in Tasks \ {"t1"}, NEW calls, todo' = [todo EXCEPT ![t] = calls]
              PROVE  todo'["t1"] = todo["t1"]
            BY <1>0, <3>1, OneThread
        <3>. QED
            BY <2>2, <3>1
    <2>. QED
        BY <1>1, <2>1, <2>3
<1>7. CASE ThreadFxn2 \/ MqttClient \/ HandleTick \/ HandleCount \/ HandleCommand
    <2>1. PICK t \in {"t0", "t2", "mc"}, n \in {1, 3, 6} : \E calls : Dequeue(t, n, calls)
        BY <1>7 DEF ThreadFxn2, MqttClient, HandleTick, HandleCount, HandleCommand
    <2>2. PICK calls : Dequeue(t, n, calls)
        BY <2>1
    <2>3. queue'[2] = queue[2] /\ todo'["t1"] = todo["t1"]
        BY <1>0, <2>2, Dequeued
    <2>4. uart' = uart
        BY <1>7 DEF ThreadFxn2, MqttClient, HandleTick, HandleCount, HandleCommand, device
    <2>. QED
        BY <1>1, <2>3, <2>4
<1>8. CASE SpiTimer \/ StatsTimer \/ SpiDone
    <2>1. todo' = todo /\ uart' = uart
        BY <1>8 DEF SpiTimer, StatsTimer, SpiDone, Interrupt
    <2>2. queue'[2] = queue[2]
        BY <1>0, <1>8, WordFromInterrupt DEF SpiTimer, StatsTimer, SpiDone
    <2>. QED
        BY <1>1, <2>1, <2>2
<1>9. CASE UNCHANGED vars
    BY <1>1, <1>9 DEF vars, device
<1>. QED
    BY <1>3, <1>4, <1>5, <1>6, <1>7, <1>8, <1>9 DEF Next, Rx, T0, T1, T2, Mc, Halted

LEMMA MotorWordsImplement == Spec => MotorChannel!ChannelSpec
<1>1. Init => MotorChannel!ChannelInit
    <2>. SUFFICES ASSUME Init PROVE MotorWordsDue = << >> /\ uart = "none"
        BY DEF MotorChannel!ChannelInit
    <2>1. todo["t1"] = << >> /\ queue[2] = << >> /\ uart = "none"
        BY DEF Init, Tasks
    <2>2. OfT1 = << >> /\ Values(queue[2]) = << >>
        BY <2>1 DEF OfT1, Values
    <2>3. << >> \o << >> = << >>
        BY Joined
    <2>. QED
        BY <2>1, <2>2, <2>3 DEF MotorWordsDue
<1>2. PipeType /\ StopInv /\ [Next]_vars
        => [MotorChannel!ChannelNext]_(MotorChannel!channelVars)
    <2>. SUFFICES ASSUME PipeType, StopInv, [Next]_vars
                  PROVE  [MotorChannel!ChannelNext]_(MotorChannel!channelVars)
        OBVIOUS
    <2>1. \/ \E c \in MotorVals : MotorWordsDue' = Append(MotorWordsDue, c) /\ uart' = uart
          \/ MotorWordsDue # << >> /\ uart' = Head(MotorWordsDue) /\ MotorWordsDue' = Tail(MotorWordsDue)
          \/ MotorWordsDue' = MotorWordsDue /\ uart' = uart
        BY DueStep
    <2>. QED
        BY <2>1 DEF MotorVals, MotorChannel!ChannelNext, MotorChannel!Accept,
                    MotorChannel!Deliver, MotorChannel!channelVars
<1>3. Spec => []StopInv
    BY StopInvariant
<1>. QED
    BY <1>1, <1>2, <1>3, PipeTypeInv, PTL DEF Spec, MotorChannel!ChannelSpec

\* Between the callback and the controller there is one channel that neither loses, nor
\* doubles, nor reorders a direction command: the interrupts that lose their own words in a
\* full queue 1, and the threads that wait for room in it, never touch a command's place.
\* Between the two threads that send motor words and the UART there is another one.
THEOREM ChannelImplemented == Spec => ImplementsChannel
BY CommandsImplement, MotorWordsImplement DEF ImplementsChannel

-----------------------------------------------------------------------------
(***************************************************************************)
(* What the receivers switch on, and what the threads wait for.            *)
(***************************************************************************)

LEMMA TagsSet ==
    ASSUME QueueType
    PROVE  TagsKnown
<1>1. ASSUME NEW n \in Queues, NEW k \in 1..Len(queue[n]) PROVE queue[n][k] \in QueueWords(n)
    BY ElementOfSeq DEF QueueType
<1>2. \A w \in QueueWords(1) : DequeueQ1(w, Unset1).type # Unset1.type
    BY DEF QueueWords, SPIWord, TimeWord, WIFIWord, Word, DequeueQ1, Unset1,
           Q1_TYPE_SPI, Q1_TYPE_TIME, Q1_TYPE_WIFI
<1>3. \A w \in QueueWords(2) : DequeueQ2(w, Unset).type # Unset.type
    BY DEF QueueWords, MotorWord, Word, DequeueQ2, Unset
<1>4. \A w \in QueueWords(3) : DequeueQ3(w, Unset).type # Unset.type
    BY WordsRead DEF Unset
<1>5. \A w \in QueueWords(6) : DequeueQ6(w, Unset).type # Unset.type
    BY WordsRead DEF CloudTypes, Unset
<1>. QED
    BY <1>1, <1>2, <1>3, <1>4, <1>5 DEF TagsKnown, Queues

\* No receiver ever finds a word that it does not know, and so none acts twice on one
\* message: what any thread or interrupt puts into a queue, the thread at its other end
\* switches on.
THEOREM ReceiversKnowTags == Spec => []TagsKnown
<1>1. PipeType => TagsKnown
    BY TagsSet DEF PipeType, DataType
<1>. QED
    BY <1>1, PipeTypeInv, PTL

LEMMA FirstCall ==
    ASSUME TodoType, NEW t \in Tasks, todo[t] # << >>
    PROVE  Head(todo[t]) \in CallsOf(t)
<1>1. todo[t] \in Seq(CallsOf(t))
    BY DEF TodoType
<1>. QED
    BY <1>1, HeadTailProperties

\* What a thread waits for that is held in a call: the queues of its sends are full.
LEMMA HeldInCall ==
    ASSUME PipeType, bus = "free", NEW t \in Tasks, todo[t] # << >>, Held(t)
    PROVE  /\ t # "t1"
           /\ t = "mc" => awaitingAck
           /\ t = "t2" => ~HasRoom(queue[1]) \/ ~HasRoom(queue[2])
           /\ t = "t0" => ~HasRoom(queue[2]) \/ ~HasRoom(queue[6])
           /\ t = "rx" => ~HasRoom(queue[3]) \/ ~HasRoom(queue[6])
<1>. DEFINE op == Head(todo[t])
<1>1. op \in CallsOf(t)
    BY FirstCall DEF PipeType, DataType
<1>2. Blocks(op)
    BY DEF Held
<1>. HIDE DEF op
<1>3. \A c : op = Call(c) => op.call = c
    BY CallNames
<1>4. \A w : op = Write(w) => op.call = "UART_write"
    BY CallNames
<1>5. \A n : op \in Sends(n, QueueWords(n)) => op.call = "send" /\ op.to = n
    BY CallNames DEF Sends
<1>6. \A n : op \in Sends(n, QueueWords(n)) => ~HasRoom(queue[n])
    BY <1>2, <1>5 DEF Blocks
<1>7. CASE t = "rx"
    BY <1>1, <1>6, <1>7 DEF CallsOf
<1>8. CASE t = "t0"
    <2>1. op # Call("spiOP")
        BY <1>2, <1>3 DEF Blocks
    <2>. QED
        BY <1>1, <1>6, <1>8, <2>1 DEF CallsOf
<1>9. t # "t1"
    <2>1. \A w : op # Write(w)
        BY <1>2, <1>4 DEF Blocks
    <2>. QED
        BY <1>1, <2>1 DEF CallsOf
<1>10. CASE t = "t2"
    <2>1. op \notin {Call("initSpi"), Call("Uartinit0"), Call("timer"), Call("spiOP"), Call("errorRoutine")}
        BY <1>2, <1>3 DEF Blocks
    <2>. QED
        BY <1>1, <1>6, <1>10, <2>1 DEF CallsOf
<1>11. CASE t = "mc"
    <2>1. op.call = "publish"
        BY <1>1, <1>3, <1>11 DEF CallsOf
    <2>. QED
        BY <1>2, <1>11, <2>1 DEF Blocks
<1>. QED
    BY <1>7, <1>8, <1>9, <1>10, <1>11 DEF Tasks

\* A full queue is not empty: its receiver is in a handler.
LEMMA FullInbox ==
    ASSUME NEW t \in {"t0", "t1", "t2", "mc"}, Held(t), ~HasRoom(queue[Inbox[t]])
    PROVE  todo[t] # << >>
<1>1. HasRoom(<< >>)
    BY QueueSizeAssumption DEF HasRoom
<1>2. t # "rx"
    OBVIOUS
<1>. QED
    BY <1>1, <1>2 DEF Held

\* Whoever waits, waits for the publisher: follow the full queues from thread to thread.
LEMMA RingOfPublisher ==
    ASSUME PipeType, Standstill
    PROVE  awaitingAck /\ Running("rx") /\ ~HasRoom(queue[6])
<1>1. bus = "free" /\ ~halted /\ \A t \in Tasks : Held(t)
    BY DEF PipeType, DataType, ScalarType, Standstill
<1>2. /\ Inbox["t0"] = 1 /\ Inbox["t1"] = 2 /\ Inbox["t2"] = 3 /\ Inbox["mc"] = 6
      /\ {"t0", "t1", "t2", "mc"} \subseteq Tasks /\ "rx" \in Tasks
    BY DEF Inbox, Tasks
<1>3. HasRoom(queue[2])
    <2>1. todo["t1"] = << >>
        BY <1>1, <1>2, HeldInCall
    <2>. QED
        BY <1>1, <1>2, <2>1, FullInbox
<1>4. todo["t0"] # << >> => ~HasRoom(queue[6])
    BY <1>1, <1>2, <1>3, HeldInCall
<1>5. todo["t2"] # << >> => ~HasRoom(queue[6])
    <2>1. todo["t2"] # << >> => ~HasRoom(queue[1])
        BY <1>1, <1>2, <1>3, HeldInCall
    <2>2. ~HasRoom(queue[1]) => todo["t0"] # << >>
        BY <1>1, <1>2, FullInbox
    <2>. QED
        BY <1>4, <2>1, <2>2
<1>6. todo["rx"] # << >> => ~HasRoom(queue[6])
    <2>1. todo["rx"] # << >> => ~HasRoom(queue[3]) \/ ~HasRoom(queue[6])
        BY <1>1, <1>2, HeldInCall
    <2>2. ~HasRoom(queue[3]) => todo["t2"] # << >>
        BY <1>1, <1>2, FullInbox
    <2>. QED
        BY <1>5, <2>1, <2>2
<1>7. ~HasRoom(queue[6]) => todo["mc"] # << >>
    BY <1>1, <1>2, FullInbox
<1>8. todo["mc"] # << >> => awaitingAck
    BY <1>1, <1>2, HeldInCall
<1>9. awaitingAck
    <2>1. PICK t \in Tasks : todo[t] # << >>
        BY DEF Standstill, Running
    <2>2. t # "t1"
        BY <1>1, <2>1, HeldInCall
    <2>. QED
        BY <1>4, <1>5, <1>6, <1>7, <1>8, <2>1, <2>2 DEF Tasks
<1>10. todo["rx"] # << >>
    BY <1>1, <1>2, <1>9 DEF Held
<1>. QED
    BY <1>1, <1>6, <1>9, <1>10 DEF Running

\* For any size of the queues: the threads come to a standstill only in the ring of the
\* publisher, the acknowledgement, the callback and queue 6.  A standstill without the
\* broker's part in it is not possible.
THEOREM StandstillNeedsPublisher == Spec => []OnlyPublisherBlocks
<1>1. PipeType => OnlyPublisherBlocks
    BY RingOfPublisher DEF OnlyPublisherBlocks
<1>. QED
    BY <1>1, PipeTypeInv, PTL
=============================================================================
