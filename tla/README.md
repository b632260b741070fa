# A verification development of the package rover

The rover is a three-wheeled vehicle run by one CC3220SF board under FreeRTOS. It
takes commands from an MQTT broker ("go f", "stop", "go b", "spinl", ...), drives
three motors over a UART, reads three encoders over SPI and tells two robot arms and
an ultrasonic sensor through the broker what it is doing. This directory holds TLA+
modules of its threads, queues and drivers, TLC configurations that check them on
small instances, and proofs checked by TLAPS.

## 1. Inventory

    broker -> rx -> Q3 -> t2 -> Q1 -> t0 -> Q2 -> t1 -> UART -> motors
              rx -> Q6 -> mc -> broker
              t0 -> Q6            t2 -> Q2 (speeds by number), t2 -> SPI
    main -> WLAN -> mc (opens the session, starts rx) -> broker
    timer_spi -> Q1    SPI interrupt -> Q1    timer_stats -> Q6

| Component | Source | State | Operations | What makes it correct |
|---|---|---|---|---|
| Message queues | `custom_queue.c` | six FreeRTOS queues of ten 64-bit words, 1, 2, 3 and 6 in use | a sender and a receiver per kind of word; a task waits for room, an interrupt drops | no word beyond the size, order kept, no command lost |
| Encoder SPI bus | `encoder_spi.c` | semaphore, one transaction record, buffers, three chip-select lines | `initSpi`, `spiOP`, `slaveCallback` | one chip at a time, an untouched transaction, every call served, each read answered once |
| Controller, `threadFxn0` | `adcsinglechannel.c:1007`, `speedmath.c` | last command, turn counters, settle counter, arm handshake, PID state of three wheels | one handler per kind of word of queue 1 | STOP stops, arms called once per leg, a leg starts clean |
| Motor writer, `threadFxn1` | `adcsinglechannel.c:1316`, `motor_uart.c` | the word being written | unpack, three frames of four bytes | wheels do what the words say, in order |
| Dispatcher, `threadFxn2` | `adcsinglechannel.c:1337` | none between messages | boot, then one branch per type of queue 3 | commands passed on in order |
| Receive callback | `client_cbs.c` | none between events | `MqttClientCallback` | does not stop the MQTT library |
| Publisher, `MqttClient` | `adcsinglechannel.c:344` | message counters, `gUiConnFlag` | one branch per type of queue 6 | queue 6 is emptied, every request and every message is counted once, missed ones within bounds |
| MQTT lifecycle | `adcsinglechannel.c:604-816` | `gMqttClient`, `gUiConnFlag`, `gResetApplication` | start, connect, subscribe, loss (the stop functions have no caller) | connection flags tell the truth, no session without a WLAN |
| Network interface | `network_if.c` | `g_ulStatus`, SSID, address | init, connect, disconnect, event handlers | status bits follow the events although two threads write them; no wait without an end; the access point reported is the one asked for |
| JSON parser | `jsonParser.c`, `jsmn.h` (vendored) | token array, local buffers | `jsmn_parse`, `jsonParser_MQTT` | brackets match, each field ends up in its buffer with nothing added |
| Timers | `timer_spi.c`, `timer_stats.c`, `timer_pub.c` (never started) | a timer handle | start, callback | - |
| Error routine | `debug.c` | debug pins | `errorRoutine` stops scheduler and interrupts | - |
| Terminal | `uart_term.c` | UART handle | formatted output, line input | - |
| Start-up | `main_freertos.c`, `mainThread` | thread handles | creates queues, drivers, threads | everything exists before it is used |

Not part of the rover's logic: `Debug/`, the generated board files, and `embed.php`, a
WordPress plugin that happens to be in the repository.

What is hard here: three consumers of equal priority and two of a higher one that
hand messages on through bounded queues and block on full ones; interrupts that drop
on full queues; one SPI transaction record shared by two threads and an interrupt; a
semaphore taken by threads and posted by the interrupt; two rotating counters that
must stay in step without ever being compared; control state (`enable_counter`,
`stop_counter`, integrals, last counts) carried from one command to the next; a
blocking publish whose answer is read by the task that may itself be blocked; a status
word that event handlers and the connecting thread both read, change and write; access
points and sessions that answer late or go away; buffers on the stack that no call
clears.
`PROJECT.json` lists each of these hazards at its line.

## 2. Modules

| Module | What it is |
|---|---|
| `CustomQueue` | the words, senders and receivers of the queues; `SendFromISR` and `HasRoom` for the two ways to send |
| `SpiPort` | abstract: a port that serves one exchange at a time and answers each read once |
| `SpiBus` | `encoder_spi.c`: the two callers and the interrupt, one step per statement that touches shared state |
| `MotionControl` | `threadFxn0`: one action per handler |
| `SensorLoop` | ticks, reads, counts and turns around queue 1 |
| `MotorBank` | abstract: three motors that carry out the controller's words in order |
| `MotorUart`, `MotorDriver` | packing, frames, and the bytes on the line up to the motor controllers |
| `CommandChannel` | abstract: accepted commands are delivered once and in order; what lies between the callback and the controller, and between the senders of motor words and the UART |
| `NetworkIf` | `network_if.c`: mainThread, the SimpleLink handlers and the network processor |
| `CloudLink` | extends `NetworkIf`: mainThread to its end, `MqttClient_start`, the loop on queue 6 with its counters, the receive thread, the broker and the other teams |
| `Nesting` | abstract: brackets are closed in the order in which a stack would have them |
| `Jsmn` | `jsmn.h`: a message lexeme by lexeme, the token array, `toksuper` |
| `MessageDecode` | extends `Jsmn`: `jsonParser_MQTT` and what the callback makes of its buffers |
| `RoverPipeline` | all threads and interrupts with queues 1, 2, 3 and 6 between them |
| `Selection` | what a sequence becomes when some of its members are left out and the others turned into something else; written with sets, so that it can be reasoned about |
| `SelectionProofs` | lemmas on `Selection` and on sequences after each other |
| `SpiBusProofs`, `MotionControlProofs`, `SensorLoopProofs`, `MotorDriverProofs`, `RoverPipelineProofs`, `CloudLinkProofs`, `MessageDecodeProofs` | theorems about the module they are named after, and about `NetworkIf` and `Jsmn`, which the last two extend |
| `MCSpiBus`, `MCMotionControl`, `MCRoverPipeline`, `MCCloudLink`, `MCMessageDecode` | instances and bounds for TLC |

`CustomQueue` is extended by `SpiBus`, `SensorLoop`, `RoverPipeline`, `CloudLink` and
`MessageDecode`, `Selection` by `RoverPipeline` and `Jsmn`, and `SelectionProofs` by
`SensorLoopProofs`, `RoverPipelineProofs` and `MessageDecodeProofs`. The pipeline
takes each component at the level of detail that interaction needs: a bus that is
free or reading (what `SpiBus` shows it is, through `SpiPort`), a motor word written
in one step (`MotorDriver` shows how), the controller without its arithmetic
(`MotionControl` has it), and the bodies of messages already told apart (`MessageDecode`
does that). `CloudLink` is the time before: it has the threads' start and the connection,
and of the controller only that it has something published.

### Correspondences worth knowing

* A word of a queue is `[tag, val]`: the tag is the hexadecimal digit that the code
  repeats eight times in the upper half. The senders pass the address of a local
  variable as the timeout of `xQueueSendToBack`. As a number of ticks it is weeks to
  years, so a task that sends simply waits. The value `"none"` stands for contents
  that the module leaves out.
* In `SpiBus`, `pc` is where a thread is in `initSpi` or `spiOP`; the callback is one
  step because it is an interrupt handler. The bytes of a count are abstracted: a count
  *is* the number of its encoder. `SPI_transfer` fails while the driver is busy, and the
  caller then spins for ever (`"halted"`); that this cannot happen is a result. A driver
  that cannot be opened leaves `initSpi` spinning, too (`Spin`), before there is a timer.
* In `SensorLoop` a count is given to a wheel only while `lastWifiVal` is not STOP
  (`adcsinglechannel.c:1080`); at rest it only takes its turn. The four commands that move the
  rover are one, `MOVE`.
* `MotionControl` computes the PID in thousandths. The factors 0.07, 0.005 and 0.05
  have no exact double, so where the exact sum is a whole number the truncated result
  may be one short: `ControlVar` is the set of both. Counts are unbounded integers;
  the wrap of the 32-bit counter is not modelled. The three copies of the code for the
  three wheels are one action with the wheel as an index; the differences between the
  copies (wheel 2 alone is reported to queue 6; FORWARD regulates wheel 3 from 187 while
  it commands 190) are kept.
* In `RoverPipeline`, a thread takes a message and then has the blocking calls of its
  handler in `todo`, in the order of the source, each a step. Local state changes with
  the message: no other thread reads it. `MQTTClient_publish` is two steps, because the
  library is created with `blockingSend = true` (`adcsinglechannel.c:677`): it waits for
  the acknowledgement, which the receive task reads, and the receive task reads nothing
  while it is in the callback. The library itself is not in the repository, so this is
  an external assumption, and the one that the deadlock rests on. The boot of threadFxn2 is
  `initSpi`, `Uartinit0` and the timer, in this order; the exchanges of `initSpi` are one, of
  which the last keeps the bus until its interrupt. `rawSince` notes that a word given by
  number was received after the last STOP.
* In `NetworkIf` an event handler is one step, because the SimpleLink task that runs it has
  the highest priority. `CLR_STATUS_BIT` in mainThread, which has the lowest, is two: the
  read of the word (`LoadStatus`) and the write (`StoreStatus`). The test of both bits
  in the wait loops is one step although it is two reads. Only handlers run between them,
  and a handler sets the address bit only while the connection bit is set and clears it with
  it, so the two reads give what one of the two moments would have given. Of the status bits only the three that live
  code changes are kept; AP names are short enough for the 32 bytes of
  `SSID_Remote_Name`.
* Attempt 0 is the network processor's own. The comment at `network_if.c:440` says that
  stored profiles are cleaned, but `Network_IF_InitDriver` only calls `sl_Start`. So the
  processor may already be connecting, and `Network_IF_DisconnectFromAP` may or may not find a
  link. It does nothing while there is no connection bit: an access point given up
  a moment before it answers is not left. `late` records that, and `ConnectedAsAsked` says
  that it is the only way to be told "connected" by the wrong one. P2P mode counts as a role
  other than STA. The processor does not look for an access point again by itself after a
  link broke.
* In `CloudLink` the session of the MQTT library may be lost at any time. The library tells
  the callback, `MQTTClient_run` returns, the receive thread leaves a greeting in queue 6 and
  ends; nobody reads `gResetApplication`, and nothing connects again. `MqttClient_start`
  hands the receive thread the address of a number instead of the client; the library, which
  has one client only, is taken to work on that one. `CLEAN_SESSION` is true, so the broker
  never has a stored session. The timer of the statistics is started before the network.
  `count` numbers requests, words of queue 6, and not calls of `MQTTClient_publish`: types 6
  and 7 publish two messages under one number, type 1, which reports the number as
  `Pub_Attempts`, takes none, and type 5 takes one that its message does not carry.
  `numbers` keeps what each topic was told as MSGID.
* In `Jsmn`, positions are numbers of lexemes. `toksuper` 0 stands for -1. A failed
  `jsmn_parse` leaves the tokens, and nobody looks at them.
* In `MessageDecode` a text is a sequence of characters, and the name of a field counts as
  one. `tempValue` is an array on the stack without initial value: it starts as any
  `Garbage`, which need hold no NUL, and before the next message it is what it was or
  `Garbage` again. A copy that is longer than the array, or that finds no NUL in it, runs past
  the array or the buffer (`RunPast`); what the program does then is undefined, `pc` is
  `"undefined"`, and the module says no more of that run. Reading a token that jsmn has not
  filled gives any text of `Stray`, or is undefined as well; and since the other three arrays are left
  out, so is a field of another name, at any time. Left out are per cent signs
  (the payload is used as a format) and NULs in a message, and a sign or a space before a
  number.
* The variables marked *history* are read by no action; they let an invariant speak of
  the past.
* A definition `X_Something` marked *Fault* is a plausible bug in `X`. The
  specification does not use it; it documents which mistake each property notices.

## 3. Runs

| Run | Instance | What it shows |
|---|---|---|
| `spi_bus` | threads 0 and 2, queue of 2 | at most one chip selected; the transaction record and the chip of a running transfer are untouched; no transfer refused; the token of the semaphore is never lost; every call is served; the bus implements `SpiPort` |
| `motion_control` | first 9 messages, counts {0, 348} | a stopped rover stays stopped; the arm at the end of each leg is called exactly once; a leg that starts at rest keeps two speeds, the commanded one until its first count and then the one that the regulator starts from; the PID uses only counts of its own leg; a spin from rest keeps its commanded speeds, whatever results the leg before still owes |
| `motion_pid` | 6 messages | **violation**: corrections are not sent to the motors |
| `sensor_turns` | queue of 3, all spi commands | each wheel of a moving rover gets its own counts unless a count was dropped or a spi command came in |
| `sensor_shift` | queue of 3, `spi1` | **violation**: after a spi command wheels of a moving rover get each other's counts |
| `motor_driver` | bytes {0, 127, 128, 255} for each wheel, UART buffer of 2 | UART frames implement `MotorBank`, no frame is discarded |
| `pipeline` | queues of 1, six kinds of body, 2 messages, timers unbounded | no queue beyond its size; the UART is open before it is written, although another thread opens it; every word has a tag that its receiver switches on; threads come to a standstill only in the ring of the publisher |
| `pipeline_order` | queues of 2, forward/stop/raw, 2 messages, 3 timer interrupts | the last word of a handled STOP is rest, whatever PID results and words given by number were on their way before it; commands are a FIFO channel from callback to controller, motor words one from their two senders to the UART |
| `pipeline_served` | queues of 5, forward/stop, 2 messages, 2 timer interrupts, fairness | every accepted STOP becomes the word on the motor UART as long as queue 6 cannot fill up |
| `cloud_link` | queue of 2, two teams, one retry, one lost link, waits of one second, 4 things happening to messages | the two status bits mean an address on a link that is up; "connected" comes from the access point asked for, or late from one given up; no wait of the start-up is endless; the flag tells of the session; no session without a WLAN; each request takes one number, each message is counted once, and no topic is told a number twice; `missed_MSG` within its bounds |
| `message_decode` | two messages, 5 tokens, arrays of 10, one slip | jsmn implements `Nesting` and counts fields right; the number and the command of a message are the ones that were sent; no command comes out of a message that does not spell it; a speed that does not fit its byte disturbs no other; every name of a flat message has its value |
| `pipeline_stop` | queues of 1, 2 messages, fairness | **violation**: an accepted STOP may never reach the motors |

**Bounds.** Nine messages are two legs with their stops and the three settling counts,
or one leg with counts enough for the settle counter to run out and errors to
accumulate past the clamp. Two counts, 0 and 348, give differences of zero and of full
speed in either direction. A queue of one word makes every send wait and every
interrupt drop; a queue of two has an order that can go wrong. The motor bytes are the
ends of the range and the two values of rest; all 64 words they make are sent after
each other in every order. The five words per queue of `pipeline_served` are the most that its two messages
and two interrupts can put into queue 6. The timers of `pipeline_order` and
`pipeline_served` stop after `MaxExpired` interrupts, so these two runs do not check for
deadlock; the others do, and where a bound ends a run there is an explicit step that does nothing (`Done`), as there is one
for the rover that `errorRoutine` has stopped (`Halted`).

In `cloud_link`, a second of waiting is enough for each wait loop to see its time run out
before, with and after the events; one retry gives an attempt that is given up and one that
is asked for, one lost link a disconnect that nobody asked for, at every place; a wait's
length changes only how often the same test is made. `StationEvent` is bounded by two
pending events, enough to leave any set of bits behind before the mode is switched. Four
things that happen to messages are enough for a loss, a repetition, a restart and a change of
team, in every order of a pair of them with a delivery before and after. Sending to queue 6
is explored behind the smooth start-ups only (`MCCloudLink`). In
`message_decode`, two messages are enough for one to leave an array behind and one to find
it; five tokens hold an object with two fields and overflow with a third; the texts are
such that one is a beginning of another ("spin", "spinl"; "1", "57"), the arrays start with a
command or without any NUL, one text is as long as an array, and a slip can put any
lexeme in any place, leave one out or end the message. Both runs end: the rover of `cloud_link`
may wait for its user, hang or have lost its broker for good, and the second run stops after
its messages, so neither checks for deadlock. A repetition brings back any earlier number of
its team. One of the bounds of `MissedCountBounds` is not reached with four events: that a
repetition can count twice takes five (two minutes of TLC). `MissedBounded` proves all of
them for every number of events.

**Fairness.** `SpiBus` assumes weak fairness for the interrupt and the steps of each
thread: the priority-1 threads share the processor by time slices (so the endless loop
of `mainThread` cannot starve them), and the transfer interrupt comes. It assumes strong fairness
for `sem_wait`: a waiter is in FreeRTOS's list, and other callers come back only with the next
tick or command. Without strong fairness the model could hand the semaphore to the same
thread for ever. `RoverPipeline` assumes weak fairness for each thread, for the broker's
acknowledgements and for the end of an SPI read, and strong fairness for a thread that
waits for room in a queue or for the bus: the waiting thread is in a list, and the timers
(100 ms and 1 s) are far too slow to take the free place first every time. It assumes nothing of the timers or of
the broker's commands. `NetworkIf` assumes weak fairness for mainThread's steps (it polls
with a sleep in every loop, and the time slices of its priority are shared) and for the
handling of events that have been reported (the SimpleLink task has the highest priority).
It assumes nothing of the access points, and nothing of the user: `StartUpEndsOrAsks` is what
is left without them.

### What the violations mean

* `motion_pid`: `threadFxn0` sends to the motors only while `enable_counter > 0`, and it
  is just then that it counts no error. Once the settle counter reaches 0 the regulator
  changes `speedA` with every count and sends nothing. The README of the rover says that
  the PID ensures the velocity at all times.
* `sensor_shift`: `counter` follows the counts and `spicounter` the ticks. One read
  outside the turn makes them differ for good: in the run `spi1` reads encoder 1 twice, and wheel 2
  of the moving rover is given the second count. A count that finds queue 1 full does the
  same (`TurnsKeptUnlessDisturbed` names exactly these two causes).
* `pipeline_stop`: queue 6 fills up (statistics every second, a wheel speed for every
  third count, announcements) while a publish is under way; a message arrives, and the
  callback waits for room in queue 6; nobody reads the acknowledgement any more. The
  controller then blocks on queue 6 itself, before the motor word of the STOP. With ten words per queue it takes a slower
  broker than in the instance, not a different order of events. `pipeline_served` is the
  other side: where queue 6 cannot fill up, the same property holds. `OnlyPublisherBlocks` says that
  there is no other ring.

### Seen while modelling

Each of these is a case that a property excludes in so many words; without the exclusion
TLC finds it.

* A message numbered 1 after one numbered 57 may be read as 17: `tempValue3` still ends with
  the 7 (`NumberAsSent`, `unsaid`).
* A body "spin" after a body "spinl" may repeat the spin to the left, since "spin" alone is
  no command (`OnlyWhatWasSent`).
* A message that is not understood has the number 0 and counts as a missed one.
* The address for the DNS server is written over the one of the gateway
  (`network_if.c:755`); both are only local variables of the caller.
* An access point given up a moment too early may be reported as the one asked for
  (`ConnectedAsAsked`, `late`), although the comment at `network_if.c:611` says that the
  previous attempt is disconnected.
* `missed_MSG` compares every number with the last one of any team. It may grow by two for a
  repeated message, by one for a change of team, and by only one for a gap of any size.

## 4. Proofs

Every theorem is for all values of the constants: any set of threads containing the
initialiser, any queue size above zero, any set of integer counts, of speed bytes, of
bodies and of teams, any contents of the stack, any waits, retries, losses and bounds. They rest on the assumptions
named in the modules (`QueueSizeAssumption`, `ThreadsAssumption`, `ReadingsAssumption`,
`DirectReadsAssumption`, `MotorAssumption`, `BodiesAssumption`, `NetworkAssumption`,
`CloudAssumption`, `TokensAssumption`, `DecodeAssumption`), which only say what kind of value
each constant is, and on nothing else. `DecodeAssumption` also says that the texts of a message have
no NUL; of the arrays on the stack it says only their length.
Each invariant below was first checked by TLC on the instance of the module's run, or on a
part of it.

**SpiBus.** `OneChipSelected` and `NeverRefused` are not inductive: they say nothing of the
semaphore. The strengthening `IInv` is a token argument. There is at most one token: in the semaphore (`masterSem = 1`), with a
thread between `sem_wait` and `SPI_transfer`, or with the transfer on the wire (`Token`). The
rest of `IInv` says what the holder has done to the transaction record (`OwnerState`) and
the lines (`LinesAccounted`), that nobody else has, and that `initSpi` runs alone
(`Booting`). Each step moves the token or leaves it where it is. From `IInv` follow
`ChipSelectExclusive`, `TransactionIntegrity`, `TransfersAccepted`, and `Refinement`: an
accepted `SPI_transfer` is the port's `Start`, the interrupt its `Finish`, which needs
the transaction record to describe the transfer, and the rest stutters. `Token` says that
there is never more than one; `TokenKept` is the other half: from `initSpi` on there is one, because each
step that takes it away from one of the three gives it to the next. This is the safety part of `EveryCallServed`.

**MotionControl.** `IInv` joins the type with four parts, each inductive given the type:
`StopHolds`; `ArmInv` (what `stop_counter` is for each direction, before and after the
STOP); `FreshInv` (on a straight leg, which of the wheels before the turn have been read,
for each value of the settle counter); `RestInv` (after a STOP, and
through a leg from rest while it settles, errors and integrals are zero, so the control
value is zero and the regulated speed stays the one that the command has set, which is
`CleanStart`; a spin never leaves this state, which is `SpinHolds`). `ControlVarZero`
and `ClampByte` are the lemmas on the arithmetic.

**SensorLoop.** The counts carry no number of their encoder, so the property is about words
that look alike. `TurnInv` writes down the encoders under way in one line (`Line`): those of
the counts in queue 1, the one on the bus, the one that threadFxn0 asks for, and at the end
`spicounter`. Each follows the one before it as the wheels do, and the first is `counter`.
A tick and a read leave the line as it is, or let it grow at its end; a count that is
handled, at rest or not, takes its first away; ticks and commands in queue 1 are not in it. `TurnsKept` follows.

**MotorDriver.** `FramesInv`: what is in the frame being received, in the UART (without the
byte for the baud rate) and still to be written are, after each other, whole frames that the
motor controllers accept. A word adds three of them (`FramesOfWord`, by arithmetic for every
byte: the low byte of each shift is the one packed there, the checksum fits 7 bits, command and
speed mean the byte they came from); `UART_write` and a byte received only move a byte
within the sequence (`ByteWritten`, `ByteReceived`); the fourth byte of a frame drops its first
frame (`FrameDropped`) and carries out the oldest order. This is the step-by-step refinement of
`MotorBank` (`FramesImplementBank`).

**RoverPipeline.** `PipeType` gives each queue the words its senders make and each thread the
calls its handlers make. `UartFirst` needs `ClosedInv`: until threadFxn2 has opened the
UART it has passed nothing on, so queue 1 has ticks and counts only, and a controller at rest answers
them with reads, never with a word for queue 2. `StopComesLast` needs `StopInv`: the newest word on
its way from queue 2 over threadFxn1 to the UART is rest, or the controller is just about
to send it, or a further STOP is under way, or a raw word was received after the last STOP
(`Excused`). A raw word from before the STOP goes past queue 1 and the controller; `BypassInv` says that as
long as it has not got into queue 2, a STOP is behind it in queue 3 or in the callback
(`StopBehind`), so the STOP that excuses it is the one that will overtake it. For `ChannelImplemented` the commands under way are the ones in queue 1, in the hands of
threadFxn2, in queue 3 and in the callback (`InQ1`, `OfT2`, `InQ3`, `OfRx`), each taken out of its
words by `Selection`. Every step of any thread accepts a command at the end, delivers one at the
front, or moves one from one part to the next, which leaves the whole as it is. For the channel of
the motor words they are the one in the hand of threadFxn1 and those in queue 2 (`MotorWordsDue`,
`InHand`). `ReceiversKnowTags` needs only which words each queue holds. `StandstillNeedsPublisher`
follows the full queues in a state in which nobody can move: threadFxn1 calls nothing that waits, so queue 2
is empty; with the bus free, the controller can only wait for queue 6; if the controller does not wait
for it, queue 1 is empty and threadFxn2 has nothing to wait for, so queue 3 is empty, too, and the callback can only
wait for queue 6. Whoever waits finds it full, so MqttClient is in its publish, and the
acknowledgement has not been read only because the callback is not done.

**NetworkIf** (in `CloudLinkProofs`). The word `g_ulStatus` itself is unreliable while its clears are under way: a handler that runs between the read
and the write is overwritten. The proof goes round it. `LinkStory` says that the events not
handled yet lead, one by one, from the bits told so far to the link as it is. From
the moment both clears are written (`AddressCleared`), the address bit is there only with the
events (`AddressInv`), and from then on whoever sets it finds the connection bit: this is
`BothBitsHold`. `AnswerInv` does the same for the answer to an attempt (`ConnectionAnswered`).

**CloudLink.** `WlanUndisturbed` says that the threads of the cloud implement
`NetSpec`, fairness included, so the results on the network hold in the whole. `StartInv` says how far mainThread,
MqttClient and the receive thread are when each other is, `SessionInv` how the two flags go with
the session. `CountedOnce` needs that no number told to a topic is above
`count` (`NumbersInv`), which the next one is. `MissedBounded` counts: `WillMiss` is the value that
`missed_MSG` has when queue 6 is empty again, the messages out of turn in it included. The
invariant keeps the number heard last (`v` in `StreamInv`), because the next message counts only if
it is neither 1 nor `v + 1`; one that does is paid for by a lost message, a repetition (two:
itself and the one after it), or a change of team.

**Jsmn.** `BracketsNest` is the refinement of `Nesting`, step by step: the kinds of the open tokens
in the order of the array are the stack, the array never overflows, and an error or the
count of the tokens is the verdict. The search back for the last open token
(`LastOfPlaces`) finds the top of the stack because a token is only closed when it is the last open
one (`StackGrows`, `StackShrinks`). `SizesCounted` needs `FlatInv`, which says for each place in a flat
message, `r` lexemes after `m` whole fields, which tokens there are, where each starts, what has
been counted in it and where `toksuper` points: after the name at the object, after the colon
at the name, after the comma at the object again.

**MessageDecode.** `DecodeInv` joins `FlatInv` with what a call does to the arrays and the
buffers. `PairInv`: after the loop of `jsonParser_MQTT` has taken the first `p` fields of a flat
message, a field whose name came once has the characters of its value in its buffer, and
nothing else unless it is in `unsaid` (`Taken`). `KeptInv`, for any message: a buffer whose field is not in
`unsaid` is empty or holds the text of one token, and so does its array. The second half is what makes it
inductive: the same name may come again, with a shorter value, and what is copied over what
has to be known then (`CopyExact`, `PrintExact`). `CallInv` is the callback's result. `CommandsAsSent`
needs besides that no text starts with two of the commands (`OneCommand`) and that no command
looks further than its own text (`SamePart`), `NumbersAsSent` that digits end where the
value ends (`DigitsOf`), and `OnlySentCommands` that no command starts with a bracket or a NUL.
`SpeedsKeepToTheirBytes` is arithmetic on three bytes shifted into a word (`ThreeBytes`).
`ValuesAreThere` needs `FitsInv`: as long as a message is flat, jsmn has no more tokens than fit, the object's, and one
for each name and each value, so the loop, which starts at 2 and moves by two, is at a name
whenever it is not past the end. `DecodeTypeCorrect` needs that `Number`, a recursive function on
texts, is a number at all. For this the library's induction theorems cannot be
used, but a set of naturals that is not empty has a least one, and that is induction in a form
without an operator as a parameter (`LeastNatural`, `SetInduction`). `NumberIsDecimal` says with it
what `atoi` computes: ten times the number of the digits before, and the last digit.

**Only model-checked**: the three liveness properties `EveryCallServed`, `StopServed` and
`StartUpEndsOrAsks`. They rest on fairness, that is, on `ENABLED`, which these provers do not
handle. `TokenKept` and `StandstillNeedsPublisher` prove for every instance what a safety property
can say of the first two: there is a token to wait for, and there is no ring but the one that
`pipeline_stop` shows. `motion_pid`, `sensor_shift` and `pipeline_stop` are counterexamples and need no proof.

## 5. Not modelled

* Functions without a live caller: `Mqtt_Stop`, `Mqtt_ClientStop`,
  `Network_IF_DeInitDriver`, `Network_IF_GetHostIP` and the operations on the whole status
  word, `spiR3`, `speedtomotorconv`, `threadFxn3` and `threadFxn4`, queues 4 and 5
  (`dequeueCustomQ4` reads queue 3), the publish timer.
* Pure output: the terminal's `Report` and `Message`, the texts of published messages, the
  debug pins, the LEDs, the printing handlers of the network (`Sets` and `Clears` have their
  events as "others").
* The bit layout of words and the byte order of counts; the wrap of the 32-bit counts.
* The values of the buffers that are written and never read (recipient, sender, anything
  else), the topic and quality of service of a message.
* What the program does after a copy past the end of an array: a value over 63 characters,
  and an array without a NUL, end the run of `MessageDecode` (`RunPast`); a payload over the
  122 bytes of `A` is not looked at.
* `main_freertos.c` and the device set-up of mainThread up to `Mqtt_IF_Connect`, its error branches
  and the `ClientId` included; the modules begin with the initial values of the variables;
  generated board files, `Debug/` and the WordPress plugin are not the rover's logic.

## 6. Plan

Done: all the modules of section 2 and their runs; the theorems of section 4, that is, every
invariant and action property that a run checks, and the refinements of `SpiPort`, `MotorBank`,
`CommandChannel` (twice) and `Nesting`.

Left: the liveness properties stay with TLC. Some hazards of `PROJECT.json` have no property, each
with a note. In three the motors keep their last speeds, or the controller waits for ever, and nothing in the
code promises otherwise: `errorRoutine` stops everything, the connection is lost, or `MqttClient` cannot
start and queue 6 has no reader. In three the code goes on where it should not, and a property
describes that and does not forbid it: it publishes without a client or without a session, and a
late access point is taken for the one asked for. Two are outside the models: an access point that is
lost after the start, and what a copy past an array does.
