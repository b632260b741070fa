------------------------------ MODULE CloudLink ------------------------------
(***************************************************************************)
(* How the rover comes to its broker, loses it, and counts what it hears.  *)
(*                                                                         *)
(*    main   mainThread: the WLAN (NetworkIf), Mqtt_start, the threads     *)
(*    mc     MqttClient: MqttClient_start, then the messages of queue 6    *)
(*    rx     MqttClientThread: MQTTClient_run and MqttClientCallback       *)
(*    t0     threadFxn0, of which only what it has published is kept       *)
(*                                                                         *)
(* The MQTT library and the broker are external.  A session is opened by   *)
(* MQTTClient_connect, and from then on it may be lost at any time; the    *)
(* library tells the callback and MQTTClient_run returns.  The other teams *)
(* number their messages from 1; a message may get lost on its way, come   *)
(* twice (QoS 1), and a team that restarts begins again with 1.            *)
(***************************************************************************)
EXTENDS NetworkIf, CustomQueue, FiniteSets

CONSTANTS
    Senders,        \* the teams that send to the topics of the rover
    MaxSent,        \* what happens to their messages (bound of the model)
    MaxRequested    \* how often threadFxn0 has something published (bound of the model)

NoSender == "none"

ASSUME CloudAssumption ==
    MaxSent \in Nat /\ MaxRequested \in Nat /\ NoSender \notin Senders

VARIABLES
    mainpc,             \* mainThread: "link", "mqtt start", "threads" or "spin"
    gApConnectionState,
    t0,                 \* threadFxn0 runs
    mcpc,               \* where MqttClient is
    gMqttClient,        \* the client exists
    gUiConnFlag,
    gResetApplication,
    rxpc,               \* where MqttClientThread is
    session,            \* of the library with the broker
    subscribed,         \* what the broker knows of the rover
    queue6,
    counters,           \* the local variables of MqttClient
    numbers,            \* history: what the MSGIDs of each topic have been
    requested,          \* history: words in queue 6 that ask for a numbered message
    received,           \* history: messages that MqttClientCallback has been given
    stream              \* the senders' numbers, and the history of their messages

startup   == <<mainpc, gApConnectionState, t0>>
client    == <<mcpc, gMqttClient, gUiConnFlag>>
link      == <<rxpc, gResetApplication, session, subscribed>>
traffic   == <<queue6, counters, numbers, requested, received, stream>>
cloudVars == <<netVars, startup, client, link, traffic>>

\* The topics whose messages carry a number.
Topics == {"Brandon_pub", "Arm1_sub", "Arm2_sub"}

CloudInit ==
    /\ NetInit
    /\ mainpc = "link" /\ gApConnectionState = -1 /\ t0 = FALSE
    /\ mcpc = "none" /\ gMqttClient = FALSE /\ gUiConnFlag = 0
    /\ rxpc = "none" /\ gResetApplication = FALSE
    /\ session = "none" /\ subscribed = FALSE
    /\ queue6 = << >>
    /\ counters = [count |-> 0, revCount |-> 0, missed_MSG |-> 0, Last_Id |-> 0]
    /\ numbers = [topic \in Topics |-> << >>]
    /\ requested = 0 /\ received = 0
    /\ stream = [next |-> [s \in Senders |-> 1], last |-> [s \in Senders |-> 0],
                 from |-> NoSender, events |-> 0, lost |-> 0, gaps |-> 0,
                 repeats |-> 0, switches |-> 0, restarts |-> 0]

-----------------------------------------------------------------------------
(***************************************************************************)
(* mainThread.                                                             *)
(***************************************************************************)

\* Fault: a failure of Network_IF_ConnectAP is not reported.
Mqtt_IF_Connect_Ignore == 0

\* What Mqtt_IF_Connect returns.
Mqtt_IF_Connect == IF netpc = "done" THEN 0 ELSE -1

StoreApState ==
    /\ mainpc = "link" /\ netpc \in {"done", "failed"}
    /\ gApConnectionState' = Mqtt_IF_Connect
    /\ mainpc' = "mqtt start"
    /\ UNCHANGED <<netVars, t0, client, link, traffic>>

\* mainThread does not learn whether Mqtt_start has created the thread.
Mqtt_start ==
    /\ mainpc = "mqtt start"
    /\ mcpc' = "start" \/ mcpc' = "none"
    /\ mainpc' = "threads"
    /\ UNCHANGED <<netVars, gApConnectionState, t0, gMqttClient, gUiConnFlag, link, traffic>>

\* When one of the threads cannot be created, mainThread spins a little earlier.
CreateThreads ==
    /\ mainpc = "threads"
    /\ t0' \in BOOLEAN
    /\ mainpc' = "spin"
    /\ UNCHANGED <<netVars, gApConnectionState, client, link, traffic>>

-----------------------------------------------------------------------------
(***************************************************************************)
(* MqttClient: MqttClient_start.                                           *)
(***************************************************************************)
At(pc) == mcpc = pc /\ UNCHANGED <<netVars, startup, traffic>>

StartClient ==
    /\ At("start")
    /\ mcpc' = IF gApConnectionState >= 0 THEN "create" ELSE "loop"
    /\ UNCHANGED <<gMqttClient, gUiConnFlag, link>>

CreateClient ==
    /\ At("create")
    /\ \/ gMqttClient' = TRUE /\ mcpc' = "thread"
       \/ gMqttClient' = FALSE /\ mcpc' = "exited"
    /\ UNCHANGED <<gUiConnFlag, link>>

CreateRxThread ==
    /\ At("thread")
    /\ \/ rxpc' = "running" /\ mcpc' = "connect"
       \/ rxpc' = "none" /\ mcpc' = "exited"
    /\ UNCHANGED <<gMqttClient, gUiConnFlag, gResetApplication, session, subscribed>>

\* A broker that accepts a client with CLEAN_SESSION has no session stored (0).
ConnectClient ==
    /\ At("connect")
    /\ \/ session' = "up" /\ gUiConnFlag' = 1 /\ mcpc' = "subscribe"
       \/ session' = "closed" /\ gUiConnFlag' = 0 /\ mcpc' = "loop"
    /\ UNCHANGED <<gMqttClient, rxpc, gResetApplication, subscribed>>

\* Fault: a failed subscription leaves the flag.
Subscribe_KeepFlag ==
    /\ At("subscribe")
    /\ \/ session = "up" /\ subscribed' = TRUE /\ UNCHANGED session
       \/ subscribed' = FALSE /\ session' = "closed"
    /\ mcpc' = "loop"
    /\ UNCHANGED <<gMqttClient, gUiConnFlag, rxpc, gResetApplication>>

\* MQTTClient_disconnect after an error; a session that is lost stays lost.
Subscribe ==
    /\ At("subscribe")
    /\ \/ session = "up" /\ subscribed' = TRUE /\ UNCHANGED <<gUiConnFlag, session>>
       \/ /\ subscribed' = FALSE /\ gUiConnFlag' = 0
          /\ session' = IF session = "lost" THEN "lost" ELSE "closed"
    /\ mcpc' = "loop"
    /\ UNCHANGED <<gMqttClient, rxpc, gResetApplication>>

-----------------------------------------------------------------------------
(***************************************************************************)
(* MqttClient: the loop on queue 6.                                        *)
(***************************************************************************)

\* The types that take a new number.
Numbered == {0, 5, 6, 7, 8, 9}

\* The topics that are told the number: a speed (5) is published without it, the call
\* of an arm goes to the arm and to everybody else, with the same number.
TopicsOf(type) ==
    CASE type \in {0, 8, 9} -> {"Brandon_pub"}
      [] type = 6           -> {"Arm2_sub", "Brandon_pub"}
      [] type = 7           -> {"Arm1_sub", "Brandon_pub"}
      [] OTHER              -> {}

\* Fault: the number is noted only when it was the expected one.
CountMessage_KeepLast(c, current_ID) ==
    [c EXCEPT !.revCount = @ + 1,
              !.missed_MSG = IF current_ID \in {c.Last_Id + 1, 1} THEN @ ELSE @ + 1,
              !.Last_Id = IF current_ID = c.Last_Id + 1 THEN current_ID ELSE @]

CountMessage(c, current_ID) ==
    [c EXCEPT !.revCount = @ + 1,
              !.missed_MSG = IF current_ID \in {c.Last_Id + 1, 1} THEN @ ELSE @ + 1,
              !.Last_Id = current_ID]

\* Fault: the greeting is sent without a number.
Count_GreetingFree(c, m) ==
    CASE m.type \in Numbered \ {0} -> [c EXCEPT !.count = @ + 1]
      [] m.type = 4                -> CountMessage(c, m.val)
      [] OTHER                     -> c

Count(c, m) ==
    CASE m.type \in Numbered -> [c EXCEPT !.count = @ + 1]
      [] m.type = 4          -> CountMessage(c, m.val)
      [] OTHER               -> c

\* Nothing looks at what MQTTClient_publish returns, nor whether there is a client.
MqttClientLoop ==
    /\ mcpc = "loop" /\ queue6 # << >>
    /\ LET m == DequeueQ6(Head(queue6), [val |-> 777, type |-> 777])
       IN  /\ counters' = Count(counters, m)
           /\ numbers' = [topic \in Topics |->
                             IF topic \in TopicsOf(m.type)
                               THEN Append(numbers[topic], counters'.count)
                               ELSE numbers[topic]]
           /\ gUiConnFlag' = IF m.type \in {2, 3} THEN 0 ELSE gUiConnFlag
           /\ mcpc' = IF m.type = 3 THEN "exited" ELSE "loop"
    /\ queue6' = Tail(queue6)
    /\ UNCHANGED <<netVars, startup, gMqttClient, link, requested, received, stream>>

-----------------------------------------------------------------------------
(***************************************************************************)
(* MqttClientThread, the broker and the other teams.                       *)
(***************************************************************************)
LoseSession ==
    /\ session = "up"
    /\ session' = "lost"
    /\ UNCHANGED <<netVars, startup, client, rxpc, gResetApplication, subscribed, traffic>>

\* MQTTClient_run returns.  The callback is told of a session that was lost, and may
\* be told of one that MqttClient has closed itself.
RunReturns ==
    /\ rxpc = "running" /\ session \in {"lost", "closed"}
    /\ gResetApplication' \in IF session = "lost" THEN {TRUE} ELSE {gResetApplication, TRUE}
    /\ session' = "closed" /\ subscribed' = FALSE
    /\ rxpc' = "ending"
    /\ UNCHANGED <<netVars, startup, client, traffic>>

\* It leaves MqttClient a greeting to publish.
EndRxThread ==
    /\ rxpc = "ending" /\ HasRoom(queue6)
    /\ queue6' = Append(queue6, CloudWord(0, 0))
    /\ requested' = requested + 1
    /\ rxpc' = "ended"
    /\ UNCHANGED <<netVars, startup, client, gResetApplication, session, subscribed,
                   counters, numbers, received, stream>>

\* Something happens to a message of team s.
OfTeam(s, moved) ==
    /\ subscribed /\ stream.events < MaxSent
    /\ stream' = [moved EXCEPT !.events = @ + 1]
    /\ UNCHANGED <<netVars, startup, client, link, counters, numbers, requested>>

Switch(s) == IF stream.from \in {s, NoSender} THEN 0 ELSE 1

\* MqttClientCallback with message number n: the callback waits for room in queue 6.
Hear(n) ==
    /\ rxpc = "running" /\ session = "up" /\ HasRoom(queue6)
    /\ queue6' = Append(queue6, CloudWord(n, 4))
    /\ received' = received + 1

\* The next message of s.  A gap is one that the same team has left since its last.
Deliver(s) ==
    /\ Hear(stream.next[s])
    /\ OfTeam(s, [stream EXCEPT
           !.next[s] = @ + 1, !.last[s] = stream.next[s], !.from = s,
           !.switches = @ + Switch(s),
           !.gaps = @ + IF Switch(s) = 0 /\ stream.next[s] > stream.last[s] + 1 THEN 1 ELSE 0])

\* One that has been delivered comes again, the last or one before it.
Repeat(s) ==
    /\ \E n \in 1..stream.last[s] : Hear(n)
    /\ OfTeam(s, [stream EXCEPT !.from = s, !.repeats = @ + 1, !.switches = @ + Switch(s)])

\* One that was sent before the rover subscribed can as well be lost after it did.
Lose(s) ==
    /\ OfTeam(s, [stream EXCEPT !.next[s] = @ + 1, !.lost = @ + 1])
    /\ UNCHANGED <<queue6, received>>

Restart(s) ==
    /\ stream.next[s] > 1
    /\ OfTeam(s, [stream EXCEPT !.next[s] = 1, !.last[s] = 0, !.restarts = @ + 1])
    /\ UNCHANGED <<queue6, received>>

Broker == LoseSession \/ \E s \in Senders : Deliver(s) \/ Repeat(s) \/ Lose(s) \/ Restart(s)

-----------------------------------------------------------------------------
(***************************************************************************)
(* The other senders of queue 6.                                           *)
(***************************************************************************)

\* timerStatsCallback; the timer runs before there is a network.
StatsTimer ==
    /\ queue6' = SendFromISR(queue6, CloudWord(0, 1))
    /\ UNCHANGED <<netVars, startup, client, link>>
    /\ UNCHANGED <<counters, numbers, requested, received, stream>>

\* A speed, the call of an arm or a report of threadFxn0.
Publish(type) ==
    /\ t0 /\ HasRoom(queue6) /\ requested < MaxRequested
    /\ queue6' = Append(queue6, CloudWord(0, type))
    /\ requested' = requested + 1
    /\ UNCHANGED <<netVars, startup, client, link, counters, numbers, received, stream>>

NetStep == NetNext /\ UNCHANGED <<startup, client, link, traffic>>

CloudNext ==
    \/ NetStep
    \/ StoreApState \/ Mqtt_start \/ CreateThreads
    \/ StartClient \/ CreateClient \/ CreateRxThread \/ ConnectClient \/ Subscribe
    \/ MqttClientLoop
    \/ RunReturns \/ EndRxThread
    \/ Broker
    \/ StatsTimer \/ \E type \in {5, 6, 7, 8, 9} : Publish(type)

CloudSpec == CloudInit /\ [][CloudNext]_cloudVars /\ NetFairness

-----------------------------------------------------------------------------
(***************************************************************************)
(* Properties.                                                             *)
(***************************************************************************)
Stream == [next : [Senders -> Nat \ {0}], last : [Senders -> Nat],
           from : Senders \cup {NoSender}, events : 0..MaxSent, lost : Nat, gaps : Nat,
           repeats : Nat, switches : Nat, restarts : Nat]

CloudWords == [tag : 1..10, val : Nat]

CloudTypeOK ==
    /\ NetTypeOK
    /\ mainpc \in {"link", "mqtt start", "threads", "spin"}
    /\ gApConnectionState \in {-1, 0} /\ t0 \in BOOLEAN
    /\ mcpc \in {"none", "start", "create", "thread", "connect", "subscribe", "loop", "exited"}
    /\ gMqttClient \in BOOLEAN /\ gUiConnFlag \in {0, 1}
    /\ rxpc \in {"none", "running", "ending", "ended"} /\ gResetApplication \in BOOLEAN
    /\ session \in {"none", "up", "lost", "closed"} /\ subscribed \in BOOLEAN
    /\ queue6 \in Seq(CloudWords) /\ Len(queue6) <= QUEUE_SIZE
    /\ counters \in [count : Nat, revCount : Nat, missed_MSG : Nat, Last_Id : Nat]
    /\ numbers \in [Topics -> Seq(Nat)]
    /\ requested \in 0..(MaxRequested + 1) /\ received \in 0..MaxSent
    /\ stream \in Stream

\* Once MqttClient_start has returned, gUiConnFlag without gResetApplication says that
\* there is a session with the topics of the rover; only a loss that the library has
\* not reported yet makes a difference.
FlagTellsSession ==
    mcpc = "loop" /\ session # "lost" =>
        /\ (gUiConnFlag = 1 /\ ~gResetApplication) <=> (session = "up")
        /\ session = "up" => subscribed

\* The broker is sought only by a rover that Network_IF_ConnectAP has brought into a
\* WLAN, and the loop that publishes without a client is that of a rover it has not.
LinkBeforeSession ==
    /\ gMqttClient => netpc = "done"
    /\ mcpc = "loop" /\ ~gMqttClient => netpc = "failed"

\* How many words in queue 6 have one of the types.
Places(q, types) == {n \in DOMAIN q : q[n].tag - 1 \in types}

Waiting(types) == Cardinality(Places(queue6, types))

\* Every number that a topic is told is larger than the ones before.
Increasing(s) == \A n \in 2..Len(s) : s[n - 1] < s[n]

\* Whichever threads and interrupts fill queue 6, each request to publish takes one
\* number, in the order of the queue, each message that the callback was given is
\* counted once, and no topic carries a number twice or a smaller one after a larger:
\* a team that watches the MSGIDs of one topic never takes a message for a repeat.  What
\* is counted are requests, the words in queue 6, and not calls of MQTTClient_publish:
\* the call of an arm makes two under one number, and the statistics, which report this
\* number as Pub_Attempts, are published without one.
NumberedOnce ==
    /\ counters.count + Waiting(Numbered) = requested
    /\ counters.revCount + Waiting({4}) = received
    /\ \A topic \in Topics : Increasing(numbers[topic])

\* missed_MSG never claims more than one message for each that was lost, two for each
\* that came twice and one for each time another team spoke; and as long as no team
\* restarted, it has grown for every gap that a team left between two messages in a row.
MissedCountBounds ==
    /\ counters.missed_MSG <= stream.lost + 2 * stream.repeats + stream.switches
    /\ stream.restarts = 0 => stream.gaps <= counters.missed_MSG + Waiting({4})
=============================================================================
