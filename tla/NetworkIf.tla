------------------------------ MODULE NetworkIf ------------------------------
(***************************************************************************)
(* network_if.c: how mainThread brings the rover into the WLAN.            *)
(*                                                                         *)
(* Two parties share the status word g_ulStatus.  The SimpleLink task has  *)
(* the highest priority and runs the event handlers: each is one step.     *)
(* mainThread has the lowest: what it does to the word is read, modify and *)
(* write, and a handler may run between the read and the write.            *)
(*                                                                         *)
(* netpc is where mainThread is:                                           *)
(*    start, setMode, restart        Network_IF_InitDriver                 *)
(*    disconnect, awaitDown          Network_IF_DisconnectFromAP           *)
(*    clear, store                   the two CLR_STATUS_BIT after it       *)
(*    ask                            GetCmd, for the name of another AP    *)
(*    connect, wait1, wait2, test    the rest of Network_IF_ConnectAP      *)
(*    online                         Network_IF_IpConfigGet                *)
(*    done, failed                   Mqtt_IF_Connect has returned 0 or -1  *)
(*    hung                           LOOP_FOREVER                          *)
(*                                                                         *)
(* The network processor (NWP) is external: it looks for one access point, *)
(* the one of a stored profile or of the last sl_WlanConnect, until it is  *)
(* told otherwise, and reports in order what happens to the link.  A step  *)
(* of a wait loop stands for a second: any number of events may come in it.*)
(***************************************************************************)
EXTENDS Integers, Sequences

CONSTANTS
    FIRST_WAIT,     \* seconds of waiting for the first access point (10)
    RETRY_WAIT,     \* seconds more for one given by hand (15)
    MaxRetries,     \* how often the user gives a name (bound of the model)
    MaxLosses,      \* how often a link breaks by itself (bound of the model)
    MaxPending      \* events on their way from an NWP in AP mode (bound of the model)

ASSUME NetworkAssumption ==
    {FIRST_WAIT, RETRY_WAIT, MaxRetries, MaxLosses, MaxPending} \subseteq Nat

CONNECTION  == "connection"
IP_LEASED   == "ip leased"
IP_ACQUIRED == "ip acquired"

StatusBits == {CONNECTION, IP_LEASED, IP_ACQUIRED}

VARIABLES
    status,             \* g_ulStatus: the bits that are set
    netpc,              \* where mainThread is
    clears,             \* the bits it still has to clear
    loaded,             \* the word it has read to clear the first of them
    g_usConnectIndex, usConnTimeout,
    nwp,                \* the NWP: its role, its link, whether it has an address, and
                        \* the attempt it is making or has made
    events,             \* the events that the SimpleLink task has not handled yet
    losses,             \* how often a link has broken by itself
    attempt,            \* history: the last attempt; 0 is the NWP's own, the others
                        \* are the calls of sl_WlanConnect
    told,               \* history: what the events handled since sl_Start add up to
    answered,           \* history: the last attempt was reported connected in time
    late                \* history: an attempt that had been given up was

progress  == <<netpc, clears, loaded, g_usConnectIndex, usConnTimeout>>
device    == <<nwp, events, losses>>
history   == <<attempt, told, answered, late>>
netVars   == <<status, progress, device, history>>

Event(id, a) == [id |-> id, attempt |-> a]

NWP(role, link, a) == [role |-> role, link |-> link, ip |-> FALSE, attempt |-> a]

Online(s) == {CONNECTION, IP_ACQUIRED} \subseteq s

\* InitializeAppVariables: it runs when the NWP is off, so no event undoes it.
NetInit ==
    /\ status = {}
    /\ netpc = "start"
    /\ clears = << >> /\ loaded = {}
    /\ g_usConnectIndex = 0 /\ usConnTimeout = 0
    /\ nwp = NWP("off", "idle", 0)
    /\ events = << >>
    /\ losses = 0
    /\ attempt = 0
    /\ told = {}
    /\ answered = FALSE
    /\ late = FALSE

-----------------------------------------------------------------------------
(***************************************************************************)
(* The event handlers.                                                     *)
(***************************************************************************)

\* The bits an event sets and the bits it clears.  Every other event, and the
\* fatal, general and socket ones, are printed and change nothing.
Sets(id) ==
    CASE id \in {"connect", "sta added"} -> {CONNECTION}
      [] id = "ip acquired"              -> {IP_ACQUIRED}
      [] id = "dhcp leased"              -> {IP_LEASED}
      [] OTHER                           -> {}

\* Fault: a lost connection leaves the connection bit.
Clears_IpOnly(id) == IF id = "disconnect" THEN {IP_ACQUIRED} ELSE {}

Clears(id) ==
    CASE id = "disconnect"    -> {CONNECTION, IP_ACQUIRED}
      [] id = "sta removed"   -> {CONNECTION, IP_LEASED}
      [] id = "dhcp released" -> {IP_LEASED}
      [] OTHER                -> {}

After(id, bits) == (bits \ Clears(id)) \cup Sets(id)

\* While mainThread is at one of these the last attempt has been given up.
GivenUp == netpc \in {"clear", "store", "ask", "connect"}

\* SimpleLinkWlanEventHandler and SimpleLinkNetAppEventHandler.
HandleEvent ==
    /\ events # << >>
    /\ LET e == Head(events)
           inTime == e.attempt = attempt /\ ~GivenUp
       IN  /\ status' = After(e.id, status)
           /\ told' = After(e.id, told)
           /\ answered' = (answered \/ (e.id = "connect" /\ inTime))
           /\ late' = (late \/ (e.id = "connect" /\ ~inTime))
    /\ events' = Tail(events)
    /\ UNCHANGED <<progress, nwp, losses, attempt>>

-----------------------------------------------------------------------------
(***************************************************************************)
(* The NWP.                                                                *)
(***************************************************************************)
Report(id) == events' = Append(events, Event(id, nwp.attempt))

\* The access point is in range and lets the rover in.
Associate ==
    /\ nwp.link = "trying"
    /\ nwp' = [nwp EXCEPT !.link = "up"]
    /\ Report("connect")
    /\ UNCHANGED <<status, progress, losses, history>>

AcquireIp ==
    /\ nwp.link = "up" /\ ~nwp.ip
    /\ nwp' = [nwp EXCEPT !.ip = TRUE]
    /\ Report("ip acquired")
    /\ UNCHANGED <<status, progress, losses, history>>

LinkLost ==
    /\ nwp.link = "up" /\ losses < MaxLosses
    /\ losses' = losses + 1
    /\ nwp' = [nwp EXCEPT !.link = "idle", !.ip = FALSE]
    /\ Report("disconnect")
    /\ UNCHANGED <<status, progress, history>>

\* An NWP that came up as an access point has stations of its own.
StationEvent ==
    /\ nwp.role = "ap" /\ Len(events) < MaxPending
    /\ \E id \in {"ip acquired", "sta added", "dhcp leased", "dhcp released", "sta removed"} :
          Report(id)
    /\ UNCHANGED <<status, progress, nwp, losses, history>>

Network == Associate \/ AcquireIp \/ LinkLost \/ StationEvent

-----------------------------------------------------------------------------
(***************************************************************************)
(* Network_IF_InitDriver(ROLE_STA).                                        *)
(***************************************************************************)
From(pc) == netpc = pc

Goto(pc) == netpc' = pc

SameClears  == UNCHANGED <<clears, loaded>>
SameClock   == UNCHANGED <<g_usConnectIndex, usConnTimeout>>

\* sl_Start.  InitDriver leaves a stored profile alone, so the NWP may already be
\* looking for the access point of one.
PowerUp(role) ==
    \E link \in IF role = "sta" THEN {"idle", "trying"} ELSE {"idle"} :
       nwp' = NWP(role, link, 0)

StartDriver ==
    /\ From("start")
    /\ \/ Goto("hung") /\ UNCHANGED nwp
       \/ Goto("disconnect") /\ PowerUp("sta")
       \/ Goto("setMode") /\ PowerUp("ap")
    /\ SameClears /\ SameClock
    /\ UNCHANGED <<status, events, losses, history>>

SetMode ==
    /\ From("setMode")
    /\ Goto("restart") \/ Goto("failed")
    /\ SameClears /\ SameClock
    /\ UNCHANGED <<status, device, history>>

\* sl_Stop and sl_Start: the NWP forgets what it had to report, the status word
\* keeps what was reported in the other mode.
RestartDriver ==
    /\ From("restart")
    /\ \/ Goto("failed") /\ nwp' = NWP("off", "idle", 0)
       \/ Goto("disconnect") /\ PowerUp("sta")
       \/ Goto("hung") /\ PowerUp("ap")
    /\ events' = << >>
    /\ told' = {}
    /\ SameClears /\ SameClock
    /\ UNCHANGED <<status, losses, attempt, answered, late>>

-----------------------------------------------------------------------------
(***************************************************************************)
(* Network_IF_DisconnectFromAP and the clearing of the two bits.           *)
(***************************************************************************)

\* Fault: the address bit is cleared first.
ClearOrder_Swapped == <<IP_ACQUIRED, CONNECTION>>

\* Fault: the bits are left to the disconnect event.
ClearOrder_None == << >>

ClearOrder == <<CONNECTION, IP_ACQUIRED>>

GotoClear ==
    /\ clears' = ClearOrder
    /\ Goto("clear")
    /\ UNCHANGED loaded

\* sl_WlanDisconnect answers 0 when there is a link, and reports its end.
Disconnect ==
    /\ From("disconnect")
    /\ IF CONNECTION \in status /\ nwp.link = "up"
       THEN /\ nwp' = [nwp EXCEPT !.link = "idle", !.ip = FALSE]
            /\ Report("disconnect")
            /\ Goto("awaitDown") /\ SameClears
       ELSE GotoClear /\ UNCHANGED <<nwp, events>>
    /\ SameClock
    /\ UNCHANGED <<status, losses, history>>

AwaitDown ==
    /\ From("awaitDown") /\ CONNECTION \notin status
    /\ GotoClear
    /\ SameClock
    /\ UNCHANGED <<status, device, history>>

LoadStatus ==
    /\ From("clear") /\ clears # << >>
    /\ loaded' = status
    /\ Goto("store")
    /\ UNCHANGED clears
    /\ SameClock
    /\ UNCHANGED <<status, device, history>>

StoreStatus ==
    /\ From("store")
    /\ status' = loaded \ {Head(clears)}
    /\ clears' = Tail(clears) /\ loaded' = {}
    /\ Goto("clear")
    /\ SameClock
    /\ UNCHANGED <<device, history>>

Cleared ==
    /\ From("clear") /\ clears = << >>
    /\ Goto(IF attempt = 0 THEN "connect" ELSE "ask")
    /\ SameClears /\ SameClock
    /\ UNCHANGED <<status, device, history>>

-----------------------------------------------------------------------------
(***************************************************************************)
(* The rest of Network_IF_ConnectAP.                                       *)
(***************************************************************************)

\* What the user may type before the end of the line.
Lines == {"nothing", "spaces", "too much", "a name"}

\* uart_term.c: the length of the line, -1 when it does not fit the buffer; and the
\* length of what is left when the spaces at both ends are gone.
GetCmd(line) == CASE line = "nothing" -> 0 [] line = "too much" -> -1 [] OTHER -> 1

TrimSpace(line) == IF line = "spaces" THEN 0 ELSE 1

\* A line that is no name makes it ask again.
Ask ==
    /\ From("ask") /\ attempt <= MaxRetries
    /\ \E line \in Lines : GetCmd(line) > 0 /\ TrimSpace(line) > 0
    /\ usConnTimeout' = g_usConnectIndex + RETRY_WAIT
    /\ Goto("connect")
    /\ SameClears
    /\ UNCHANGED <<g_usConnectIndex, status, device, history>>

\* sl_WlanConnect: the NWP leaves the access point it may still be linked to.
Connect ==
    /\ From("connect")
    /\ \/ /\ Goto("failed")
          /\ UNCHANGED <<nwp, events, attempt, answered>>
       \/ /\ Goto(IF attempt = 0 THEN "wait1" ELSE "wait2")
          /\ attempt' = attempt + 1 /\ answered' = FALSE
          /\ nwp' = NWP("sta", "trying", attempt')
          /\ IF nwp.link = "up" THEN Report("disconnect") ELSE UNCHANGED events
    /\ SameClears /\ SameClock
    /\ UNCHANGED <<status, losses, told, late>>

\* The loop for the first access point looks at the bits after every second of
\* its time, the one for the others before every second.
Wait1 ==
    /\ From("wait1")
    /\ IF g_usConnectIndex < FIRST_WAIT /\ ~Online(status)
       THEN g_usConnectIndex' = g_usConnectIndex + 1 /\ Goto("wait1")
       ELSE Goto("test") /\ UNCHANGED g_usConnectIndex
    /\ SameClears
    /\ UNCHANGED <<usConnTimeout, status, device, history>>

Wait2 ==
    /\ From("wait2")
    /\ IF g_usConnectIndex < usConnTimeout /\ ~Online(status)
       THEN g_usConnectIndex' = g_usConnectIndex + 1 /\ Goto("wait2")
       ELSE Goto("test") /\ UNCHANGED g_usConnectIndex
    /\ SameClears
    /\ UNCHANGED <<usConnTimeout, status, device, history>>

Test ==
    /\ From("test")
    /\ Goto(IF Online(status) THEN "online" ELSE "disconnect")
    /\ SameClears /\ SameClock
    /\ UNCHANGED <<status, device, history>>

\* Network_IF_IpConfigGet.
IpConfigGet ==
    /\ From("online")
    /\ Goto("done") \/ Goto("failed")
    /\ SameClears /\ SameClock
    /\ UNCHANGED <<status, device, history>>

\* What mainThread does without the user.
Drive ==
    \/ StartDriver \/ SetMode \/ RestartDriver
    \/ Disconnect \/ AwaitDown \/ LoadStatus \/ StoreStatus \/ Cleared
    \/ Connect \/ Wait1 \/ Wait2 \/ Test \/ IpConfigGet

NetNext == Drive \/ Ask \/ HandleEvent \/ Network

\* The SimpleLink task has the highest priority, and mainThread polls with a sleep:
\* neither is kept from running for ever.  Nothing makes the user answer.
NetFairness == WF_netVars(Drive) /\ WF_netVars(HandleEvent)

NetSpec == NetInit /\ [][NetNext]_netVars /\ NetFairness

-----------------------------------------------------------------------------
(***************************************************************************)
(* Properties.                                                             *)
(***************************************************************************)
NWPs == [role : {"off", "sta", "ap"}, link : {"idle", "trying", "up"},
         ip : BOOLEAN, attempt : Nat]

EventIds == {"connect", "disconnect", "ip acquired",
             "sta added", "sta removed", "dhcp leased", "dhcp released"}

Events == [id : EventIds, attempt : Nat]

NetTypeOK ==
    /\ status \subseteq StatusBits /\ told \subseteq StatusBits /\ loaded \subseteq StatusBits
    /\ netpc \in {"start", "setMode", "restart", "disconnect", "awaitDown", "clear", "store",
                  "ask", "connect", "wait1", "wait2", "test", "online", "done", "failed", "hung"}
    /\ clears \in {<< >>, <<CONNECTION>>, <<IP_ACQUIRED>>, ClearOrder}
    /\ g_usConnectIndex \in Nat /\ usConnTimeout \in Nat
    /\ nwp \in NWPs
    /\ events \in Seq(Events)
    /\ losses \in 0..MaxLosses /\ attempt \in 0..(MaxRetries + 1)
    /\ answered \in BOOLEAN /\ late \in BOOLEAN

\* When the wait loops of Network_IF_ConnectAP see both bits, the events handled so
\* far say that the rover has a link and an address: a clear that overwrites what a
\* handler did in the meantime never leaves the address bit of a link that is gone.
BothBitsMeanOnline ==
    netpc \in {"wait1", "wait2", "test"} /\ Online(status) => Online(told)

\* Network_IF_ConnectAP reports a connection to the access point it was told of last
\* only when that one has answered, or an earlier one did after it was given up: then
\* DisconnectFromAP saw no connection to end.
ConnectedAsAsked == netpc \in {"online", "done"} => answered \/ late

\* The start-up ends, waits for the user, or is in the loop that stands for a failed
\* start: Network_IF_DisconnectFromAP never waits for a disconnect that does not come.
StartUpEndsOrAsks == []<>(netpc \in {"ask", "done", "failed", "hung"})
=============================================================================
