--------------------------- MODULE CloudLinkProofs ---------------------------
(***************************************************************************)
(* The life of the connection for any waiting times, any number of         *)
(* retries, lost links, teams and messages, and any queue size: first the  *)
(* WLAN alone (NetworkIf.tla), then with the threads of the cloud          *)
(* (CloudLink.tla), which leave it as it is.                               *)
(***************************************************************************)
EXTENDS CloudLink, TLAPS, SequenceTheorems, FiniteSetTheorems

-----------------------------------------------------------------------------
(***************************************************************************)
(* The WLAN.  The status word itself says little: a clear overwrites what  *)
(* a handler did since its read.  The proof goes round it.                 *)
(*    LinkStory   what the NWP has reported but the handlers have not seen *)
(*                leads, step by step, from the bits told so far to the    *)
(*                link as it is.  So an address is only ever told of a     *)
(*                link that was told before.                               *)
(*    AddressInv  from the clear of the address bit on, the word has that  *)
(*                bit only with the events: what the two clears got wrong  *)
(*                about the other bit no longer matters.                   *)
(*    AnswerInv   from the clear of the connection bit on, that bit is the *)
(*                work of an answer: one that came late while mainThread   *)
(*                was still clearing or asking, either kind later.         *)
(***************************************************************************)

\* The bits that an event leaves told.
LinkBits(id) ==
    CASE id = "connect"     -> {CONNECTION}
      [] id = "ip acquired" -> {CONNECTION, IP_ACQUIRED}
      [] OTHER              -> {}

\* The bits that tell of the link as it is.
LinkNow == IF nwp.link # "up" THEN {} ELSE IF nwp.ip THEN {CONNECTION, IP_ACQUIRED}
                                                     ELSE {CONNECTION}

\* What may be reported after the bits.
Follows(bits, id) ==
    \/ id = "connect" /\ bits = {}
    \/ id = "ip acquired" /\ bits = {CONNECTION}
    \/ id = "disconnect" /\ CONNECTION \in bits

\* The bits told when the n-th of the waiting events is next.
BitsBefore(n) == IF n = 1 THEN told ELSE LinkBits(events[n - 1].id)

LinkStory ==
    /\ told \in {{}, {CONNECTION}, {CONNECTION, IP_ACQUIRED}}
    /\ \A n \in 1..Len(events) : Follows(BitsBefore(n), events[n].id)
    /\ BitsBefore(Len(events) + 1) = LinkNow

\* From the first call of Network_IF_DisconnectFromAP on the NWP is a station.
StationPcs == {"disconnect", "awaitDown", "clear", "store", "ask", "connect",
               "wait1", "wait2", "test", "online", "done"}

Station == nwp.role = "sta" /\ (nwp.ip => nwp.link = "up")

StationInv == netpc \in StationPcs => Station /\ LinkStory

\* How many bits are left to clear, and how many attempts may be left.
CourseInv ==
    /\ netpc = "start" => nwp = NWP("off", "idle", 0) /\ events = << >> /\ told = {}
    /\ netpc = "clear" => clears \in {ClearOrder, <<IP_ACQUIRED>>, << >>}
    /\ netpc = "store" => clears \in {ClearOrder, <<IP_ACQUIRED>>}
    /\ netpc = "connect" => attempt <= MaxRetries

AddressCleared ==
    \/ netpc = "clear" /\ clears = << >>
    \/ netpc \in {"ask", "connect", "wait1", "wait2", "test"}

AddressInv == AddressCleared /\ IP_ACQUIRED \in status => IP_ACQUIRED \in told

ConnectionCleared ==
    \/ netpc \in {"clear", "store"} /\ clears # ClearOrder
    \/ netpc \in {"ask", "connect"}

AnswerInv ==
    /\ ConnectionCleared /\ CONNECTION \in status => late
    /\ netpc = "store" /\ clears # ClearOrder /\ CONNECTION \in loaded => late
    /\ netpc \in {"wait1", "wait2", "test"} /\ CONNECTION \in status => answered \/ late
    /\ netpc \in {"online", "done"} => answered \/ late

\* The inductive invariant of the start-up.
NetInv == NetTypeOK /\ StationInv /\ CourseInv /\ AddressInv /\ AnswerInv

-----------------------------------------------------------------------------
(***************************************************************************)
(* Types.                                                                  *)
(***************************************************************************)

LEMMA EventType ==
    ASSUME NetTypeOK, NEW id \in EventIds, Report(id)
    PROVE  events' \in Seq(Events)
<1>1. nwp.attempt \in Nat
    BY DEF NetTypeOK, NWPs
<1>2. Event(id, nwp.attempt) \in Events
    BY <1>1 DEF Event, Events
<1>3. events \in Seq(Events) /\ events' = Append(events, Event(id, nwp.attempt))
    BY DEF NetTypeOK, Report
<1>. QED
    BY <1>2, <1>3, AppendProperties

\* A handled event leaves a word of status bits.
LEMMA AfterType ==
    ASSUME NEW id, NEW bits \in SUBSET StatusBits
    PROVE  After(id, bits) \subseteq StatusBits
<1>1. Sets(id) \subseteq StatusBits
    BY DEF Sets, StatusBits
<1>. QED
    BY <1>1 DEF After

LEMMA NWPType ==
    ASSUME NEW role \in {"off", "sta", "ap"}, NEW up \in {"idle", "trying", "up"}, NEW a \in Nat
    PROVE  NWP(role, up, a) \in NWPs
BY DEF NWP, NWPs

LEMMA NetInitTypes == NetInit => NetTypeOK
<1>. SUFFICES ASSUME NetInit PROVE NetTypeOK
    OBVIOUS
<1>1. events \in Seq(Events)
    BY EmptySeq DEF NetInit
<1>2. nwp \in NWPs
    BY NWPType DEF NetInit
<1>3. losses \in 0..MaxLosses /\ attempt \in 0..(MaxRetries + 1)
    BY NetworkAssumption DEF NetInit
<1>4. status = {} /\ told = {} /\ loaded = {} /\ netpc = "start" /\ clears = << >>
      /\ g_usConnectIndex \in Nat /\ usConnTimeout \in Nat
      /\ answered \in BOOLEAN /\ late \in BOOLEAN
    BY DEF NetInit
<1>. QED
    BY <1>1, <1>2, <1>3, <1>4 DEF NetTypeOK

LEMMA PowerUpType ==
    ASSUME NEW role \in {"sta", "ap"}, PowerUp(role)
    PROVE  nwp' \in NWPs /\ nwp'.role = role /\ nwp'.link # "up" /\ ~nwp'.ip
<1>1. PICK up \in {"idle", "trying"} : nwp' = NWP(role, up, 0)
    BY DEF PowerUp
<1>2. NWP(role, up, 0) \in NWPs
    BY NWPType
<1>. QED
    BY <1>1, <1>2 DEF NWP

LEMMA NetworkTypes ==
    ASSUME NetTypeOK, Network
    PROVE  NetTypeOK'
<1>1. UNCHANGED <<status, progress, history>>
    BY DEF Network, Associate, AcquireIp, LinkLost, StationEvent
<1>2. events' \in Seq(Events)
    <2>1. CASE Associate \/ AcquireIp \/ LinkLost
        <3>1. Report("connect") \/ Report("ip acquired") \/ Report("disconnect")
            BY <2>1 DEF Associate, AcquireIp, LinkLost
        <3>. QED
            BY <3>1, EventType DEF EventIds
    <2>2. CASE StationEvent
        <3>1. PICK id \in {"ip acquired", "sta added", "dhcp leased", "dhcp released",
                           "sta removed"} : Report(id)
            BY <2>2 DEF StationEvent
        <3>. QED
            BY <3>1, EventType DEF EventIds
    <2>. QED
        BY <2>1, <2>2 DEF Network
<1>3. nwp' \in NWPs
    <2>1. nwp \in NWPs
        BY DEF NetTypeOK
    <2>2. \/ nwp' = [nwp EXCEPT !.link = "up"] \/ nwp' = [nwp EXCEPT !.ip = TRUE]
          \/ nwp' = [nwp EXCEPT !.link = "idle", !.ip = FALSE] \/ nwp' = nwp
        BY DEF Network, Associate, AcquireIp, LinkLost, StationEvent
    <2>. QED
        BY <2>1, <2>2 DEF NWPs
<1>4. losses' \in 0..MaxLosses
    <2>1. losses \in 0..MaxLosses
        BY DEF NetTypeOK
    <2>2. losses' = losses \/ (losses < MaxLosses /\ losses' = losses + 1)
        BY DEF Network, Associate, AcquireIp, LinkLost, StationEvent
    <2>. QED
        BY <2>1, <2>2, NetworkAssumption
<1>. QED
    BY <1>1, <1>2, <1>3, <1>4 DEF NetTypeOK, progress, history

LEMMA HandleTypes ==
    ASSUME NetTypeOK, HandleEvent
    PROVE  NetTypeOK'
<1>1. status' \subseteq StatusBits /\ told' \subseteq StatusBits
    BY AfterType DEF HandleEvent, NetTypeOK
<1>2. events' \in Seq(Events)
    <2>1. events \in Seq(Events) /\ events # << >> /\ events' = Tail(events)
        BY DEF HandleEvent, NetTypeOK
    <2>. QED
        BY <2>1, HeadTailProperties
<1>3. answered' \in BOOLEAN /\ late' \in BOOLEAN
    BY DEF HandleEvent, NetTypeOK
<1>4. UNCHANGED <<progress, nwp, losses, attempt>>
    BY DEF HandleEvent
<1>. QED
    BY <1>1, <1>2, <1>3, <1>4 DEF NetTypeOK, progress

\* What mainThread itself keeps.
ProgressTypes ==
    /\ netpc \in {"start", "setMode", "restart", "disconnect", "awaitDown", "clear", "store",
                  "ask", "connect", "wait1", "wait2", "test", "online", "done", "failed", "hung"}
    /\ clears \in {<< >>, <<CONNECTION>>, <<IP_ACQUIRED>>, ClearOrder}
    /\ loaded \subseteq StatusBits
    /\ g_usConnectIndex \in Nat /\ usConnTimeout \in Nat

LEMMA DriveProgress ==
    ASSUME NetTypeOK, CourseInv, Drive \/ Ask
    PROVE  ProgressTypes'
<1>. USE DEF ProgressTypes, NetTypeOK, From, Goto, SameClears, SameClock
<1>1. CASE StartDriver \/ SetMode \/ RestartDriver
    BY <1>1 DEF StartDriver, SetMode, RestartDriver
<1>2. CASE Disconnect \/ AwaitDown
    BY <1>2 DEF Disconnect, AwaitDown, GotoClear
<1>3. CASE LoadStatus \/ Cleared
    BY <1>3 DEF LoadStatus, Cleared
<1>4. CASE StoreStatus
    <2>1. clears' \in {<< >>, <<IP_ACQUIRED>>}
        <3>1. clears \in {ClearOrder, <<IP_ACQUIRED>>} /\ clears' = Tail(clears)
            BY <1>4 DEF StoreStatus, CourseInv
        <3>2. Tail(<<CONNECTION, IP_ACQUIRED>>) = <<IP_ACQUIRED>> /\ Tail(<<IP_ACQUIRED>>) = << >>
            OBVIOUS
        <3>. QED
            BY <3>1, <3>2 DEF ClearOrder
    <2>. QED
        BY <1>4, <2>1 DEF StoreStatus
<1>5. CASE Ask
    BY <1>5, NetworkAssumption DEF Ask
<1>6. CASE Connect \/ Test \/ IpConfigGet
    BY <1>6 DEF Connect, Test, IpConfigGet
<1>7. CASE Wait1 \/ Wait2
    BY <1>7 DEF Wait1, Wait2
<1>. QED
    BY <1>1, <1>2, <1>3, <1>4, <1>5, <1>6, <1>7 DEF Drive

\* What it changes by its calls of the NWP.
LEMMA DriveDevice ==
    ASSUME NetTypeOK, CourseInv, Drive \/ Ask
    PROVE  nwp' \in NWPs /\ events' \in Seq(Events) /\ attempt' \in 0..(MaxRetries + 1)
<1>. DEFINE Quiet == SetMode \/ AwaitDown \/ LoadStatus \/ StoreStatus \/ Cleared \/ Ask
                     \/ Wait1 \/ Wait2 \/ Test \/ IpConfigGet
<1>1. CASE Quiet
    BY <1>1 DEF SetMode, AwaitDown, LoadStatus, StoreStatus, Cleared, Ask, Wait1, Wait2, Test,
                IpConfigGet, device, history, NetTypeOK
<1>2. CASE StartDriver \/ RestartDriver
    <2>1. events' \in Seq(Events) /\ attempt' = attempt
        BY <1>2, EmptySeq DEF StartDriver, RestartDriver, NetTypeOK, history
    <2>2. nwp' = nwp \/ PowerUp("sta") \/ PowerUp("ap") \/ nwp' = NWP("off", "idle", 0)
        BY <1>2 DEF StartDriver, RestartDriver
    <2>3. nwp' \in NWPs
        BY <2>2, PowerUpType, NWPType DEF NetTypeOK
    <2>. QED
        BY <2>1, <2>3 DEF NetTypeOK
<1>3. CASE Disconnect
    <2>1. \/ nwp' = nwp /\ events' = events
          \/ nwp' = [nwp EXCEPT !.link = "idle", !.ip = FALSE] /\ Report("disconnect")
        BY <1>3 DEF Disconnect
    <2>2. nwp' \in NWPs
        BY <2>1 DEF NetTypeOK, NWPs
    <2>3. events' \in Seq(Events)
        <3>1. events \in Seq(Events)
            BY DEF NetTypeOK
        <3>. QED
            BY <2>1, <3>1, EventType DEF EventIds
    <2>. QED
        BY <1>3, <2>2, <2>3 DEF Disconnect, NetTypeOK, history
<1>4. CASE Connect
    <2>1. attempt \in Nat /\ attempt <= MaxRetries
        BY <1>4, NetworkAssumption DEF Connect, CourseInv, NetTypeOK, From
    <2>2. attempt' \in 0..(MaxRetries + 1) /\ attempt' \in Nat
        BY <1>4, <2>1, NetworkAssumption DEF Connect
    <2>3. nwp' = nwp \/ nwp' = NWP("sta", "trying", attempt')
        BY <1>4 DEF Connect
    <2>4. nwp' \in NWPs
        BY <2>2, <2>3, NWPType DEF NetTypeOK
    <2>5. events' = events \/ Report("disconnect")
        BY <1>4 DEF Connect
    <2>6. events' \in Seq(Events)
        <3>1. events \in Seq(Events)
            BY DEF NetTypeOK
        <3>. QED
            BY <2>5, <3>1, EventType DEF EventIds
    <2>. QED
        BY <2>2, <2>4, <2>6
<1>. QED
    BY <1>1, <1>2, <1>3, <1>4 DEF Drive

LEMMA DriveTypes ==
    ASSUME NetTypeOK, CourseInv, Drive \/ Ask
    PROVE  NetTypeOK'
<1>1. losses' = losses /\ late' = late
    BY DEF Drive, Ask, StartDriver, SetMode, RestartDriver, Disconnect, AwaitDown, LoadStatus,
           StoreStatus, Cleared, Connect, Wait1, Wait2, Test, IpConfigGet, device, history
<1>2. status' = status \/ status' \subseteq loaded
    BY DEF Drive, Ask, StartDriver, SetMode, RestartDriver, Disconnect, AwaitDown, LoadStatus,
           StoreStatus, Cleared, Connect, Wait1, Wait2, Test, IpConfigGet
<1>3. told' = told \/ told' = {}
    BY DEF Drive, Ask, StartDriver, SetMode, RestartDriver, Disconnect, AwaitDown, LoadStatus,
           StoreStatus, Cleared, Connect, Wait1, Wait2, Test, IpConfigGet, history
<1>4. answered' = answered \/ answered' = FALSE
    BY DEF Drive, Ask, StartDriver, SetMode, RestartDriver, Disconnect, AwaitDown, LoadStatus,
           StoreStatus, Cleared, Connect, Wait1, Wait2, Test, IpConfigGet, history
<1>5. answered' \in BOOLEAN
    BY <1>4 DEF NetTypeOK
<1>. QED
    BY <1>1, <1>2, <1>3, <1>5, DriveProgress, DriveDevice DEF NetTypeOK, ProgressTypes

LEMMA NetTypes == NetTypeOK /\ CourseInv /\ [NetNext]_netVars => NetTypeOK'
<1>. SUFFICES ASSUME NetTypeOK, CourseInv, [NetNext]_netVars PROVE NetTypeOK'
    OBVIOUS
<1>1. CASE UNCHANGED netVars
    BY <1>1 DEF netVars, progress, device, history, NetTypeOK
<1>. QED
    BY <1>1, NetworkTypes, HandleTypes, DriveTypes DEF NetNext

-----------------------------------------------------------------------------
(***************************************************************************)
(* The link and what is told of it.                                        *)
(***************************************************************************)

\* Nothing is reported and the link is no other.
LEMMA StoryKept ==
    ASSUME LinkStory, told' = told, events' = events, LinkNow' = LinkNow
    PROVE  LinkStory'
BY DEF LinkStory, BitsBefore

\* The NWP forgets its reports and starts without a link.
LEMMA StoryNew ==
    ASSUME told' = {}, events' = << >>, nwp'.link # "up"
    PROVE  LinkStory'
BY DEF LinkStory, BitsBefore, LinkNow

\* The link changes and the NWP reports how.
LEMMA StoryReport ==
    ASSUME NetTypeOK, LinkStory, NEW id, Report(id), told' = told,
           Follows(LinkNow, id), LinkNow' = LinkBits(id)
    PROVE  LinkStory'
<1>. DEFINE e == Event(id, nwp.attempt)
            L == Len(events)
<1>1. events \in Seq(Events) /\ events' = Append(events, e)
    BY DEF NetTypeOK, Report
<1>2. /\ L \in Nat /\ Len(events') = L + 1 /\ events'[L + 1] = e
      /\ \A n \in 1..L : events'[n] = events[n]
    BY <1>1
<1>3. e.id = id
    BY DEF Event
<1>. HIDE DEF e
<1>4. \A n \in 1..(L + 1) : BitsBefore(n)' = BitsBefore(n)
    BY <1>2 DEF BitsBefore
<1>5. \A n : n = L + 2 => BitsBefore(n)' = LinkBits(id)
    BY <1>2, <1>3 DEF BitsBefore
<1>6. ASSUME NEW n \in 1..Len(events') PROVE Follows(BitsBefore(n)', events'[n].id)
    <2>1. CASE n = L + 1
        BY <1>2, <1>3, <1>4, <2>1 DEF LinkStory
    <2>2. CASE n \in 1..L
        BY <1>2, <1>4, <2>2 DEF LinkStory
    <2>. QED
        BY <1>2, <2>1, <2>2
<1>7. BitsBefore(Len(events) + 1)' = LinkNow'
    <2>1. (Len(events) + 1)' = L + 2
        BY <1>2
    <2>. QED
        BY <1>5, <2>1
<1>8. told' \in {{}, {CONNECTION}, {CONNECTION, IP_ACQUIRED}}
    BY DEF LinkStory
<1>. QED
    BY <1>6, <1>7, <1>8 DEF LinkStory, Follows

\* The bits told after an event of the link are the ones it leaves.
LEMMA ToldBits ==
    ASSUME NEW bits \in {{}, {CONNECTION}, {CONNECTION, IP_ACQUIRED}}, NEW id, Follows(bits, id)
    PROVE  /\ After(id, bits) = LinkBits(id)
           /\ LinkBits(id) \in {{}, {CONNECTION}, {CONNECTION, IP_ACQUIRED}}
<1>. USE DEF CONNECTION, IP_ACQUIRED, IP_LEASED
<1>1. CASE id = "connect" /\ bits = {}
    BY <1>1 DEF After, Sets, Clears, LinkBits
<1>2. CASE id = "ip acquired" /\ bits = {CONNECTION}
    BY <1>2 DEF After, Sets, Clears, LinkBits
<1>3. CASE id = "disconnect"
    BY <1>3 DEF After, Sets, Clears, LinkBits
<1>. QED
    BY <1>1, <1>2, <1>3 DEF Follows

\* The next event is handled.
LEMMA StoryHandled ==
    ASSUME NetTypeOK, LinkStory, HandleEvent
    PROVE  LinkStory'
<1>. DEFINE L == Len(events)
            e == events[1]
<1>1. events \in Seq(Events) /\ events # << >> /\ events' = Tail(events) /\ Head(events) = e
    BY DEF NetTypeOK, HandleEvent
<1>2. /\ L \in Nat \ {0} /\ Len(events') = L - 1
      /\ \A n \in 1..(L - 1) : events'[n] = events[n + 1]
    BY <1>1
<1>3. Follows(told, e.id)
    BY <1>2 DEF LinkStory, BitsBefore
<1>4. told' = After(e.id, told)
    BY <1>1 DEF HandleEvent
<1>5. told' = LinkBits(e.id) /\ told' \in {{}, {CONNECTION}, {CONNECTION, IP_ACQUIRED}}
    BY <1>3, <1>4, ToldBits DEF LinkStory
<1>6. \A n \in 1..L : BitsBefore(n)' = BitsBefore(n + 1)
    <2>. SUFFICES ASSUME NEW n \in 1..L PROVE BitsBefore(n)' = BitsBefore(n + 1)
        OBVIOUS
    <2>1. CASE n = 1
        BY <1>5, <2>1 DEF BitsBefore
    <2>2. CASE n # 1
        <3>1. n - 1 \in 1..(L - 1) /\ (n - 1) + 1 = (n + 1) - 1 /\ n + 1 # 1
            BY <1>2, <2>2
        <3>. QED
            BY <1>2, <2>2, <3>1 DEF BitsBefore
    <2>. QED
        BY <2>1, <2>2
<1>7. ASSUME NEW n \in 1..Len(events') PROVE Follows(BitsBefore(n)', events'[n].id)
    <2>1. n + 1 \in 1..L /\ n \in 1..L
        BY <1>2
    <2>2. Follows(BitsBefore(n + 1), events[n + 1].id)
        BY <2>1 DEF LinkStory
    <2>. QED
        BY <1>2, <1>6, <2>1, <2>2
<1>8. BitsBefore(Len(events) + 1)' = LinkNow'
    <2>1. LinkNow' = LinkNow
        BY DEF HandleEvent, LinkNow
    <2>2. (Len(events) + 1)' = L /\ L \in 1..L
        BY <1>2
    <2>. QED
        BY <1>6, <2>1, <2>2 DEF LinkStory
<1>. QED
    BY <1>5, <1>7, <1>8 DEF LinkStory, Follows

LEMMA StationStep ==
    ASSUME NetTypeOK, CourseInv, StationInv, [NetNext]_netVars
    PROVE  StationInv'
<1>. USE DEF From, Goto, Station
<1>1. CASE \/ SetMode \/ AwaitDown \/ LoadStatus \/ StoreStatus \/ Cleared \/ Ask
           \/ Wait1 \/ Wait2 \/ Test \/ IpConfigGet \/ UNCHANGED netVars
    <2>1. UNCHANGED <<nwp, events, told>>
        BY <1>1 DEF SetMode, AwaitDown, LoadStatus, StoreStatus, Cleared, Ask, Wait1, Wait2,
                    Test, IpConfigGet, netVars, device, history
    <2>2. netpc' \in StationPcs => netpc \in StationPcs
        BY <1>1 DEF SetMode, AwaitDown, LoadStatus, StoreStatus, Cleared, Ask, Wait1, Wait2,
                    Test, IpConfigGet, netVars, progress, StationPcs
    <2>3. LinkNow' = LinkNow
        BY <2>1 DEF LinkNow
    <2>. QED
        BY <2>1, <2>2, <2>3, StoryKept DEF StationInv
<1>2. CASE StartDriver
    <2>. SUFFICES ASSUME netpc' \in StationPcs PROVE Station' /\ LinkStory'
        BY DEF StationInv
    <2>1. PowerUp("sta")
        BY <1>2 DEF StartDriver, StationPcs
    <2>2. events' = << >> /\ told' = {}
        BY <1>2 DEF StartDriver, CourseInv, history
    <2>. QED
        BY <2>1, <2>2, PowerUpType, StoryNew
<1>3. CASE RestartDriver
    <2>. SUFFICES ASSUME netpc' \in StationPcs PROVE Station' /\ LinkStory'
        BY DEF StationInv
    <2>1. PowerUp("sta")
        BY <1>3 DEF RestartDriver, StationPcs
    <2>2. events' = << >> /\ told' = {}
        BY <1>3 DEF RestartDriver
    <2>. QED
        BY <2>1, <2>2, PowerUpType, StoryNew
<1>4. CASE HandleEvent
    <2>1. netpc' = netpc /\ nwp' = nwp
        BY <1>4 DEF HandleEvent, progress
    <2>. QED
        BY <1>4, <2>1, StoryHandled DEF StationInv
<1>5. ASSUME Network \/ Disconnect, netpc \in StationPcs
      PROVE  Station' /\ LinkStory'
    <2>1. LinkStory /\ Station /\ nwp \in NWPs /\ told' = told
        BY <1>5 DEF StationInv, NetTypeOK, Network, Associate, AcquireIp, LinkLost, StationEvent,
                    Disconnect, history
    <2>2. CASE Associate
        <3>1. Follows(LinkNow, "connect") /\ LinkNow' = LinkBits("connect")
            BY <2>1, <2>2 DEF Associate, LinkNow, LinkBits, Follows, NWPs
        <3>. QED
            BY <2>1, <2>2, <3>1, StoryReport DEF Associate, NWPs
    <2>3. CASE AcquireIp
        <3>1. Follows(LinkNow, "ip acquired") /\ LinkNow' = LinkBits("ip acquired")
            BY <2>1, <2>3 DEF AcquireIp, LinkNow, LinkBits, Follows, NWPs
        <3>. QED
            BY <2>1, <2>3, <3>1, StoryReport DEF AcquireIp, NWPs
    <2>4. CASE LinkLost \/ (Disconnect /\ nwp' # nwp)
        <3>1. /\ nwp.link = "up" /\ Report("disconnect")
              /\ nwp' = [nwp EXCEPT !.link = "idle", !.ip = FALSE]
            BY <2>4 DEF LinkLost, Disconnect
        <3>2. Follows(LinkNow, "disconnect") /\ LinkNow' = LinkBits("disconnect")
            BY <2>1, <3>1 DEF LinkNow, LinkBits, Follows, NWPs
        <3>. QED
            BY <2>1, <3>1, <3>2, StoryReport DEF NWPs
    <2>5. CASE Disconnect /\ nwp' = nwp
        <3>1. ~(CONNECTION \in status /\ nwp.link = "up")
            BY <2>1, <2>5 DEF Disconnect, NWPs
        <3>2. events' = events /\ LinkNow' = LinkNow
            BY <2>5, <3>1 DEF Disconnect, LinkNow
        <3>. QED
            BY <2>1, <2>5, <3>2, StoryKept
    <2>6. ~StationEvent
        BY <2>1 DEF StationEvent
    <2>. QED
        BY <1>5, <2>2, <2>3, <2>4, <2>5, <2>6 DEF Network
<1>6. CASE Network \/ Disconnect
    <2>1. netpc' \in StationPcs => netpc \in StationPcs
        BY <1>6 DEF Network, Associate, AcquireIp, LinkLost, StationEvent, Disconnect, progress,
                    StationPcs
    <2>. QED
        BY <1>5, <1>6, <2>1 DEF StationInv
<1>7. CASE Connect
    <2>1. LinkStory /\ Station /\ nwp \in NWPs /\ told' = told
        BY <1>7 DEF StationInv, NetTypeOK, StationPcs, Connect
    <2>2. CASE nwp' = nwp /\ events' = events
        BY <2>1, <2>2, StoryKept DEF LinkNow, StationInv
    <2>3. CASE ~(nwp' = nwp /\ events' = events)
        <3>1. nwp' = NWP("sta", "trying", attempt')
              /\ IF nwp.link = "up" THEN Report("disconnect") ELSE UNCHANGED events
            BY <1>7, <2>3 DEF Connect
        <3>2. Station' /\ LinkNow' = {}
            BY <3>1 DEF NWP, LinkNow
        <3>3. CASE nwp.link = "up"
            <4>1. Follows(LinkNow, "disconnect") /\ LinkBits("disconnect") = {}
                BY <3>3 DEF LinkNow, LinkBits, Follows
            <4>. QED
                BY <2>1, <3>1, <3>2, <3>3, <4>1, StoryReport DEF StationInv
        <3>4. CASE nwp.link # "up"
            BY <2>1, <3>1, <3>2, <3>4, StoryKept DEF LinkNow, StationInv
        <3>. QED
            BY <3>3, <3>4
    <2>. QED
        BY <2>2, <2>3
<1>. QED
    BY <1>1, <1>2, <1>3, <1>4, <1>6, <1>7 DEF NetNext, Drive

-----------------------------------------------------------------------------
(***************************************************************************)
(* mainThread and the status word.                                         *)
(***************************************************************************)

\* The handlers and the NWP leave mainThread where it is.
LEMMA OthersLeaveProgress ==
    ASSUME HandleEvent \/ Network
    PROVE  UNCHANGED progress
BY DEF HandleEvent, Network, Associate, AcquireIp, LinkLost, StationEvent

LEMMA CourseStep ==
    ASSUME NetTypeOK, CourseInv, [NetNext]_netVars
    PROVE  CourseInv'
<1>. USE DEF CourseInv, From, Goto, SameClears, SameClock
<1>1. CASE HandleEvent \/ Network
    <2>1. UNCHANGED <<netpc, clears>>
        BY <1>1, OthersLeaveProgress DEF progress
    <2>2. netpc # "start"
        <3>. SUFFICES ASSUME netpc = "start" PROVE FALSE
            OBVIOUS
        <3>1. nwp = NWP("off", "idle", 0) /\ events = << >>
            OBVIOUS
        <3>. QED
            BY <1>1, <3>1 DEF NWP, HandleEvent, Network, Associate, AcquireIp, LinkLost,
                              StationEvent
    <2>3. attempt' = attempt
        BY <1>1 DEF HandleEvent, Network, Associate, AcquireIp, LinkLost, StationEvent, history
    <2>. QED
        BY <2>1, <2>2, <2>3
<1>2. CASE StartDriver \/ SetMode \/ RestartDriver
    BY <1>2 DEF StartDriver, SetMode, RestartDriver
<1>3. CASE Disconnect \/ AwaitDown
    BY <1>3 DEF Disconnect, AwaitDown, GotoClear
<1>4. CASE LoadStatus
    BY <1>4 DEF LoadStatus
<1>5. CASE StoreStatus
    <2>1. Tail(<<CONNECTION, IP_ACQUIRED>>) = <<IP_ACQUIRED>> /\ Tail(<<IP_ACQUIRED>>) = << >>
        OBVIOUS
    <2>. QED
        BY <1>5, <2>1 DEF StoreStatus, ClearOrder
<1>6. CASE Cleared \/ Ask
    BY <1>6, NetworkAssumption DEF Cleared, Ask, history
<1>7. CASE Connect \/ Wait1 \/ Wait2 \/ Test \/ IpConfigGet
    BY <1>7 DEF Connect, Wait1, Wait2, Test, IpConfigGet
<1>8. CASE UNCHANGED netVars
    BY <1>8 DEF netVars, progress, device, history
<1>. QED
    BY <1>1, <1>2, <1>3, <1>4, <1>5, <1>6, <1>7, <1>8 DEF NetNext, Drive

\* From the clear of the address bit on only the handlers touch the word.
LEMMA AddressStep ==
    ASSUME NetTypeOK, CourseInv, AddressInv, [NetNext]_netVars
    PROVE  AddressInv'
<1>. USE DEF AddressInv, AddressCleared, From, Goto
<1>1. CASE HandleEvent
    <2>1. UNCHANGED <<netpc, clears>>
        BY <1>1, OthersLeaveProgress DEF progress
    <2>2. PICK id : status' = After(id, status) /\ told' = After(id, told)
        BY <1>1 DEF HandleEvent
    <2>. QED
        BY <2>1, <2>2 DEF After
<1>2. CASE Network
    <2>1. UNCHANGED <<netpc, clears>>
        BY <1>2, OthersLeaveProgress DEF progress
    <2>2. UNCHANGED <<status, told>>
        BY <1>2 DEF Network, Associate, AcquireIp, LinkLost, StationEvent, history
    <2>. QED
        BY <2>1, <2>2
<1>3. CASE StartDriver \/ SetMode \/ RestartDriver
    BY <1>3 DEF StartDriver, SetMode, RestartDriver
<1>4. CASE Disconnect \/ AwaitDown
    <2>1. netpc' = "awaitDown" \/ (netpc' = "clear" /\ clears' = <<CONNECTION, IP_ACQUIRED>>)
        BY <1>4 DEF Disconnect, AwaitDown, GotoClear, ClearOrder
    <2>. QED
        BY <2>1
<1>5. CASE LoadStatus
    BY <1>5 DEF LoadStatus
<1>6. CASE StoreStatus
    <2>1. Tail(<<CONNECTION, IP_ACQUIRED>>) # << >> /\ Head(<<IP_ACQUIRED>>) = IP_ACQUIRED
        OBVIOUS
    <2>2. clears \in {<<CONNECTION, IP_ACQUIRED>>, <<IP_ACQUIRED>>}
        BY <1>6 DEF StoreStatus, CourseInv, ClearOrder
    <2>. QED
        BY <1>6, <2>1, <2>2 DEF StoreStatus
<1>7. CASE Cleared \/ Ask
    BY <1>7 DEF Cleared, Ask, history
<1>8. CASE Connect \/ Wait1 \/ Wait2 \/ Test \/ IpConfigGet
    BY <1>8 DEF Connect, Wait1, Wait2, Test, IpConfigGet, history
<1>9. CASE UNCHANGED netVars
    BY <1>9 DEF netVars, progress, device, history
<1>. QED
    BY <1>1, <1>2, <1>3, <1>4, <1>5, <1>6, <1>7, <1>8, <1>9 DEF NetNext, Drive

\* An answer that sets the connection bit is remembered by answered or late.
LEMMA AnswerHandled ==
    ASSUME NetTypeOK, StationInv, HandleEvent, netpc \in StationPcs,
           CONNECTION \in status', CONNECTION \notin status
    PROVE  IF GivenUp THEN late' ELSE answered' \/ late'
<1>1. LinkStory /\ events \in Seq(Events) /\ events # << >>
    BY DEF StationInv, NetTypeOK, HandleEvent
<1>2. Head(events) = events[1] /\ 1 \in 1..Len(events)
    BY <1>1
<1>3. Follows(BitsBefore(1), Head(events).id)
    BY <1>1, <1>2 DEF LinkStory
<1>4. CONNECTION \in Sets(Head(events).id)
    BY DEF HandleEvent, After
<1>5. Head(events).id = "connect"
    BY <1>3, <1>4 DEF Follows, Sets, CONNECTION, IP_ACQUIRED, IP_LEASED
<1>. QED
    BY <1>5 DEF HandleEvent

LEMMA AnswerStep ==
    ASSUME NetTypeOK, StationInv, CourseInv, AnswerInv, [NetNext]_netVars
    PROVE  AnswerInv'
<1>. USE DEF AnswerInv, ConnectionCleared, From, Goto
<1>1. CASE HandleEvent
    <2>1. UNCHANGED <<netpc, clears, loaded>> /\ (late => late') /\ (answered => answered')
        BY <1>1, OthersLeaveProgress DEF progress, HandleEvent, NetTypeOK
    <2>2. CASE CONNECTION \in status \/ CONNECTION \notin status'
        BY <2>1, <2>2
    <2>3. CASE CONNECTION \in status' /\ CONNECTION \notin status
        <3>1. netpc \in StationPcs => IF GivenUp THEN late' ELSE answered' \/ late'
            BY <1>1, <2>3, AnswerHandled
        <3>2. CASE ConnectionCleared
            BY <2>1, <3>1, <3>2 DEF StationPcs, GivenUp
        <3>3. CASE netpc \in {"wait1", "wait2", "test"}
            BY <2>1, <3>1, <3>3 DEF StationPcs, GivenUp
        <3>4. CASE ~ConnectionCleared /\ netpc \notin {"wait1", "wait2", "test"}
            BY <2>1, <3>4
        <3>. QED
            BY <3>2, <3>3, <3>4
    <2>. QED
        BY <2>2, <2>3
<1>2. CASE Network
    <2>1. UNCHANGED <<netpc, clears, loaded>>
        BY <1>2, OthersLeaveProgress DEF progress
    <2>2. UNCHANGED <<status, answered, late>>
        BY <1>2 DEF Network, Associate, AcquireIp, LinkLost, StationEvent, history
    <2>. QED
        BY <2>1, <2>2
<1>3. CASE StartDriver \/ SetMode \/ RestartDriver
    BY <1>3 DEF StartDriver, SetMode, RestartDriver
<1>4. CASE Disconnect \/ AwaitDown
    <2>1. netpc' = "awaitDown" \/ (netpc' = "clear" /\ clears' = ClearOrder)
        BY <1>4 DEF Disconnect, AwaitDown, GotoClear
    <2>. QED
        BY <2>1
<1>5. CASE LoadStatus
    BY <1>5 DEF LoadStatus, history
<1>6. CASE StoreStatus
    <2>1. Head(<<CONNECTION, IP_ACQUIRED>>) = CONNECTION
        OBVIOUS
    <2>2. netpc' = "clear" /\ status' = loaded \ {Head(clears)} /\ late' = late
        BY <1>6 DEF StoreStatus, history
    <2>3. CASE clears = ClearOrder
        <3>1. CONNECTION \notin status'
            BY <2>1, <2>2, <2>3 DEF ClearOrder
        <3>. QED
            BY <2>2, <3>1
    <2>4. CASE clears # ClearOrder
        <3>1. CONNECTION \in status' => late'
            BY <1>6, <2>2, <2>4 DEF StoreStatus
        <3>. QED
            BY <2>2, <3>1
    <2>. QED
        BY <2>3, <2>4
<1>7. CASE Cleared \/ Ask
    <2>1. ClearOrder # << >>
        BY DEF ClearOrder
    <2>. QED
        BY <1>7, <2>1 DEF Cleared, Ask, history
<1>8. CASE Connect
    BY <1>8 DEF Connect
<1>9. CASE Wait1 \/ Wait2 \/ Test \/ IpConfigGet
    BY <1>9 DEF Wait1, Wait2, Test, IpConfigGet, history, Online
<1>10. CASE UNCHANGED netVars
    BY <1>10 DEF netVars, progress, device, history
<1>. QED
    BY <1>1, <1>2, <1>3, <1>4, <1>5, <1>6, <1>7, <1>8, <1>9, <1>10 DEF NetNext, Drive

LEMMA NetInitInv == NetInit => NetInv
<1>. SUFFICES ASSUME NetInit PROVE NetInv
    OBVIOUS
<1>1. StationInv /\ CourseInv /\ AddressInv /\ AnswerInv
    BY DEF NetInit, StationInv, StationPcs, CourseInv, AddressInv, AddressCleared, AnswerInv,
           ConnectionCleared
<1>. QED
    BY <1>1, NetInitTypes DEF NetInv

LEMMA NetInvStep == NetInv /\ [NetNext]_netVars => NetInv'
BY NetTypes, StationStep, CourseStep, AddressStep, AnswerStep DEF NetInv

LEMMA NetInvHolds == NetInit /\ [][NetNext]_netVars => []NetInv
BY NetInitInv, NetInvStep, PTL

\* What the invariant is for.
LEMMA NetInvSays == NetInv => BothBitsMeanOnline /\ ConnectedAsAsked
<1>. SUFFICES ASSUME NetInv PROVE BothBitsMeanOnline /\ ConnectedAsAsked
    OBVIOUS
<1>1. BothBitsMeanOnline
    <2>. SUFFICES ASSUME netpc \in {"wait1", "wait2", "test"}, Online(status)
                  PROVE  Online(told)
        BY DEF BothBitsMeanOnline
    <2>1. IP_ACQUIRED \in told
        BY DEF NetInv, AddressInv, AddressCleared, Online
    <2>2. told \in {{}, {CONNECTION}, {CONNECTION, IP_ACQUIRED}}
        BY DEF NetInv, StationInv, StationPcs, LinkStory
    <2>. QED
        BY <2>1, <2>2 DEF Online, CONNECTION, IP_ACQUIRED
<1>2. ConnectedAsAsked
    BY DEF NetInv, AnswerInv, ConnectedAsAsked
<1>. QED
    BY <1>1, <1>2

-----------------------------------------------------------------------------
(***************************************************************************)
(* What Network_IF_ConnectAP and the event handlers guarantee.             *)
(***************************************************************************)

\* For any waiting times, retries and lost links each variable keeps its type; what
\* mainThread still has to clear is always a rest of the order it clears in.
THEOREM NetTypeCorrect == NetSpec => []NetTypeOK
<1>1. NetInv => NetTypeOK
    BY DEF NetInv
<1>. QED
    BY NetInvHolds, <1>1, PTL DEF NetSpec

\* Wherever a handler comes between the read and the write of the two clears, and
\* however often: both bits together are never those of a link that is gone.
THEOREM BothBitsHold == NetSpec => []BothBitsMeanOnline
<1>. QED
    BY NetInvHolds, NetInvSays, PTL DEF NetSpec

\* A start-up that ends with a connection has had an answer to a call of
\* sl_WlanConnect or to the profile, in time or late.
THEOREM ConnectionAnswered == NetSpec => []ConnectedAsAsked
<1>. QED
    BY NetInvHolds, NetInvSays, PTL DEF NetSpec

-----------------------------------------------------------------------------
(***************************************************************************)
(* The threads of the cloud.                                               *)
(***************************************************************************)

\* Where mainThread and MqttClient are, and what each has learnt of the other.
StartInv ==
    /\ mainpc # "link" => /\ netpc \in {"done", "failed"}
                          /\ gApConnectionState = IF netpc = "done" THEN 0 ELSE -1
    /\ mainpc \in {"link", "mqtt start"} => mcpc = "none"
    /\ mcpc \in {"create", "thread", "connect", "subscribe"} => netpc = "done"
    /\ mcpc \in {"thread", "connect", "subscribe"} => gMqttClient
    /\ mcpc \in {"none", "start", "create"} => ~gMqttClient
    /\ mcpc \in {"none", "start", "create", "thread"} => rxpc = "none"
    /\ gMqttClient => netpc = "done"
    /\ mcpc = "loop" /\ ~gMqttClient => netpc = "failed"

SessionInv ==
    /\ mcpc \in {"none", "start", "create", "thread", "connect"} =>
         session = "none" /\ gUiConnFlag = 0
    /\ session = "none" => ~gResetApplication
    /\ session = "up" => ~gResetApplication /\ gUiConnFlag = 1
    /\ mcpc = "subscribe" => session # "none"
    /\ mcpc = "loop" /\ session = "up" => subscribed
    /\ mcpc = "loop" /\ session \in {"none", "closed"} => gUiConnFlag = 0 \/ gResetApplication

\* What the queue holds, and how much of the bounds is used up.
QueueInv ==
    /\ \A n \in DOMAIN queue6 : queue6[n].tag \notin {3, 4}
    /\ requested <= MaxRequested + IF rxpc = "ended" THEN 1 ELSE 0
    /\ received <= stream.events

\* The number v was heard last before the n-th word of the queue q, when the last
\* message counted was number last.
HeardBefore(q, last, n, v) ==
    \/ v = last /\ \A k \in 1..(n - 1) : q[k].tag # 5
    \/ \E k \in 1..(n - 1) : /\ q[k].tag = 5 /\ q[k].val = v
                             /\ \A j \in (k + 1)..(n - 1) : q[j].tag # 5

\* The places of the messages in the queue that will be counted as out of turn.
OutOfTurn(q, last) ==
    {n \in DOMAIN q : /\ q[n].tag = 5 /\ q[n].val # 1
                      /\ \E v \in Nat : HeardBefore(q, last, n, v) /\ q[n].val # v + 1}

\* missed_MSG when the queue is empty again.
WillMiss == counters.missed_MSG + Cardinality(OutOfTurn(queue6, counters.Last_Id))

\* v is the number heard last.
StreamInv(v) ==
    /\ HeardBefore(queue6, counters.Last_Id, Len(queue6) + 1, v)
    /\ stream.from = NoSender =>
         /\ v = 0 /\ WillMiss = 0
         /\ \A s \in Senders : /\ stream.last[s] = 0
                               /\ stream.next[s] > 1 => stream.lost > 0
    /\ stream.from # NoSender =>
         WillMiss + (IF stream.next[stream.from] \in {1, v + 1} THEN 0 ELSE 1)
           <= stream.lost + 2 * stream.repeats + stream.switches
    /\ stream.restarts = 0 =>
         /\ stream.gaps <= WillMiss
         /\ stream.from # NoSender => v <= stream.last[stream.from]

MissedInv == \E v \in Nat : StreamInv(v)

\* What is counted and what waits to be counted.
Counted ==
    /\ counters.count + Waiting(Numbered) = requested
    /\ counters.revCount + Waiting({4}) = received

\* The numbers of a topic, when the last one taken is count.
Issued(s, count) == Increasing(s) /\ \A n \in 1..Len(s) : s[n] <= count

NumbersInv == \A topic \in Topics : Issued(numbers[topic], counters.count)

CloudInv ==
    /\ CloudTypeOK /\ NetInv /\ StartInv /\ SessionInv /\ QueueInv
    /\ Counted /\ NumbersInv /\ MissedInv

-----------------------------------------------------------------------------
(***************************************************************************)
(* Places in a queue: how their number changes when a word goes in at the  *)
(* end or out at the front.                                                *)
(***************************************************************************)

LEMMA PlacesFinite ==
    ASSUME NEW m \in Nat, NEW S \in SUBSET (1..m)
    PROVE  IsFiniteSet(S) /\ Cardinality(S) \in Nat
<1>1. IsFiniteSet(1..m)
    BY FS_Interval
<1>2. IsFiniteSet(S)
    BY <1>1, FS_Subset
<1>. QED
    BY <1>2, FS_CardinalityType

LEMMA OneMorePlace ==
    ASSUME NEW m \in Nat, NEW S \in SUBSET (1..m)
    PROVE  Cardinality(S \cup {m + 1}) = Cardinality(S) + 1
<1>1. m + 1 \notin S
    OBVIOUS
<1>. QED
    BY <1>1, PlacesFinite, FS_AddElement

\* The first place is gone and the others have moved up.
LEMMA PlacesMoveUp ==
    ASSUME NEW m \in Nat, NEW S \in SUBSET (1..(m + 1)), NEW T \in SUBSET (1..m),
           \A n \in 1..m : n \in T <=> n + 1 \in S
    PROVE  Cardinality(S) = Cardinality(T) + IF 1 \in S THEN 1 ELSE 0
<1>. DEFINE U == S \ {1}
            f == [n \in T |-> n + 1]
<1>1. IsFiniteSet(S) /\ IsFiniteSet(T) /\ Cardinality(S) \in Nat /\ Cardinality(T) \in Nat
    BY PlacesFinite
<1>2. IsFiniteSet(U) /\ Cardinality(U) = IF 1 \in S THEN Cardinality(S) - 1 ELSE Cardinality(S)
    BY <1>1, FS_RemoveElement
<1>3. f \in [T -> U]
    <2>. SUFFICES ASSUME NEW n \in T PROVE n + 1 \in U
        OBVIOUS
    <2>1. n \in 1..m
        OBVIOUS
    <2>. QED
        BY <2>1
<1>4. \A a, b \in T : f[a] = f[b] => a = b
    OBVIOUS
<1>5. \A u \in U : \E n \in T : f[n] = u
    <2>. SUFFICES ASSUME NEW u \in U PROVE \E n \in T : f[n] = u
        OBVIOUS
    <2>1. u \in 1..(m + 1) /\ u # 1
        OBVIOUS
    <2>2. u - 1 \in 1..m /\ (u - 1) + 1 = u
        BY <2>1
    <2>3. u - 1 \in T
        BY <2>2
    <2>. QED
        BY <2>2, <2>3
<1>6. f \in Bijection(T, U)
    BY <1>3, <1>4, <1>5 DEF Bijection, Injection, Surjection, IsInjective
<1>7. ExistsBijection(T, U)
    BY <1>6 DEF ExistsBijection
<1>8. Cardinality(U) = Cardinality(T)
    BY <1>1, <1>7, FS_Bijection
<1>. QED
    BY <1>1, <1>2, <1>8

LEMMA WordGoesIn ==
    ASSUME NEW q \in Seq(CloudWords), NEW w \in CloudWords
    PROVE  /\ Append(q, w) \in Seq(CloudWords)
           /\ Len(Append(q, w)) = Len(q) + 1 /\ Len(q) \in Nat
           /\ Append(q, w)[Len(q) + 1] = w
           /\ \A n \in 1..Len(q) : Append(q, w)[n] = q[n]
           /\ DOMAIN q = 1..Len(q) /\ DOMAIN Append(q, w) = 1..(Len(q) + 1)
BY AppendProperties

LEMMA WordGoesOut ==
    ASSUME NEW q \in Seq(CloudWords), q # << >>
    PROVE  /\ Tail(q) \in Seq(CloudWords) /\ Head(q) \in CloudWords /\ Head(q) = q[1]
           /\ Len(q) \in Nat \ {0} /\ Len(Tail(q)) = Len(q) - 1
           /\ \A n \in 1..(Len(q) - 1) : Tail(q)[n] = q[n + 1]
           /\ DOMAIN q = 1..Len(q) /\ DOMAIN Tail(q) = 1..(Len(q) - 1)
<1>1. Tail(q) \in Seq(CloudWords) /\ Head(q) \in CloudWords /\ Len(Tail(q)) = Len(q) - 1
    BY HeadTailProperties
<1>2. Len(q) \in Nat \ {0} /\ Head(q) = q[1]
    OBVIOUS
<1>3. \A n \in 1..(Len(q) - 1) : Tail(q)[n] = q[n + 1]
    OBVIOUS
<1>4. DOMAIN q = 1..Len(q) /\ DOMAIN Tail(q) = 1..(Len(q) - 1)
    BY <1>1, LenProperties
<1>. QED
    BY <1>1, <1>2, <1>3, <1>4

\* How many words of some types there are.
LEMMA WaitingType ==
    ASSUME NEW q \in Seq(CloudWords), NEW types
    PROVE  Cardinality(Places(q, types)) \in Nat
<1>1. Len(q) \in Nat /\ Places(q, types) \in SUBSET (1..Len(q))
    BY DEF Places
<1>. QED
    BY <1>1, PlacesFinite

LEMMA OneMoreWaiting ==
    ASSUME NEW q \in Seq(CloudWords), NEW w \in CloudWords, NEW types
    PROVE  Cardinality(Places(Append(q, w), types))
             = Cardinality(Places(q, types)) + IF w.tag - 1 \in types THEN 1 ELSE 0
<1>1. Places(q, types) \in SUBSET (1..Len(q)) /\ Len(q) \in Nat
    BY DEF Places
<1>2. Places(Append(q, w), types)
        = Places(q, types) \cup (IF w.tag - 1 \in types THEN {Len(q) + 1} ELSE {})
    BY WordGoesIn DEF Places
<1>3. CASE w.tag - 1 \in types
    BY <1>1, <1>2, <1>3, OneMorePlace
<1>4. CASE w.tag - 1 \notin types
    BY <1>2, <1>4, WaitingType
<1>. QED
    BY <1>3, <1>4

LEMMA OneLessWaiting ==
    ASSUME NEW q \in Seq(CloudWords), q # << >>, NEW types
    PROVE  Cardinality(Places(q, types))
             = Cardinality(Places(Tail(q), types)) + IF Head(q).tag - 1 \in types THEN 1 ELSE 0
<1>. DEFINE m == Len(q) - 1
            S == Places(q, types)
            T == Places(Tail(q), types)
<1>1. m \in Nat /\ S \in SUBSET (1..(m + 1)) /\ T \in SUBSET (1..m)
    BY WordGoesOut DEF Places
<1>2. \A n \in 1..m : n \in T <=> n + 1 \in S
    BY WordGoesOut DEF Places
<1>3. 1 \in S <=> Head(q).tag - 1 \in types
    BY WordGoesOut DEF Places
<1>. HIDE DEF m, S, T
<1>4. Cardinality(S) = Cardinality(T) + IF 1 \in S THEN 1 ELSE 0
    BY <1>1, <1>2, PlacesMoveUp, ZenonT(60)
<1>. QED
    BY <1>3, <1>4 DEF S, T

-----------------------------------------------------------------------------
(***************************************************************************)
(* The number heard last, and the messages out of turn.                    *)
(***************************************************************************)

\* There is one.
LEMMA HeardOnce ==
    ASSUME NEW q, NEW last, NEW n \in Nat, NEW v, NEW x,
           HeardBefore(q, last, n, v), HeardBefore(q, last, n, x)
    PROVE  v = x
<1>1. CASE \A k \in 1..(n - 1) : q[k].tag # 5
    BY <1>1 DEF HeardBefore
<1>2. CASE \E k \in 1..(n - 1) : q[k].tag = 5
    <2>1. PICK i \in 1..(n - 1) : /\ q[i].tag = 5 /\ q[i].val = v
                                  /\ \A j \in (i + 1)..(n - 1) : q[j].tag # 5
        BY <1>2 DEF HeardBefore
    <2>2. PICK k \in 1..(n - 1) : /\ q[k].tag = 5 /\ q[k].val = x
                                  /\ \A j \in (k + 1)..(n - 1) : q[j].tag # 5
        BY <1>2 DEF HeardBefore
    <2>3. ~(i < k) /\ ~(k < i)
        BY <2>1, <2>2
    <2>4. i = k
        BY <2>3
    <2>. QED
        BY <2>1, <2>2, <2>4
<1>. QED
    BY <1>1, <1>2

\* A word at the end changes nothing for the words before it.
LEMMA HeardKept ==
    ASSUME NEW q \in Seq(CloudWords), NEW w \in CloudWords, NEW last,
           NEW n \in 1..(Len(q) + 1), NEW v
    PROVE  HeardBefore(Append(q, w), last, n, v) <=> HeardBefore(q, last, n, v)
<1>1. \A k \in 1..(n - 1) : Append(q, w)[k] = q[k]
    BY WordGoesIn
<1>2. \A k \in 1..(n - 1) : (k + 1)..(n - 1) \subseteq 1..(n - 1)
    BY WordGoesIn
<1>. HIDE DEF CloudWords
<1>. QED
    BY <1>1, <1>2 DEF HeardBefore

\* What is heard last once a word has gone in.
LEMMA HeardNext ==
    ASSUME NEW q \in Seq(CloudWords), NEW w \in CloudWords, NEW last, NEW v,
           HeardBefore(q, last, Len(q) + 1, v)
    PROVE  HeardBefore(Append(q, w), last, Len(Append(q, w)) + 1,
                       IF w.tag = 5 THEN w.val ELSE v)
<1>. DEFINE r == Append(q, w)
            L == Len(q)
<1>1. L \in Nat /\ Len(r) = L + 1 /\ r[L + 1] = w
    BY WordGoesIn
<1>2. HeardBefore(r, last, L + 1, v)
    BY <1>1, HeardKept
<1>. HIDE DEF r, L
<1>3. CASE w.tag = 5
    <2>1. L + 1 \in 1..(L + 2 - 1) /\ (L + 1 + 1)..(L + 2 - 1) = {}
        BY <1>1
    <2>2. HeardBefore(r, last, L + 2, w.val)
        BY <1>1, <1>3, <2>1 DEF HeardBefore
    <2>3. Len(r) + 1 = L + 2
        BY <1>1
    <2>. QED
        BY <1>3, <2>2, <2>3 DEF r
<1>4. CASE w.tag # 5
    <2>1. HeardBefore(r, last, L + 2, v)
        <3>1. CASE v = last /\ \A k \in 1..(L + 1 - 1) : r[k].tag # 5
            <4>1. \A k \in 1..(L + 2 - 1) : k \in 1..(L + 1 - 1) \/ k = L + 1
                BY <1>1
            <4>2. \A k \in 1..(L + 2 - 1) : r[k].tag # 5
                BY <1>1, <1>4, <3>1, <4>1
            <4>. QED
                BY <1>1, <3>1, <4>2 DEF HeardBefore
        <3>2. CASE \E k \in 1..(L + 1 - 1) : /\ r[k].tag = 5 /\ r[k].val = v
                                             /\ \A j \in (k + 1)..(L + 1 - 1) : r[j].tag # 5
            <4>1. PICK k \in 1..(L + 1 - 1) : /\ r[k].tag = 5 /\ r[k].val = v
                                              /\ \A j \in (k + 1)..(L + 1 - 1) : r[j].tag # 5
                BY <3>2
            <4>2. k \in 1..(L + 2 - 1)
                BY <1>1
            <4>3. \A j \in (k + 1)..(L + 2 - 1) : j \in (k + 1)..(L + 1 - 1) \/ j = L + 1
                BY <1>1
            <4>4. \A j \in (k + 1)..(L + 2 - 1) : r[j].tag # 5
                BY <1>1, <1>4, <4>1, <4>3
            <4>. QED
                BY <1>1, <4>1, <4>2, <4>4 DEF HeardBefore
        <3>. QED
            BY <1>1, <1>2, <3>1, <3>2 DEF HeardBefore
    <2>2. Len(r) + 1 = L + 2
        BY <1>1
    <2>. QED
        BY <1>4, <2>1, <2>2 DEF r
<1>. QED
    BY <1>3, <1>4

\* A word that goes out at the front is heard before all the others.
LEMMA HeardMoved ==
    ASSUME NEW q \in Seq(CloudWords), q # << >>, NEW last, NEW v, NEW n \in 1..Len(q)
    PROVE  HeardBefore(q, last, n + 1, v)
             <=> HeardBefore(Tail(q), IF Head(q).tag = 5 THEN Head(q).val ELSE last, n, v)
<1>. DEFINE r == Tail(q)
            L == Len(q)
            first == IF Head(q).tag = 5 THEN Head(q).val ELSE last
<1>1. L \in Nat \ {0} /\ Head(q) = q[1] /\ n \in 1..L
      /\ \A k \in 1..(L - 1) : r[k] = q[k + 1]
    BY WordGoesOut
<1>. HIDE DEF r, L
<1>2. ASSUME HeardBefore(q, last, n + 1, v) PROVE HeardBefore(r, first, n, v)
    <2>1. CASE v = last /\ \A k \in 1..(n + 1 - 1) : q[k].tag # 5
        <3>1. \A k \in 1..(n - 1) : k + 1 \in 1..(n + 1 - 1) /\ k \in 1..(L - 1)
            BY <1>1
        <3>2. 1 \in 1..(n + 1 - 1)
            BY <1>1
        <3>3. first = last
            BY <1>1, <2>1, <3>2
        <3>. QED
            BY <1>1, <2>1, <3>1, <3>3 DEF HeardBefore
    <2>2. CASE \E k \in 1..(n + 1 - 1) : /\ q[k].tag = 5 /\ q[k].val = v
                                         /\ \A j \in (k + 1)..(n + 1 - 1) : q[j].tag # 5
        <3>1. PICK k \in 1..(n + 1 - 1) : /\ q[k].tag = 5 /\ q[k].val = v
                                          /\ \A j \in (k + 1)..(n + 1 - 1) : q[j].tag # 5
            BY <2>2
        <3>2. \A j \in k..(n - 1) : j + 1 \in (k + 1)..(n + 1 - 1) /\ j \in 1..(L - 1)
            BY <1>1
        <3>3. \A j \in k..(n - 1) : r[j].tag # 5
            BY <1>1, <3>1, <3>2
        <3>4. CASE k = 1
            BY <1>1, <3>1, <3>3, <3>4 DEF HeardBefore
        <3>5. CASE k # 1
            <4>1. k - 1 \in 1..(n - 1) /\ k - 1 \in 1..(L - 1) /\ (k - 1) + 1 = k
                BY <1>1, <3>5
            <4>2. r[k - 1] = q[k]
                BY <1>1, <4>1
            <4>. QED
                BY <3>1, <3>3, <4>1, <4>2 DEF HeardBefore
        <3>. QED
            BY <3>4, <3>5
    <2>. QED
        BY <1>2, <2>1, <2>2 DEF HeardBefore
<1>3. ASSUME HeardBefore(r, first, n, v) PROVE HeardBefore(q, last, n + 1, v)
    <2>1. CASE v = first /\ \A k \in 1..(n - 1) : r[k].tag # 5
        <3>1. \A k \in 2..(n + 1 - 1) : k - 1 \in 1..(n - 1) /\ k - 1 \in 1..(L - 1)
                                        /\ (k - 1) + 1 = k
            BY <1>1
        <3>2. \A k \in 2..(n + 1 - 1) : q[k].tag # 5
            <4>. TAKE k \in 2..(n + 1 - 1)
            <4>1. q[k] = r[k - 1]
                BY <1>1, <3>1
            <4>. QED
                BY <2>1, <3>1, <4>1
        <3>3. CASE q[1].tag = 5
            <4>1. 1 \in 1..(n + 1 - 1) /\ (1 + 1)..(n + 1 - 1) = 2..(n + 1 - 1)
                BY <1>1
            <4>. QED
                BY <1>1, <2>1, <3>2, <3>3, <4>1 DEF HeardBefore
        <3>4. CASE q[1].tag # 5
            <4>1. \A k \in 1..(n + 1 - 1) : k = 1 \/ k \in 2..(n + 1 - 1)
                BY <1>1
            <4>. QED
                BY <1>1, <2>1, <3>2, <3>4, <4>1 DEF HeardBefore
        <3>. QED
            BY <3>3, <3>4
    <2>2. CASE \E k \in 1..(n - 1) : /\ r[k].tag = 5 /\ r[k].val = v
                                     /\ \A j \in (k + 1)..(n - 1) : r[j].tag # 5
        <3>1. PICK k \in 1..(n - 1) : /\ r[k].tag = 5 /\ r[k].val = v
                                      /\ \A j \in (k + 1)..(n - 1) : r[j].tag # 5
            BY <2>2
        <3>2. k + 1 \in 1..(n + 1 - 1) /\ k \in 1..(L - 1)
            BY <1>1
        <3>3. \A j \in (k + 1 + 1)..(n + 1 - 1) :
                 j - 1 \in (k + 1)..(n - 1) /\ j - 1 \in 1..(L - 1) /\ (j - 1) + 1 = j
            BY <1>1
        <3>4. \A j \in (k + 1 + 1)..(n + 1 - 1) : q[j].tag # 5
            <4>. TAKE j \in (k + 1 + 1)..(n + 1 - 1)
            <4>1. q[j] = r[j - 1]
                BY <1>1, <3>3
            <4>. QED
                BY <3>1, <3>3, <4>1
        <3>. QED
            <4>1. /\ q[k + 1].tag = 5 /\ q[k + 1].val = v
                  /\ \A j \in (k + 1 + 1)..(n + 1 - 1) : q[j].tag # 5
                BY <1>1, <3>1, <3>2, <3>4
            <4>. QED
                BY <3>2, <4>1 DEF HeardBefore
    <2>. QED
        BY <1>3, <2>1, <2>2 DEF HeardBefore
<1>. QED
    BY <1>2, <1>3 DEF r

LEMMA OutOfTurnType ==
    ASSUME NEW q \in Seq(CloudWords), NEW last
    PROVE  Cardinality(OutOfTurn(q, last)) \in Nat
<1>1. Len(q) \in Nat /\ OutOfTurn(q, last) \in SUBSET (1..Len(q))
    BY DEF OutOfTurn
<1>. QED
    BY <1>1, PlacesFinite

\* A word that goes in after the number v is out of turn or not for good.
LEMMA OneMoreOutOfTurn ==
    ASSUME NEW q \in Seq(CloudWords), NEW w \in CloudWords, NEW last, NEW v \in Nat,
           HeardBefore(q, last, Len(q) + 1, v)
    PROVE  Cardinality(OutOfTurn(Append(q, w), last))
             = Cardinality(OutOfTurn(q, last))
               + IF w.tag = 5 /\ w.val \notin {1, v + 1} THEN 1 ELSE 0
<1>. DEFINE r == Append(q, w)
            L == Len(q)
            S == OutOfTurn(q, last)
            R == OutOfTurn(r, last)
            new == w.tag = 5 /\ w.val \notin {1, v + 1}
<1>1. /\ L \in Nat /\ DOMAIN q = 1..L /\ DOMAIN r = 1..(L + 1) /\ r[L + 1] = w
      /\ \A n \in 1..L : r[n] = q[n]
    BY WordGoesIn
<1>2. \A n \in 1..(L + 1) : \A x : HeardBefore(r, last, n, x) <=> HeardBefore(q, last, n, x)
    BY HeardKept
<1>3. S \in SUBSET (1..L)
    BY <1>1 DEF OutOfTurn
<1>. HIDE DEF r, L
<1>4. \A n \in 1..L : n \in R <=> n \in S
    BY <1>1, <1>2 DEF OutOfTurn
<1>5. \A x : HeardBefore(q, last, L + 1, x) <=> x = v
    BY <1>1, HeardOnce DEF L
<1>6. L + 1 \in R <=> new
    <2>1. L + 1 \in 1..(L + 1)
        BY <1>1
    <2>2. \A x : HeardBefore(r, last, L + 1, x) <=> x = v
        BY <1>2, <1>5, <2>1
    <2>. QED
        BY <1>1, <2>1, <2>2 DEF OutOfTurn
<1>7. \A n : n \in R => n \in 1..L \/ n = L + 1
    BY <1>1 DEF OutOfTurn
<1>. HIDE DEF S, R
<1>8. R = S \cup (IF new THEN {L + 1} ELSE {})
    BY <1>3, <1>4, <1>6, <1>7
<1>9. CASE new
    BY <1>1, <1>3, <1>8, <1>9, OneMorePlace DEF S, R, r
<1>10. CASE ~new
    <2>1. Cardinality(S) \in Nat
        BY OutOfTurnType DEF S
    <2>2. R = S
        BY <1>8, <1>10
    <2>3. Cardinality(R) = Cardinality(S) + 0
        BY <2>1, <2>2
    <2>. QED
        BY <1>10, <2>3 DEF S, R, r
<1>. QED
    BY <1>9, <1>10

\* The message that goes out at the front was out of turn after the last one counted.
LEMMA OneLessOutOfTurn ==
    ASSUME NEW q \in Seq(CloudWords), q # << >>, NEW last \in Nat
    PROVE  Cardinality(OutOfTurn(q, last))
             = Cardinality(OutOfTurn(Tail(q), IF Head(q).tag = 5 THEN Head(q).val ELSE last))
               + IF Head(q).tag = 5 /\ Head(q).val \notin {1, last + 1} THEN 1 ELSE 0
<1>. DEFINE first == IF Head(q).tag = 5 THEN Head(q).val ELSE last
            m == Len(q) - 1
            S == OutOfTurn(q, last)
            T == OutOfTurn(Tail(q), first)
<1>1. /\ m \in Nat /\ DOMAIN q = 1..(m + 1) /\ DOMAIN Tail(q) = 1..m /\ Head(q) = q[1]
      /\ \A n \in 1..m : Tail(q)[n] = q[n + 1]
      /\ Len(q) = m + 1
    BY WordGoesOut
<1>2. \A n \in 1..m : \A x : HeardBefore(q, last, n + 1, x)
                               <=> HeardBefore(Tail(q), first, n, x)
    BY <1>1, HeardMoved
<1>3. S \in SUBSET (1..(m + 1)) /\ T \in SUBSET (1..m)
    BY <1>1 DEF OutOfTurn
<1>. HIDE DEF m, first
<1>4. \A n \in 1..m : n \in T <=> n + 1 \in S
    <2>. TAKE n \in 1..m
    <2>1. n + 1 \in 1..(m + 1) /\ Tail(q)[n] = q[n + 1]
        BY <1>1
    <2>. QED
        BY <1>1, <1>2, <2>1 DEF OutOfTurn
<1>5. \A x : HeardBefore(q, last, 1, x) <=> x = last
    BY DEF HeardBefore
<1>6. 1 \in S <=> Head(q).tag = 5 /\ Head(q).val \notin {1, last + 1}
    <2>1. 1 \in 1..(m + 1)
        BY <1>1
    <2>. QED
        BY <1>1, <1>5, <2>1 DEF OutOfTurn
<1>. HIDE DEF S, T
<1>7. Cardinality(S) = Cardinality(T) + IF 1 \in S THEN 1 ELSE 0
    <2>1. m \in Nat
        BY <1>1
    <2>. QED
        BY <1>3, <1>4, <2>1, PlacesMoveUp, ZenonT(60)
<1>. QED
    BY <1>6, <1>7 DEF S, T, first

-----------------------------------------------------------------------------
(***************************************************************************)
(* The WLAN: nobody but Network_IF_ConnectAP, the event handlers and the   *)
(* NWP touches it.                                                         *)
(***************************************************************************)

LEMMA NetOrNot == [CloudNext]_cloudVars => [NetNext]_netVars
<1>. SUFFICES ASSUME [CloudNext]_cloudVars PROVE NetNext \/ UNCHANGED netVars
    OBVIOUS
<1>1. CASE NetStep
    BY <1>1 DEF NetStep
<1>2. CASE \/ StoreApState \/ Mqtt_start \/ CreateThreads \/ StartClient \/ CreateClient
           \/ CreateRxThread \/ ConnectClient \/ Subscribe \/ MqttClientLoop \/ RunReturns
           \/ EndRxThread \/ StatsTimer \/ LoseSession
    BY <1>2 DEF StoreApState, Mqtt_start, CreateThreads, StartClient, CreateClient,
                CreateRxThread, ConnectClient, Subscribe, MqttClientLoop, RunReturns,
                EndRxThread, StatsTimer, LoseSession, At
<1>3. CASE \E type \in {5, 6, 7, 8, 9} : Publish(type)
    BY <1>3 DEF Publish
<1>4. CASE \E s \in Senders : Deliver(s) \/ Repeat(s) \/ Lose(s) \/ Restart(s)
    BY <1>4 DEF Deliver, Repeat, Lose, Restart, OfTeam
<1>5. CASE UNCHANGED cloudVars
    BY <1>5 DEF cloudVars
<1>. QED
    BY <1>1, <1>2, <1>3, <1>4, <1>5 DEF CloudNext, Broker

\* Once mainThread has stored the state of the access point, the WLAN's pc stays.
LEMMA StartUpOver ==
    ASSUME [NetNext]_netVars, netpc \in {"done", "failed"}
    PROVE  netpc' = netpc
<1>. USE DEF From
<1>1. ~Drive /\ ~Ask
    BY DEF Drive, Ask, StartDriver, SetMode, RestartDriver, Disconnect, AwaitDown, LoadStatus,
           StoreStatus, Cleared, Connect, Wait1, Wait2, Test, IpConfigGet
<1>. QED
    BY <1>1, OthersLeaveProgress DEF NetNext, progress, netVars

-----------------------------------------------------------------------------
(***************************************************************************)
(* The threads.                                                            *)
(***************************************************************************)

\* What the queue and its counters make no difference to.
LEMMA TrafficOnly ==
    ASSUME \/ EndRxThread \/ StatsTimer \/ (\E type \in {5, 6, 7, 8, 9} : Publish(type))
           \/ (\E s \in Senders : Deliver(s) \/ Repeat(s) \/ Lose(s) \/ Restart(s))
    PROVE  /\ UNCHANGED <<netVars, startup, client, gResetApplication, session, subscribed>>
           /\ rxpc' = rxpc \/ (rxpc = "ending" /\ rxpc' = "ended")
BY DEF EndRxThread, StatsTimer, Publish, Deliver, Repeat, Lose, Restart, OfTeam, link

LEMMA StartStep ==
    ASSUME CloudTypeOK, StartInv, [CloudNext]_cloudVars
    PROVE  StartInv'
<1>. USE DEF StartInv
<1>1. CASE NetStep \/ UNCHANGED cloudVars
    <2>1. UNCHANGED <<mainpc, gApConnectionState, mcpc, gMqttClient, rxpc>>
        BY <1>1 DEF NetStep, cloudVars, startup, client, link
    <2>2. netpc \in {"done", "failed"} => netpc' = netpc
        BY NetOrNot, StartUpOver
    <2>. QED
        BY <2>1, <2>2
<1>2. CASE StoreApState
    BY <1>2 DEF StoreApState, Mqtt_IF_Connect, netVars, progress, client, link
<1>3. CASE Mqtt_start
    BY <1>3 DEF Mqtt_start, netVars, progress, link
<1>4. CASE CreateThreads
    BY <1>4 DEF CreateThreads, netVars, progress, client, link
<1>5. CASE StartClient \/ CreateClient \/ CreateRxThread
    <2>1. UNCHANGED <<netpc, mainpc, gApConnectionState>>
        BY <1>5 DEF StartClient, CreateClient, CreateRxThread, At, netVars, progress, startup
    <2>2. CASE StartClient
        <3>1. mcpc = "start" /\ gMqttClient' = gMqttClient /\ rxpc' = rxpc
              /\ mcpc' = IF gApConnectionState >= 0 THEN "create" ELSE "loop"
            BY <2>2 DEF StartClient, At, link
        <3>2. gApConnectionState = IF netpc = "done" THEN 0 ELSE -1
            BY <3>1 DEF CloudTypeOK
        <3>. HIDE DEF StartInv
        <3>3. mcpc' = IF netpc = "done" THEN "create" ELSE "loop"
            <4>1. CASE netpc = "done"
                <5>1. gApConnectionState = 0
                    BY <3>2, <4>1
                <5>2. gApConnectionState >= 0
                    BY <5>1
                <5>. QED
                    BY <3>1, <4>1, <5>2
            <4>2. CASE netpc # "done"
                <5>1. gApConnectionState = -1
                    BY <3>2, <4>2
                <5>2. ~(gApConnectionState >= 0)
                    BY <5>1
                <5>. QED
                    BY <3>1, <4>2, <5>2
            <4>. QED
                BY <4>1, <4>2
        <3>. QED
            BY <2>1, <3>1, <3>3 DEF StartInv
    <2>3. CASE CreateClient
        BY <2>1, <2>3 DEF CreateClient, At, link
    <2>4. CASE CreateRxThread
        BY <2>1, <2>4 DEF CreateRxThread, At
    <2>. QED
        BY <1>5, <2>2, <2>3, <2>4
<1>6. CASE ConnectClient \/ Subscribe \/ MqttClientLoop
    <2>1. UNCHANGED <<netpc, mainpc, gApConnectionState, gMqttClient, rxpc>>
        <3>1. CASE ConnectClient
            BY <3>1 DEF ConnectClient, At, netVars, progress, startup, link
        <3>2. CASE Subscribe
            BY <3>2 DEF Subscribe, At, netVars, progress, startup, link
        <3>3. CASE MqttClientLoop
            BY <3>3 DEF MqttClientLoop, netVars, progress, startup, link
        <3>. QED
            BY <1>6, <3>1, <3>2, <3>3
    <2>2. \/ mcpc = "connect" /\ mcpc' \in {"subscribe", "loop"}
          \/ mcpc = "subscribe" /\ mcpc' = "loop"
          \/ mcpc = "loop" /\ mcpc' \in {"loop", "exited"}
        <3>1. CASE ConnectClient \/ Subscribe
            BY <3>1 DEF ConnectClient, Subscribe, At
        <3>2. CASE MqttClientLoop
            <4>1. mcpc = "loop"
                BY <3>2 DEF MqttClientLoop
            <4>. DEFINE m == DequeueQ6(Head(queue6), [val |-> 777, type |-> 777])
            <4>2. mcpc' = IF m.type = 3 THEN "exited" ELSE "loop"
                BY <3>2 DEF MqttClientLoop
            <4>. HIDE DEF m
            <4>3. mcpc' = "exited" \/ mcpc' = "loop"
                BY <4>2, Zenon
            <4>. QED
                BY <4>1, <4>3
        <3>. QED
            BY <1>6, <3>1, <3>2
    <2>. QED
        BY <2>1, <2>2
<1>7. CASE LoseSession \/ RunReturns
    <2>1. UNCHANGED <<netpc, mainpc, gApConnectionState, mcpc, gMqttClient>>
          /\ (rxpc = "none" => rxpc' = "none")
        BY <1>7 DEF LoseSession, RunReturns, netVars, progress, startup, client
    <2>. QED
        BY <2>1
<1>8. CASE \/ EndRxThread \/ StatsTimer \/ (\E type \in {5, 6, 7, 8, 9} : Publish(type))
           \/ (\E s \in Senders : Deliver(s) \/ Repeat(s) \/ Lose(s) \/ Restart(s))
    <2>1. UNCHANGED <<netpc, mainpc, gApConnectionState, mcpc, gMqttClient>>
          /\ (rxpc = "none" => rxpc' = "none")
        BY <1>8, TrafficOnly DEF netVars, progress, startup, client
    <2>. QED
        BY <2>1
<1>. QED
    BY <1>1, <1>2, <1>3, <1>4, <1>5, <1>6, <1>7, <1>8 DEF CloudNext, Broker

LEMMA SessionStep ==
    ASSUME CloudTypeOK, StartInv, SessionInv, QueueInv, [CloudNext]_cloudVars
    PROVE  SessionInv'
<1>. USE DEF SessionInv
<1>1. CASE NetStep \/ StoreApState \/ CreateThreads \/ UNCHANGED cloudVars
    <2>1. UNCHANGED <<mcpc, gUiConnFlag, session, subscribed, gResetApplication>>
        BY <1>1 DEF NetStep, StoreApState, CreateThreads, cloudVars, client, link
    <2>. QED
        BY <2>1
<1>2. CASE Mqtt_start
    <2>1. mcpc = "none"
        BY <1>2 DEF Mqtt_start, StartInv
    <2>. QED
        BY <1>2, <2>1 DEF Mqtt_start, link
<1>3. CASE StartClient \/ CreateClient \/ CreateRxThread
    BY <1>3 DEF StartClient, CreateClient, CreateRxThread, At, link
<1>4. CASE ConnectClient
    BY <1>4 DEF ConnectClient, At
<1>5. CASE Subscribe
    BY <1>5 DEF Subscribe, At
<1>6. CASE MqttClientLoop
    <2>1. queue6 \in Seq(CloudWords) /\ queue6 # << >>
        BY <1>6 DEF MqttClientLoop, CloudTypeOK
    <2>2. Head(queue6) \in CloudWords /\ Head(queue6).tag \notin {3, 4}
        BY <2>1, WordGoesOut DEF QueueInv
    <2>. DEFINE m == DequeueQ6(Head(queue6), [val |-> 777, type |-> 777])
    <2>3. m.type = Head(queue6).tag - 1
        BY <2>2 DEF DequeueQ6, CloudWords
    <2>4. m.type \notin {2, 3}
        BY <2>2, <2>3 DEF CloudWords
    <2>5. mcpc = "loop" /\ mcpc' = "loop" /\ gUiConnFlag' = gUiConnFlag /\ UNCHANGED link
        BY <1>6, <2>4 DEF MqttClientLoop
    <2>. QED
        BY <2>5 DEF link
<1>7. CASE LoseSession
    BY <1>7 DEF LoseSession, client
<1>8. CASE RunReturns
    BY <1>8 DEF RunReturns, client
<1>9. CASE \/ EndRxThread \/ StatsTimer \/ (\E type \in {5, 6, 7, 8, 9} : Publish(type))
           \/ (\E s \in Senders : Deliver(s) \/ Repeat(s) \/ Lose(s) \/ Restart(s))
    BY <1>9, TrafficOnly DEF client
<1>. QED
    BY <1>1, <1>2, <1>3, <1>4, <1>5, <1>6, <1>7, <1>8, <1>9 DEF CloudNext, Broker

-----------------------------------------------------------------------------
(***************************************************************************)
(* The words of queue 6 and what is done with them.                        *)
(***************************************************************************)

LEMMA CloudWordType ==
    ASSUME NEW val \in Nat, NEW type \in 0..9
    PROVE  /\ CloudWord(val, type) \in CloudWords
           /\ CloudWord(val, type).tag = type + 1 /\ CloudWord(val, type).val = val
BY DEF CloudWord, Word, CloudWords

Counters == [count : Nat, revCount : Nat, missed_MSG : Nat, Last_Id : Nat]

LEMMA CountMessageSays ==
    ASSUME NEW c \in Counters, NEW id \in Nat
    PROVE  /\ CountMessage(c, id) \in Counters
           /\ CountMessage(c, id).count = c.count
           /\ CountMessage(c, id).revCount = c.revCount + 1
           /\ id \in {1, c.Last_Id + 1} => CountMessage(c, id).missed_MSG = c.missed_MSG
           /\ id \notin {1, c.Last_Id + 1} => CountMessage(c, id).missed_MSG = c.missed_MSG + 1
           /\ CountMessage(c, id).Last_Id = id
<1>. DEFINE rev == c.revCount + 1
            missed == IF id \in {c.Last_Id + 1, 1} THEN c.missed_MSG ELSE c.missed_MSG + 1
<1>1. c.missed_MSG \in Nat /\ c.revCount \in Nat
    BY DEF Counters
<1>2. rev \in Nat /\ missed \in Nat
    BY <1>1
<1>3. CountMessage(c, id) = [c EXCEPT !.revCount = rev,
              !.missed_MSG = IF id \in {c.Last_Id + 1, 1} THEN c.missed_MSG
                                                          ELSE c.missed_MSG + 1,
              !.Last_Id = id]
    BY DEF CountMessage
<1>. HIDE DEF rev, missed
<1>4. CountMessage(c, id) = [c EXCEPT !.revCount = rev, !.missed_MSG = missed, !.Last_Id = id]
    BY <1>3 DEF rev, missed
<1>. QED
    BY <1>2, <1>4 DEF Counters, rev, missed

\* What a word that is taken out does to the counters.
LEMMA CountSays ==
    ASSUME NEW c \in Counters, NEW w \in CloudWords, NEW d,
           d = Count(c, DequeueQ6(w, [val |-> 777, type |-> 777]))
    PROVE  /\ d \in Counters
           /\ d.count = c.count + IF w.tag - 1 \in Numbered THEN 1 ELSE 0
           /\ d.revCount = c.revCount + IF w.tag - 1 \in {4} THEN 1 ELSE 0
           /\ d.missed_MSG = c.missed_MSG
                             + IF w.tag = 5 /\ w.val \notin {1, c.Last_Id + 1} THEN 1 ELSE 0
           /\ d.Last_Id = IF w.tag = 5 THEN w.val ELSE c.Last_Id
<1>. DEFINE m == DequeueQ6(w, [val |-> 777, type |-> 777])
<1>1. w.tag \in 1..10 /\ w.val \in Nat
    BY DEF CloudWords
<1>2. m.type = w.tag - 1 /\ m.val = w.val
    BY <1>1 DEF DequeueQ6
<1>3. c.count \in Nat /\ c.revCount \in Nat /\ c.missed_MSG \in Nat /\ c.Last_Id \in Nat
    BY DEF Counters
<1>4. d = Count(c, m)
    OBVIOUS
<1>. HIDE DEF m
<1>5. CASE w.tag = 5
    <2>1. m.type = 4 /\ m.type \notin Numbered /\ w.tag - 1 \notin Numbered
        BY <1>2, <1>5 DEF Numbered
    <2>2. d = CountMessage(c, w.val)
        BY <1>2, <1>4, <2>1, ZenonT(60) DEF Count
    <2>3. w.tag - 1 \in {4}
        BY <1>5
    <2>. DEFINE x == w.val
    <2>4. x \in Nat
        BY <1>1
    <2>5. d = CountMessage(c, x)
        BY <2>2
    <2>. HIDE DEF x
    <2>6. d \in Counters
        BY <2>4, <2>5, CountMessageSays
    <2>7. d.count = c.count
        BY <2>4, <2>5, CountMessageSays
    <2>8. d.revCount = c.revCount + 1
        BY <2>4, <2>5, CountMessageSays, SMTT(60)
    <2>9. x \in {1, c.Last_Id + 1} => d.missed_MSG = c.missed_MSG
        BY <2>4, <2>5, CountMessageSays
    <2>10. x \notin {1, c.Last_Id + 1} => d.missed_MSG = c.missed_MSG + 1
        BY <2>4, <2>5, CountMessageSays, SMTT(60)
    <2>11. d.Last_Id = x
        BY <2>4, <2>5, CountMessageSays
    <2>12. c.count = c.count + 0
        BY <1>3
    <2>. QED
        BY <1>3, <1>5, <2>1, <2>3, <2>6, <2>7, <2>8, <2>9, <2>10, <2>11, <2>12 DEF x
<1>6. CASE w.tag # 5 /\ w.tag - 1 \in Numbered
    <2>1. d = [c EXCEPT !.count = @ + 1]
        BY <1>2, <1>4, <1>6 DEF Count
    <2>2. w.tag - 1 \notin {4}
        BY <1>1, <1>6
    <2>. QED
        BY <1>3, <1>6, <2>1, <2>2 DEF Counters
<1>7. CASE w.tag # 5 /\ w.tag - 1 \notin Numbered
    <2>1. m.type # 4 /\ m.type \notin Numbered /\ w.tag - 1 \notin {4}
        BY <1>1, <1>2, <1>7
    <2>2. d = c
        BY <1>4, <2>1 DEF Count
    <2>. QED
        BY <1>3, <1>7, <2>1, <2>2
<1>. QED
    BY <1>5, <1>6, <1>7

\* The ways the traffic moves: a word goes in that is no message, a message goes in, a
\* team sends without being heard, a word goes out.
Requests(w) ==
    /\ w \in CloudWords /\ w.tag \notin {3, 4, 5}
    /\ HasRoom(queue6) /\ queue6' = Append(queue6, w)
    /\ requested' = requested + IF w.tag - 1 \in Numbered THEN 1 ELSE 0
    /\ UNCHANGED <<counters, numbers, received, stream>>

LEMMA TrafficMoves ==
    ASSUME CloudTypeOK, [CloudNext]_cloudVars
    PROVE  \/ UNCHANGED traffic
           \/ MqttClientLoop
           \/ \E w : Requests(w)
           \/ \E s \in Senders : Deliver(s) \/ Repeat(s) \/ Lose(s) \/ Restart(s)
<1>1. CASE \/ NetStep \/ StoreApState \/ Mqtt_start \/ CreateThreads \/ StartClient
           \/ CreateClient \/ CreateRxThread \/ ConnectClient \/ Subscribe \/ RunReturns
           \/ LoseSession \/ UNCHANGED cloudVars
    BY <1>1 DEF NetStep, StoreApState, Mqtt_start, CreateThreads, StartClient, CreateClient,
                CreateRxThread, ConnectClient, Subscribe, RunReturns, LoseSession, At, cloudVars
<1>2. CASE EndRxThread
    <2>1. Requests(CloudWord(0, 0))
        BY <1>2, CloudWordType DEF EndRxThread, Requests, Numbered
    <2>. QED
        BY <2>1
<1>3. CASE StatsTimer
    <2>1. CASE HasRoom(queue6)
        <3>1. Requests(CloudWord(0, 1))
            <4>1. requested + 0 = requested
                <5>1. requested \in 0..(MaxRequested + 1)
                    BY DEF CloudTypeOK
                <5>. QED
                    BY <5>1, CloudAssumption
            <4>. QED
                BY <1>3, <2>1, <4>1, CloudWordType DEF StatsTimer, SendFromISR, Requests, Numbered
        <3>. QED
            BY <3>1
    <2>2. CASE ~HasRoom(queue6)
        BY <1>3, <2>2 DEF StatsTimer, SendFromISR, traffic
    <2>. QED
        BY <2>1, <2>2
<1>4. ASSUME NEW type \in {5, 6, 7, 8, 9}, Publish(type) PROVE Requests(CloudWord(0, type))
    BY <1>4, CloudWordType DEF Publish, Requests, Numbered
<1>. QED
    BY <1>1, <1>2, <1>3, <1>4 DEF CloudNext, Broker

\* What the type of stream says.
LEMMA StreamType ==
    ASSUME NEW t \in Stream
    PROVE  /\ t.next \in [Senders -> Nat \ {0}] /\ t.last \in [Senders -> Nat]
           /\ t.from \in Senders \cup {NoSender} /\ t.events \in 0..MaxSent
           /\ t.lost \in Nat /\ t.gaps \in Nat /\ t.repeats \in Nat /\ t.switches \in Nat
           /\ t.restarts \in Nat
BY DEF Stream

\* What becomes of the senders' numbers, one field at a time.
LEMMA DeliverSays ==
    ASSUME CloudTypeOK, NEW s \in Senders, Deliver(s)
    PROVE  /\ stream' \in Stream
           /\ stream'.next = [stream.next EXCEPT ![s] = stream.next[s] + 1]
           /\ stream'.last = [stream.last EXCEPT ![s] = stream.next[s]]
           /\ stream'.from = s
           /\ stream'.events = stream.events + 1 /\ stream.events < MaxSent
           /\ stream'.switches = stream.switches + Switch(s)
           /\ stream'.gaps = stream.gaps
                + IF Switch(s) = 0 /\ stream.next[s] > stream.last[s] + 1 THEN 1 ELSE 0
           /\ UNCHANGED <<stream.lost, stream.repeats, stream.restarts, counters, requested>>
<1>. DEFINE gap == IF Switch(s) = 0 /\ stream.next[s] > stream.last[s] + 1 THEN 1 ELSE 0
            sw == Switch(s)
            t == stream
<1>1. t \in Stream /\ t.events < MaxSent /\ MaxSent \in Nat
    BY CloudAssumption DEF CloudTypeOK, Deliver, OfTeam
<1>2. gap \in {0, 1} /\ sw \in {0, 1}
    BY DEF Switch
<1>3. stream' = [[t EXCEPT !.next[s] = @ + 1, !.last[s] = t.next[s], !.from = s,
                           !.switches = @ + sw, !.gaps = @ + gap] EXCEPT !.events = @ + 1]
    BY DEF Deliver, OfTeam
<1>4. UNCHANGED <<counters, requested>>
    BY DEF Deliver, OfTeam
<1>. HIDE DEF gap, sw
<1>5. /\ stream'.next = [t.next EXCEPT ![s] = t.next[s] + 1]
      /\ stream'.last = [t.last EXCEPT ![s] = t.next[s]]
      /\ stream'.from = s
      /\ stream'.events = t.events + 1
      /\ stream'.switches = t.switches + sw
      /\ stream'.gaps = t.gaps + gap
      /\ UNCHANGED <<stream.lost, stream.repeats, stream.restarts>>
    BY <1>1, <1>3 DEF Stream
<1>6. stream' \in Stream
    <2>1. stream' = [next |-> [t.next EXCEPT ![s] = t.next[s] + 1], last |-> [t.last EXCEPT ![s] = t.next[s]],
                 from |-> s, events |-> t.events + 1, lost |-> t.lost,
                 gaps |-> t.gaps + gap, repeats |-> t.repeats, switches |-> t.switches + sw,
                 restarts |-> t.restarts]
        BY <1>1, <1>3 DEF Stream
    <2>2. /\ [t.next EXCEPT ![s] = t.next[s] + 1] \in [Senders -> Nat \ {0}]
          /\ [t.last EXCEPT ![s] = t.next[s]] \in [Senders -> Nat]
          /\ t.events + 1 \in 0..MaxSent /\ t.gaps + gap \in Nat /\ t.switches + sw \in Nat
        BY <1>1, <1>2, StreamType
    <2>. QED
        BY <1>1, <2>1, <2>2, StreamType DEF Stream
<1>. QED
    BY <1>1, <1>4, <1>5, <1>6 DEF sw, gap

LEMMA RepeatSays ==
    ASSUME CloudTypeOK, NEW s \in Senders, Repeat(s)
    PROVE  /\ stream' \in Stream
           /\ stream'.from = s
           /\ stream'.events = stream.events + 1 /\ stream.events < MaxSent
           /\ stream'.switches = stream.switches + Switch(s)
           /\ stream'.repeats = stream.repeats + 1
           /\ UNCHANGED <<stream.next, stream.last, stream.lost, stream.gaps,
                          stream.restarts, counters, requested>>
<1>. DEFINE sw == Switch(s)
            t == stream
<1>1. t \in Stream /\ t.events < MaxSent /\ MaxSent \in Nat
    BY CloudAssumption DEF CloudTypeOK, Repeat, OfTeam
<1>2. sw \in {0, 1}
    BY DEF Switch
<1>3. stream' = [[t EXCEPT !.from = s, !.repeats = @ + 1, !.switches = @ + sw]
                    EXCEPT !.events = @ + 1]
    BY DEF Repeat, OfTeam
<1>4. UNCHANGED <<counters, requested>>
    BY DEF Repeat, OfTeam
<1>. HIDE DEF sw
<1>5. /\ stream'.from = s
      /\ stream'.events = t.events + 1
      /\ stream'.switches = t.switches + sw
      /\ stream'.repeats = t.repeats + 1
      /\ UNCHANGED <<stream.next, stream.last, stream.lost, stream.gaps, stream.restarts>>
    BY <1>1, <1>3 DEF Stream
<1>6. stream' \in Stream
    <2>1. stream' = [next |-> t.next, last |-> t.last,
                 from |-> s, events |-> t.events + 1, lost |-> t.lost,
                 gaps |-> t.gaps, repeats |-> t.repeats + 1, switches |-> t.switches + sw,
                 restarts |-> t.restarts]
        BY <1>1, <1>3 DEF Stream
    <2>2. t.events + 1 \in 0..MaxSent /\ t.repeats + 1 \in Nat /\ t.switches + sw \in Nat
        BY <1>1, <1>2, StreamType
    <2>. QED
        BY <1>1, <2>1, <2>2, StreamType DEF Stream
<1>. QED
    BY <1>1, <1>4, <1>5, <1>6 DEF sw

LEMMA LoseSays ==
    ASSUME CloudTypeOK, NEW s \in Senders, Lose(s)
    PROVE  /\ stream' \in Stream
           /\ stream'.next = [stream.next EXCEPT ![s] = stream.next[s] + 1]
           /\ stream'.lost = stream.lost + 1
           /\ stream'.events = stream.events + 1 /\ stream.events < MaxSent
           /\ UNCHANGED <<stream.last, stream.from, stream.gaps, stream.repeats, stream.switches,
                          stream.restarts, queue6, counters, requested, received>>
<1>. DEFINE t == stream
<1>1. t \in Stream /\ t.events < MaxSent /\ MaxSent \in Nat
    BY CloudAssumption DEF CloudTypeOK, Lose, OfTeam
<1>2. stream' = [[t EXCEPT !.next[s] = @ + 1, !.lost = @ + 1] EXCEPT !.events = @ + 1]
    BY DEF Lose, OfTeam
<1>3. UNCHANGED <<queue6, counters, requested, received>>
    BY DEF Lose, OfTeam
<1>4. /\ stream'.next = [t.next EXCEPT ![s] = t.next[s] + 1]
      /\ stream'.lost = t.lost + 1
      /\ stream'.events = t.events + 1
      /\ UNCHANGED <<stream.last, stream.from, stream.gaps, stream.repeats, stream.switches,
                     stream.restarts>>
    BY <1>1, <1>2 DEF Stream
<1>5. stream' \in Stream
    <2>1. stream' = [next |-> [t.next EXCEPT ![s] = t.next[s] + 1], last |-> t.last,
                 from |-> t.from, events |-> t.events + 1, lost |-> t.lost + 1,
                 gaps |-> t.gaps, repeats |-> t.repeats, switches |-> t.switches,
                 restarts |-> t.restarts]
        BY <1>1, <1>2 DEF Stream
    <2>2. /\ [t.next EXCEPT ![s] = t.next[s] + 1] \in [Senders -> Nat \ {0}]
          /\ t.events + 1 \in 0..MaxSent /\ t.lost + 1 \in Nat
        BY <1>1, StreamType
    <2>. QED
        BY <1>1, <2>1, <2>2, StreamType DEF Stream
<1>. QED
    BY <1>1, <1>3, <1>4, <1>5

LEMMA RestartSays ==
    ASSUME CloudTypeOK, NEW s \in Senders, Restart(s)
    PROVE  /\ stream' \in Stream
           /\ stream'.next = [stream.next EXCEPT ![s] = 1] /\ stream.next[s] > 1
           /\ stream'.last = [stream.last EXCEPT ![s] = 0]
           /\ stream'.restarts = stream.restarts + 1
           /\ stream'.events = stream.events + 1 /\ stream.events < MaxSent
           /\ UNCHANGED <<stream.from, stream.lost, stream.gaps, stream.repeats, stream.switches,
                          queue6, counters, requested, received>>
<1>. DEFINE t == stream
<1>1. t \in Stream /\ t.events < MaxSent /\ MaxSent \in Nat /\ t.next[s] > 1
    BY CloudAssumption DEF CloudTypeOK, Restart, OfTeam
<1>2. stream' = [[t EXCEPT !.next[s] = 1, !.last[s] = 0, !.restarts = @ + 1]
                    EXCEPT !.events = @ + 1]
    BY DEF Restart, OfTeam
<1>3. UNCHANGED <<queue6, counters, requested, received>>
    BY DEF Restart, OfTeam
<1>4. /\ stream'.next = [t.next EXCEPT ![s] = 1]
      /\ stream'.last = [t.last EXCEPT ![s] = 0]
      /\ stream'.restarts = t.restarts + 1
      /\ stream'.events = t.events + 1
      /\ UNCHANGED <<stream.from, stream.lost, stream.gaps, stream.repeats, stream.switches>>
    BY <1>1, <1>2 DEF Stream
<1>5. stream' \in Stream
    <2>1. stream' = [next |-> [t.next EXCEPT ![s] = 1], last |-> [t.last EXCEPT ![s] = 0],
                 from |-> t.from, events |-> t.events + 1, lost |-> t.lost,
                 gaps |-> t.gaps, repeats |-> t.repeats, switches |-> t.switches,
                 restarts |-> t.restarts + 1]
        BY <1>1, <1>2 DEF Stream
    <2>2. /\ [t.next EXCEPT ![s] = 1] \in [Senders -> Nat \ {0}]
          /\ [t.last EXCEPT ![s] = 0] \in [Senders -> Nat]
          /\ t.events + 1 \in 0..MaxSent /\ t.restarts + 1 \in Nat
        BY <1>1, StreamType
    <2>. QED
        BY <1>1, <2>1, <2>2, StreamType DEF Stream
<1>. QED
    BY <1>1, <1>3, <1>4, <1>5

\* A message that is heard: its word goes into the queue.
LEMMA HearSays ==
    ASSUME CloudTypeOK, NEW n \in Nat, Hear(n)
    PROVE  /\ CloudWord(n, 4) \in CloudWords
           /\ CloudWord(n, 4).tag = 5 /\ CloudWord(n, 4).val = n
           /\ HasRoom(queue6) /\ queue6' = Append(queue6, CloudWord(n, 4))
           /\ received' = received + 1
<1>1. 4 \in 0..9 /\ 4 + 1 = 5
    OBVIOUS
<1>. QED
    BY <1>1, CloudWordType DEF Hear

\* A word that MqttClient takes out.
LEMMA LoopSays ==
    ASSUME CloudTypeOK, MqttClientLoop
    PROVE  /\ queue6 \in Seq(CloudWords) /\ queue6 # << >> /\ Head(queue6) \in CloudWords
           /\ queue6' = Tail(queue6)
           /\ counters \in Counters
           /\ counters' = Count(counters, DequeueQ6(Head(queue6), [val |-> 777, type |-> 777]))
           /\ UNCHANGED <<requested, received, stream>>
BY WordGoesOut DEF MqttClientLoop, CloudTypeOK, Counters

\* What the types of the counters and of the histories say.
LEMMA TrafficType ==
    ASSUME CloudTypeOK
    PROVE  /\ queue6 \in Seq(CloudWords) /\ Len(queue6) \in Nat /\ Len(queue6) <= QUEUE_SIZE
           /\ QUEUE_SIZE \in Nat /\ MaxSent \in Nat /\ MaxRequested \in Nat
           /\ counters \in Counters /\ stream \in Stream
           /\ requested \in Nat /\ received \in Nat /\ stream.events \in Nat
           /\ counters.count \in Nat /\ counters.revCount \in Nat /\ counters.missed_MSG \in Nat
           /\ counters.Last_Id \in Nat
<1>1. queue6 \in Seq(CloudWords) /\ Len(queue6) <= QUEUE_SIZE
    BY DEF CloudTypeOK
<1>2. QUEUE_SIZE \in Nat /\ MaxSent \in Nat /\ MaxRequested \in Nat
    BY CloudAssumption, QueueSizeAssumption
<1>3. stream \in Stream
    BY DEF CloudTypeOK
<1>4. counters \in Counters
    BY DEF CloudTypeOK, Counters
<1>5. requested \in 0..(MaxRequested + 1) /\ received \in 0..MaxSent
    BY DEF CloudTypeOK
<1>6. requested \in Nat /\ received \in Nat
    BY <1>2, <1>5
<1>7. stream.events \in 0..MaxSent
    BY <1>3 DEF Stream
<1>8. stream.events \in Nat
    BY <1>2, <1>7
<1>. QED
    BY <1>1, <1>2, <1>3, <1>4, <1>6, <1>8 DEF Counters

\* A word that is no order to disconnect goes in.
LEMMA TagsIn ==
    ASSUME NEW q \in Seq(CloudWords), NEW w \in CloudWords, w.tag \notin {3, 4},
           \A n \in DOMAIN q : q[n].tag \notin {3, 4}, Len(q) < QUEUE_SIZE
    PROVE  /\ Append(q, w) \in Seq(CloudWords) /\ Len(Append(q, w)) <= QUEUE_SIZE
           /\ \A n \in DOMAIN Append(q, w) : Append(q, w)[n].tag \notin {3, 4}
<1>1. \A n \in 1..(Len(q) + 1) : n \in 1..Len(q) \/ n = Len(q) + 1
    BY WordGoesIn
<1>2. \A n \in DOMAIN Append(q, w) : Append(q, w)[n].tag \notin {3, 4}
    BY <1>1, WordGoesIn
<1>. QED
    BY <1>2, WordGoesIn, QueueSizeAssumption

LEMMA TagsOut ==
    ASSUME NEW q \in Seq(CloudWords), q # << >>,
           \A n \in DOMAIN q : q[n].tag \notin {3, 4}, Len(q) <= QUEUE_SIZE
    PROVE  /\ Tail(q) \in Seq(CloudWords) /\ Len(Tail(q)) <= QUEUE_SIZE
           /\ \A n \in DOMAIN Tail(q) : Tail(q)[n].tag \notin {3, 4}
<1>1. \A n \in 1..(Len(q) - 1) : n + 1 \in 1..Len(q)
    BY WordGoesOut
<1>2. \A n \in DOMAIN Tail(q) : Tail(q)[n].tag \notin {3, 4}
    BY <1>1, WordGoesOut
<1>. QED
    BY <1>2, WordGoesOut, QueueSizeAssumption

LEMMA TrafficStep ==
    ASSUME CloudTypeOK, QueueInv, [CloudNext]_cloudVars
    PROVE  /\ queue6' \in Seq(CloudWords) /\ Len(queue6') <= QUEUE_SIZE
           /\ \A n \in DOMAIN queue6' : queue6'[n].tag \notin {3, 4}
           /\ counters' \in Counters /\ stream' \in Stream
           /\ received' \in Nat /\ received' <= stream'.events
<1>1. /\ \A n \in DOMAIN queue6 : queue6[n].tag \notin {3, 4}
      /\ received <= stream.events
    BY DEF QueueInv
<1>2. /\ queue6 \in Seq(CloudWords) /\ Len(queue6) <= QUEUE_SIZE
      /\ counters \in Counters /\ stream \in Stream
      /\ received \in Nat /\ stream.events \in Nat
    BY TrafficType
<1>3. CASE UNCHANGED traffic
    BY <1>1, <1>2, <1>3 DEF traffic
<1>4. CASE MqttClientLoop
    <2>1. counters' \in Counters
        BY <1>4, LoopSays, CountSays
    <2>. QED
        BY <1>1, <1>2, <1>4, <2>1, LoopSays, TagsOut
<1>5. ASSUME NEW w, Requests(w)
      PROVE  /\ queue6' \in Seq(CloudWords) /\ Len(queue6') <= QUEUE_SIZE
             /\ \A n \in DOMAIN queue6' : queue6'[n].tag \notin {3, 4}
             /\ UNCHANGED <<counters, received, stream>>
    <2>1. w \in CloudWords /\ w.tag \notin {3, 4} /\ Len(queue6) < QUEUE_SIZE
          /\ queue6' = Append(queue6, w) /\ UNCHANGED <<counters, received, stream>>
        BY <1>5 DEF Requests, HasRoom
    <2>. QED
        BY <1>1, <1>2, <2>1, TagsIn
<1>6. ASSUME NEW n \in Nat, Hear(n)
      PROVE  /\ queue6' \in Seq(CloudWords) /\ Len(queue6') <= QUEUE_SIZE
             /\ \A k \in DOMAIN queue6' : queue6'[k].tag \notin {3, 4}
             /\ received' = received + 1
    <2>1. Len(queue6) < QUEUE_SIZE
        BY <1>6, HearSays DEF HasRoom
    <2>2. CloudWord(n, 4) \in CloudWords /\ CloudWord(n, 4).tag \notin {3, 4}
          /\ queue6' = Append(queue6, CloudWord(n, 4))
        BY <1>6, HearSays
    <2>. QED
        BY <1>1, <1>2, <1>6, <2>1, <2>2, HearSays, TagsIn
<1>7. ASSUME NEW s \in Senders, Deliver(s) \/ Repeat(s)
      PROVE  /\ \E n \in Nat : Hear(n)
             /\ stream' \in Stream /\ stream'.events = stream.events + 1
             /\ UNCHANGED counters
    <2>1. stream.next[s] \in Nat /\ stream.last[s] \in Nat
        BY <1>2 DEF Stream
    <2>2. CASE Deliver(s)
        <3>1. Hear(stream.next[s])
            BY <2>2 DEF Deliver
        <3>. QED
            BY <2>1, <2>2, <3>1, DeliverSays
    <2>3. CASE Repeat(s)
        <3>1. PICK n \in 1..stream.last[s] : Hear(n)
            BY <2>3 DEF Repeat
        <3>2. n \in Nat
            BY <2>1
        <3>. QED
            BY <2>3, <3>1, <3>2, RepeatSays
    <2>. QED
        BY <1>7, <2>2, <2>3
<1>8. CASE \E s \in Senders : Deliver(s) \/ Repeat(s)
    <2>1. stream' \in Stream /\ stream'.events = stream.events + 1 /\ counters' = counters
        BY <1>7, <1>8
    <2>2. PICK n \in Nat : Hear(n)
        BY <1>7, <1>8
    <2>. QED
        BY <1>1, <1>2, <1>6, <2>1, <2>2
<1>9. CASE \E s \in Senders : Lose(s) \/ Restart(s)
    <2>1. stream' \in Stream /\ stream'.events = stream.events + 1
          /\ UNCHANGED <<queue6, counters, received>>
        BY <1>9, LoseSays, RestartSays
    <2>. QED
        BY <1>1, <1>2, <2>1
<1>. QED
    BY <1>1, <1>2, <1>3, <1>4, <1>5, <1>8, <1>9, TrafficMoves

\* The bound on the words asked for leaves room for the greeting of EndRxThread.
LEMMA RequestedStep ==
    ASSUME CloudTypeOK, StartInv, QueueInv, [CloudNext]_cloudVars
    PROVE  /\ requested' \in Nat
           /\ requested' <= MaxRequested + IF rxpc' = "ended" THEN 1 ELSE 0
<1>1. requested \in Nat /\ MaxRequested \in Nat
    BY TrafficType
<1>2. requested <= MaxRequested + IF rxpc = "ended" THEN 1 ELSE 0
    BY DEF QueueInv
<1>3. CASE \/ NetStep \/ StoreApState \/ Mqtt_start \/ CreateThreads \/ StartClient
           \/ CreateClient \/ ConnectClient \/ Subscribe \/ MqttClientLoop
           \/ LoseSession \/ StatsTimer \/ UNCHANGED cloudVars
    <2>1. UNCHANGED <<requested, rxpc>>
        BY <1>3 DEF NetStep, StoreApState, Mqtt_start, CreateThreads, StartClient, CreateClient,
                    ConnectClient, Subscribe, MqttClientLoop, LoseSession, StatsTimer, At,
                    cloudVars, link, traffic
    <2>. QED
        BY <1>1, <1>2, <2>1
<1>4. CASE CreateRxThread \/ RunReturns
    <2>1. requested' = requested /\ rxpc # "ended" /\ rxpc' # "ended"
        BY <1>4 DEF CreateRxThread, RunReturns, At, traffic, StartInv
    <2>. QED
        BY <1>1, <1>2, <2>1
<1>5. CASE EndRxThread
    <2>1. requested' = requested + 1 /\ rxpc = "ending" /\ rxpc' = "ended"
        BY <1>5 DEF EndRxThread
    <2>. QED
        BY <1>1, <1>2, <2>1
<1>6. CASE \E type \in {5, 6, 7, 8, 9} : Publish(type)
    <2>1. requested' = requested + 1 /\ requested < MaxRequested
        BY <1>6 DEF Publish
    <2>. QED
        BY <1>1, <2>1
<1>7. CASE \E s \in Senders : Deliver(s) \/ Repeat(s) \/ Lose(s) \/ Restart(s)
    <2>1. UNCHANGED <<requested, rxpc>>
        BY <1>7 DEF Deliver, Repeat, Lose, Restart, OfTeam, link
    <2>. QED
        BY <1>1, <1>2, <2>1
<1>. QED
    BY <1>3, <1>4, <1>5, <1>6, <1>7 DEF CloudNext, Broker

\* A topic goes on, and only MqttClient has it told a number: the one after the last.
LEMMA NumbersMove ==
    ASSUME CloudTypeOK, [CloudNext]_cloudVars, NEW topic \in Topics
    PROVE  \/ numbers'[topic] = numbers[topic] /\ counters'.count \in {counters.count,
                                                                      counters.count + 1}
           \/ /\ numbers'[topic] = Append(numbers[topic], counters.count + 1)
              /\ counters'.count = counters.count + 1
<1>1. counters.count \in Nat /\ counters.count + 0 = counters.count
    BY TrafficType
<1>2. CASE UNCHANGED <<counters, numbers>>
    BY <1>2
<1>3. UNCHANGED traffic => UNCHANGED <<counters, numbers>>
    BY DEF traffic
<1>4. ASSUME NEW w, Requests(w) PROVE UNCHANGED <<counters, numbers>>
    BY <1>4 DEF Requests
<1>5. ASSUME NEW s \in Senders, Deliver(s) \/ Repeat(s) \/ Lose(s) \/ Restart(s)
      PROVE  UNCHANGED <<counters, numbers>>
    BY <1>5 DEF Deliver, Repeat, Lose, Restart, OfTeam
<1>6. CASE MqttClientLoop
    <2>. DEFINE w == Head(queue6)
                m == DequeueQ6(w, [val |-> 777, type |-> 777])
    <2>1. w \in CloudWords /\ counters' = Count(counters, m) /\ counters \in Counters
        BY <1>6, LoopSays
    <2>2. counters'.count = counters.count + IF w.tag - 1 \in Numbered THEN 1 ELSE 0
        BY <2>1, CountSays
    <2>3. numbers'[topic] = IF topic \in TopicsOf(m.type)
                              THEN Append(numbers[topic], counters'.count)
                              ELSE numbers[topic]
        BY <1>6 DEF MqttClientLoop
    <2>4. m.type = w.tag - 1
        BY <2>1 DEF DequeueQ6, CloudWords
    <2>. HIDE DEF m, w
    <2>5. topic \in TopicsOf(m.type) => m.type \in Numbered
        BY DEF TopicsOf, Numbered
    <2>6. CASE topic \in TopicsOf(m.type)
        BY <2>2, <2>3, <2>4, <2>5, <2>6
    <2>7. CASE topic \notin TopicsOf(m.type)
        BY <1>1, <2>2, <2>3, <2>7
    <2>. QED
        BY <2>6, <2>7
<1>. QED
    BY <1>2, <1>3, <1>4, <1>5, <1>6, TrafficMoves

LEMMA NumberNext ==
    ASSUME NEW s \in Seq(Nat), NEW count \in Nat, Issued(s, count)
    PROVE  /\ Issued(s, count + 1)
           /\ Append(s, count + 1) \in Seq(Nat) /\ Issued(Append(s, count + 1), count + 1)
<1>. DEFINE t == Append(s, count + 1)
<1>1. /\ Len(s) \in Nat /\ t \in Seq(Nat) /\ Len(t) = Len(s) + 1
      /\ t[Len(s) + 1] = count + 1
      /\ \A n \in 1..Len(s) : t[n] = s[n] /\ s[n] \in Nat
    BY AppendProperties, LenProperties, ElementOfSeq
<1>2. /\ \A n \in 2..Len(s) : s[n - 1] < s[n]
      /\ \A n \in 1..Len(s) : s[n] <= count
    BY DEF Issued, Increasing
<1>. HIDE DEF t
<1>3. \A n \in 1..Len(s) : s[n] <= count + 1
    BY <1>1, <1>2
<1>4. Issued(s, count + 1)
    BY <1>2, <1>3 DEF Issued, Increasing
<1>5. \A n \in 1..Len(t) : t[n] <= count + 1
    <2>1. \A n \in 1..Len(t) : n \in 1..Len(s) \/ n = Len(s) + 1
        BY <1>1
    <2>. QED
        BY <1>1, <1>3, <2>1
<1>6. \A n \in 2..Len(t) : t[n - 1] < t[n]
    <2>. SUFFICES ASSUME NEW n \in 2..Len(t) PROVE t[n - 1] < t[n]
        OBVIOUS
    <2>1. n - 1 \in 1..Len(s) /\ t[n - 1] = s[n - 1] /\ s[n - 1] \in Nat
        BY <1>1
    <2>2. CASE n = Len(s) + 1
        BY <1>1, <1>2, <2>1, <2>2
    <2>3. CASE n # Len(s) + 1
        <3>1. n \in 2..Len(s) /\ n \in 1..Len(s)
            BY <1>1, <2>3
        <3>. QED
            BY <1>1, <1>2, <2>1, <3>1
    <2>. QED
        BY <2>2, <2>3
<1>. QED
    BY <1>1, <1>4, <1>5, <1>6 DEF Issued, Increasing, t

LEMMA NumbersTyped ==
    ASSUME CloudTypeOK, [CloudNext]_cloudVars
    PROVE  numbers' \in [Topics -> Seq(Nat)]
<1>1. counters.count \in Nat /\ numbers \in [Topics -> Seq(Nat)]
    BY TrafficType DEF CloudTypeOK
<1>2. numbers' = [topic \in Topics |-> numbers'[topic]]
    <2>1. CASE UNCHANGED numbers
        BY <1>1, <2>1
    <2>2. CASE MqttClientLoop
        BY <2>2 DEF MqttClientLoop
    <2>3. ASSUME NEW w, Requests(w) PROVE UNCHANGED numbers
        BY <2>3 DEF Requests
    <2>4. ASSUME NEW s \in Senders, Deliver(s) \/ Repeat(s) \/ Lose(s) \/ Restart(s)
          PROVE  UNCHANGED numbers
        BY <2>4 DEF Deliver, Repeat, Lose, Restart, OfTeam
    <2>5. UNCHANGED traffic => UNCHANGED numbers
        BY DEF traffic
    <2>. QED
        BY <2>1, <2>2, <2>3, <2>4, <2>5, TrafficMoves
<1>3. ASSUME NEW topic \in Topics PROVE numbers'[topic] \in Seq(Nat)
    <2>1. numbers[topic] \in Seq(Nat) /\ counters.count + 1 \in Nat
        BY <1>1
    <2>2. Append(numbers[topic], counters.count + 1) \in Seq(Nat)
        BY <2>1, AppendProperties
    <2>. QED
        BY <2>1, <2>2, NumbersMove
<1>. QED
    BY <1>2, <1>3

LEMMA NumbersStep ==
    ASSUME CloudTypeOK, NumbersInv, [CloudNext]_cloudVars
    PROVE  NumbersInv'
<1>. SUFFICES ASSUME NEW topic \in Topics
              PROVE  Issued(numbers'[topic], counters'.count)
    BY DEF NumbersInv
<1>1. /\ counters.count \in Nat /\ numbers[topic] \in Seq(Nat)
      /\ Issued(numbers[topic], counters.count)
    BY TrafficType DEF CloudTypeOK, NumbersInv
<1>. QED
    BY <1>1, NumberNext, NumbersMove

LEMMA CloudTypeStep ==
    ASSUME CloudTypeOK, NetTypeOK', StartInv, QueueInv, [CloudNext]_cloudVars
    PROVE  CloudTypeOK'
<1>1. /\ mainpc' \in {"link", "mqtt start", "threads", "spin"}
      /\ gApConnectionState' \in {-1, 0} /\ t0' \in BOOLEAN
    <2>1. CASE UNCHANGED startup
        BY <2>1 DEF CloudTypeOK, startup
    <2>2. CASE StoreApState \/ Mqtt_start \/ CreateThreads
        BY <2>2 DEF CloudTypeOK, StoreApState, Mqtt_start, CreateThreads, Mqtt_IF_Connect
    <2>3. CASE \/ NetStep \/ StartClient \/ CreateClient \/ CreateRxThread \/ ConnectClient
               \/ Subscribe \/ MqttClientLoop \/ RunReturns \/ EndRxThread \/ Broker
               \/ StatsTimer \/ (\E type \in {5, 6, 7, 8, 9} : Publish(type))
               \/ UNCHANGED cloudVars
        <3>1. UNCHANGED startup
            BY <2>3 DEF NetStep, StartClient, CreateClient, CreateRxThread, ConnectClient,
                        Subscribe, MqttClientLoop, RunReturns, EndRxThread, Broker, LoseSession,
                        StatsTimer, Publish, Deliver, Repeat, Lose, Restart, OfTeam, At, cloudVars
        <3>. QED
            BY <2>1, <3>1
    <2>. QED
        BY <2>2, <2>3 DEF CloudNext
<1>2. /\ mcpc' \in {"none", "start", "create", "thread", "connect", "subscribe", "loop", "exited"}
      /\ gMqttClient' \in BOOLEAN /\ gUiConnFlag' \in {0, 1}
      /\ rxpc' \in {"none", "running", "ending", "ended"} /\ gResetApplication' \in BOOLEAN
      /\ session' \in {"none", "up", "lost", "closed"} /\ subscribed' \in BOOLEAN
    <2>. USE DEF CloudTypeOK
    <2>1. CASE NetStep \/ StoreApState \/ Mqtt_start \/ CreateThreads \/ UNCHANGED cloudVars
        <3>1. /\ mcpc' \in {mcpc, "start", "none"}
              /\ UNCHANGED <<gMqttClient, gUiConnFlag, rxpc, gResetApplication, session,
                             subscribed>>
            <4>1. CASE NetStep \/ UNCHANGED cloudVars
                BY <4>1 DEF NetStep, cloudVars, client, link
            <4>2. CASE StoreApState \/ Mqtt_start
                BY <4>2 DEF StoreApState, Mqtt_start, client, link
            <4>3. CASE CreateThreads
                BY <4>3 DEF CreateThreads, client, link
            <4>. QED
                BY <2>1, <4>1, <4>2, <4>3
        <3>. QED
            BY <3>1
    <2>2. CASE StartClient \/ CreateClient \/ CreateRxThread
        <3>1. CASE StartClient
            BY <3>1 DEF StartClient, At, link
        <3>2. CASE CreateClient
            BY <3>2 DEF CreateClient, At, link
        <3>3. CASE CreateRxThread
            BY <3>3 DEF CreateRxThread, At, link
        <3>. QED
            BY <2>2, <3>1, <3>2, <3>3
    <2>3. CASE ConnectClient \/ Subscribe
        BY <2>3 DEF ConnectClient, Subscribe, At
    <2>4. CASE MqttClientLoop
        <3>. HIDE DEF CloudTypeOK
        <3>1. /\ mcpc' \in {"exited", "loop"} /\ gUiConnFlag' \in {0, gUiConnFlag}
              /\ UNCHANGED <<gMqttClient, link>>
            BY <2>4 DEF MqttClientLoop
        <3>2. rxpc' = rxpc /\ gResetApplication' = gResetApplication /\ session' = session
              /\ subscribed' = subscribed /\ gMqttClient' = gMqttClient
            BY <3>1 DEF link
        <3>. USE DEF CloudTypeOK
        <3>. QED
            BY <3>1, <3>2
    <2>5. CASE LoseSession \/ RunReturns
        BY <2>5 DEF LoseSession, RunReturns, client
    <2>6. CASE \/ EndRxThread \/ StatsTimer \/ (\E type \in {5, 6, 7, 8, 9} : Publish(type))
               \/ (\E s \in Senders : Deliver(s) \/ Repeat(s) \/ Lose(s) \/ Restart(s))
        <3>1. /\ UNCHANGED <<netVars, startup, client, gResetApplication, session, subscribed>>
              /\ rxpc' = rxpc \/ (rxpc = "ending" /\ rxpc' = "ended")
            BY <2>6, TrafficOnly
        <3>. QED
            BY <3>1 DEF client
    <2>. QED
        BY <2>1, <2>2, <2>3, <2>4, <2>5, <2>6 DEF CloudNext, Broker
<1>3. /\ queue6' \in Seq(CloudWords) /\ Len(queue6') <= QUEUE_SIZE
      /\ counters' \in Counters /\ stream' \in Stream
      /\ received' \in Nat /\ received' <= stream'.events
    BY TrafficStep
<1>4. numbers' \in [Topics -> Seq(Nat)]
    BY NumbersTyped
<1>5. received' \in 0..MaxSent
    <2>1. stream'.events \in 0..MaxSent
        BY <1>3 DEF Stream
    <2>. QED
        BY <1>3, <2>1, CloudAssumption
<1>6. requested' \in 0..(MaxRequested + 1)
    BY RequestedStep, CloudAssumption
<1>. QED
    BY <1>1, <1>2, <1>3, <1>4, <1>5, <1>6 DEF CloudTypeOK, Counters

LEMMA QueueStep ==
    ASSUME CloudTypeOK, StartInv, QueueInv, [CloudNext]_cloudVars
    PROVE  QueueInv'
BY TrafficStep, RequestedStep DEF QueueInv

-----------------------------------------------------------------------------
(***************************************************************************)
(* Every message is counted once.                                          *)
(***************************************************************************)

\* What is counted and what waits to be counted, when a word goes in and when one
\* goes out.
LEMMA CountedIn ==
    ASSUME CloudTypeOK, Counted, NEW w \in CloudWords,
           queue6' = Append(queue6, w), counters' = counters,
           requested' = requested + IF w.tag - 1 \in Numbered THEN 1 ELSE 0,
           received' = received + IF w.tag - 1 \in {4} THEN 1 ELSE 0
    PROVE  Counted'
<1>1. queue6 \in Seq(CloudWords) /\ counters.count \in Nat /\ counters.revCount \in Nat
    BY TrafficType
<1>2. /\ Cardinality(Places(queue6, Numbered)) \in Nat
      /\ Cardinality(Places(queue6, {4})) \in Nat
    BY <1>1, WaitingType
<1>3. /\ counters.count + Cardinality(Places(queue6, Numbered)) = requested
      /\ counters.revCount + Cardinality(Places(queue6, {4})) = received
    BY DEF Counted, Waiting
<1>4. Cardinality(Places(queue6', Numbered))
        = Cardinality(Places(queue6, Numbered)) + IF w.tag - 1 \in Numbered THEN 1 ELSE 0
    BY <1>1, OneMoreWaiting
<1>5. Cardinality(Places(queue6', {4}))
        = Cardinality(Places(queue6, {4})) + IF w.tag - 1 \in {4} THEN 1 ELSE 0
    BY <1>1, OneMoreWaiting
<1>6. counters.count + Cardinality(Places(queue6', Numbered)) = requested'
    BY <1>1, <1>2, <1>3, <1>4
<1>7. counters.revCount + Cardinality(Places(queue6', {4})) = received'
    BY <1>1, <1>2, <1>3, <1>5
<1>. QED
    BY <1>6, <1>7 DEF Counted, Waiting

LEMMA CountedOut ==
    ASSUME CloudTypeOK, Counted, MqttClientLoop
    PROVE  Counted'
<1>. DEFINE w == Head(queue6)
<1>1. /\ queue6 \in Seq(CloudWords) /\ queue6 # << >> /\ queue6' = Tail(queue6)
      /\ w \in CloudWords /\ UNCHANGED <<requested, received>>
    BY LoopSays
<1>2. counters.count \in Nat /\ counters.revCount \in Nat
    BY TrafficType
<1>3. /\ counters'.count = counters.count + IF w.tag - 1 \in Numbered THEN 1 ELSE 0
      /\ counters'.revCount = counters.revCount + IF w.tag - 1 \in {4} THEN 1 ELSE 0
    BY LoopSays, CountSays
<1>4. /\ counters.count + Cardinality(Places(queue6, Numbered)) = requested
      /\ counters.revCount + Cardinality(Places(queue6, {4})) = received
    BY DEF Counted, Waiting
<1>5. /\ Cardinality(Places(queue6', Numbered)) \in Nat
      /\ Cardinality(Places(queue6', {4})) \in Nat
    BY <1>1, WaitingType, WordGoesOut
<1>6. Cardinality(Places(queue6, Numbered))
        = Cardinality(Places(queue6', Numbered)) + IF w.tag - 1 \in Numbered THEN 1 ELSE 0
    BY <1>1, OneLessWaiting
<1>7. Cardinality(Places(queue6, {4}))
        = Cardinality(Places(queue6', {4})) + IF w.tag - 1 \in {4} THEN 1 ELSE 0
    BY <1>1, OneLessWaiting
<1>. DEFINE numbered == Cardinality(Places(queue6', Numbered))
            heard == Cardinality(Places(queue6', {4}))
            one == IF w.tag - 1 \in Numbered THEN 1 ELSE 0
            two == IF w.tag - 1 \in {4} THEN 1 ELSE 0
<1>8. counters'.count + numbered = requested'
    <2>1. counters'.count = counters.count + one /\ numbered \in Nat /\ one \in Nat
          /\ counters.count + (numbered + one) = requested'
        BY <1>1, <1>3, <1>4, <1>5, <1>6
    <2>. HIDE DEF numbered, one
    <2>. QED
        BY <1>2, <2>1
<1>9. counters'.revCount + heard = received'
    <2>1. counters'.revCount = counters.revCount + two /\ heard \in Nat /\ two \in Nat
          /\ counters.revCount + (heard + two) = received'
        BY <1>1, <1>3, <1>4, <1>5, <1>7
    <2>. HIDE DEF heard, two
    <2>. QED
        BY <1>2, <2>1
<1>. QED
    BY <1>8, <1>9 DEF Counted, Waiting

LEMMA CountedStep ==
    ASSUME CloudTypeOK, Counted, [CloudNext]_cloudVars
    PROVE  Counted'
<1>1. requested \in Nat /\ received \in Nat /\ stream \in Stream
    BY TrafficType
<1>2. CASE UNCHANGED traffic
    BY <1>2 DEF traffic, Counted, Waiting
<1>3. ASSUME NEW w, Requests(w) PROVE Counted'
    <2>1. /\ w \in CloudWords /\ w.tag # 5 /\ queue6' = Append(queue6, w)
          /\ counters' = counters /\ received' = received
          /\ requested' = requested + IF w.tag - 1 \in Numbered THEN 1 ELSE 0
        BY <1>3 DEF Requests
    <2>2. w.tag - 1 \notin {4}
        BY <2>1 DEF CloudWords
    <2>3. received' = received + IF w.tag - 1 \in {4} THEN 1 ELSE 0
        BY <1>1, <2>1, <2>2
    <2>. QED
        BY <2>1, <2>3, CountedIn
<1>4. ASSUME NEW n \in Nat, Hear(n), UNCHANGED <<counters, requested>> PROVE Counted'
    <2>. DEFINE w == CloudWord(n, 4)
    <2>1. w \in CloudWords /\ w.tag = 5 /\ queue6' = Append(queue6, w) /\ received' = received + 1
        BY <1>4, HearSays
    <2>. HIDE DEF w
    <2>2. w.tag - 1 \notin Numbered /\ w.tag - 1 \in {4}
        BY <2>1 DEF Numbered
    <2>3. requested' = requested + IF w.tag - 1 \in Numbered THEN 1 ELSE 0
        BY <1>1, <1>4, <2>2
    <2>. QED
        BY <1>4, <2>1, <2>2, <2>3, CountedIn
<1>5. ASSUME NEW s \in Senders, Deliver(s) \/ Repeat(s) PROVE Counted'
    <2>1. stream.next[s] \in Nat /\ stream.last[s] \in Nat
        BY <1>1 DEF Stream
    <2>2. UNCHANGED <<counters, requested>>
        BY <1>5, DeliverSays, RepeatSays
    <2>3. \E n \in Nat : Hear(n)
        BY <1>5, <2>1 DEF Deliver, Repeat
    <2>. QED
        BY <1>4, <2>2, <2>3
<1>6. CASE \E s \in Senders : Lose(s) \/ Restart(s)
    <2>1. UNCHANGED <<queue6, counters, requested, received>>
        BY <1>6, LoseSays, RestartSays
    <2>. QED
        BY <2>1 DEF Counted, Waiting
<1>. QED
    BY <1>2, <1>3, <1>5, <1>6, CountedOut, TrafficMoves

-----------------------------------------------------------------------------
(***************************************************************************)
(* What missed_MSG will be.                                                *)
(***************************************************************************)

LEMMA WillMissType ==
    ASSUME CloudTypeOK
    PROVE  WillMiss \in Nat
<1>1. queue6 \in Seq(CloudWords) /\ counters.missed_MSG \in Nat
    BY TrafficType
<1>2. Cardinality(OutOfTurn(queue6, counters.Last_Id)) \in Nat
    BY <1>1, OutOfTurnType
<1>. QED
    BY <1>1, <1>2 DEF WillMiss

\* A word goes in: it is owed when it is a message out of turn.
LEMMA WillMissIn ==
    ASSUME CloudTypeOK, NEW v \in Nat, NEW w \in CloudWords,
           HeardBefore(queue6, counters.Last_Id, Len(queue6) + 1, v),
           queue6' = Append(queue6, w), counters' = counters
    PROVE  /\ HeardBefore(queue6', counters'.Last_Id, Len(queue6') + 1,
                          IF w.tag = 5 THEN w.val ELSE v)
           /\ WillMiss' = WillMiss + IF w.tag = 5 /\ w.val \notin {1, v + 1} THEN 1 ELSE 0
<1>1. queue6 \in Seq(CloudWords) /\ counters.missed_MSG \in Nat
    BY TrafficType
<1>. DEFINE S == OutOfTurn(queue6, counters.Last_Id)
            R == OutOfTurn(queue6', counters.Last_Id)
<1>2. Cardinality(S) \in Nat
    BY <1>1, OutOfTurnType
<1>3. Cardinality(R) = Cardinality(S) + IF w.tag = 5 /\ w.val \notin {1, v + 1} THEN 1 ELSE 0
    BY <1>1, OneMoreOutOfTurn
<1>4. HeardBefore(queue6', counters.Last_Id, Len(queue6') + 1, IF w.tag = 5 THEN w.val ELSE v)
    BY <1>1, HeardNext
<1>5. WillMiss = counters.missed_MSG + Cardinality(S)
    BY DEF WillMiss
<1>6. WillMiss' = counters.missed_MSG + Cardinality(R)
    BY DEF WillMiss
<1>. HIDE DEF S, R
<1>. QED
    BY <1>1, <1>2, <1>3, <1>4, <1>5, <1>6

\* A word goes out: what was owed has been paid.
LEMMA WillMissOut ==
    ASSUME CloudTypeOK, MqttClientLoop, NEW v \in Nat,
           HeardBefore(queue6, counters.Last_Id, Len(queue6) + 1, v)
    PROVE  /\ HeardBefore(queue6', counters'.Last_Id, Len(queue6') + 1, v)
           /\ WillMiss' = WillMiss
<1>. DEFINE w == Head(queue6)
            last == counters.Last_Id
            first == IF w.tag = 5 THEN w.val ELSE last
            S == OutOfTurn(queue6, last)
            T == OutOfTurn(queue6', first)
            out == w.tag = 5 /\ w.val \notin {1, last + 1}
<1>1. /\ queue6 \in Seq(CloudWords) /\ queue6 # << >> /\ queue6' = Tail(queue6)
      /\ w \in CloudWords
    BY LoopSays
<1>2. counters.missed_MSG \in Nat /\ last \in Nat
    BY TrafficType
<1>3. /\ counters'.missed_MSG = counters.missed_MSG + IF out THEN 1 ELSE 0
      /\ counters'.Last_Id = first
    BY LoopSays, CountSays
<1>4. Cardinality(S) = Cardinality(T) + IF out THEN 1 ELSE 0
    BY <1>1, <1>2, OneLessOutOfTurn
<1>5. /\ Len(queue6) \in Nat \ {0} /\ Len(queue6') = Len(queue6) - 1
      /\ queue6' \in Seq(CloudWords)
    BY <1>1, WordGoesOut
<1>6. Cardinality(T) \in Nat
    BY <1>5, OutOfTurnType
<1>7. HeardBefore(queue6', first, Len(queue6), v)
    BY <1>1, <1>5, HeardMoved
<1>8. Len(queue6') + 1 = Len(queue6)
    BY <1>5
<1>9. WillMiss = counters.missed_MSG + Cardinality(S)
    BY DEF WillMiss
<1>10. WillMiss' = counters'.missed_MSG + Cardinality(T)
    BY <1>3 DEF WillMiss
<1>. HIDE DEF S, T, first, out, w
<1>11. WillMiss' = WillMiss
    BY <1>2, <1>3, <1>4, <1>6, <1>9, <1>10
<1>. QED
    BY <1>3, <1>7, <1>8, <1>11

\* A message that is heard: the word that goes in, with the number of the message.
LEMMA MissedHear ==
    ASSUME CloudTypeOK, NEW v \in Nat, NEW n \in Nat, Hear(n), counters' = counters,
           HeardBefore(queue6, counters.Last_Id, Len(queue6) + 1, v)
    PROVE  /\ HeardBefore(queue6', counters'.Last_Id, Len(queue6') + 1, n)
           /\ WillMiss' = WillMiss + IF n \notin {1, v + 1} THEN 1 ELSE 0
<1>. DEFINE w == CloudWord(n, 4)
<1>1. w \in CloudWords /\ w.tag = 5 /\ w.val = n /\ queue6' = Append(queue6, w)
    BY HearSays
<1>. HIDE DEF w
<1>2. /\ HeardBefore(queue6', counters'.Last_Id, Len(queue6') + 1,
                     IF w.tag = 5 THEN w.val ELSE v)
      /\ WillMiss' = WillMiss + IF w.tag = 5 /\ w.val \notin {1, v + 1} THEN 1 ELSE 0
    BY <1>1, WillMissIn
<1>. QED
    BY <1>1, <1>2

\* The next message of a team, or one after a gap: what the team owed has become a
\* message out of turn, and another team pays with its switch.
LEMMA MissedDeliver ==
    ASSUME CloudTypeOK, NEW v \in Nat, StreamInv(v), NEW s \in Senders, Deliver(s),
           NEW n \in Nat, n = stream.next[s]
    PROVE  StreamInv(n)'
<1>. DEFINE f == stream.from
            out == IF n \notin {1, v + 1} THEN 1 ELSE 0
            gap == IF Switch(s) = 0 /\ n > stream.last[s] + 1 THEN 1 ELSE 0
<1>1. /\ stream \in Stream /\ WillMiss \in Nat
    BY TrafficType, WillMissType
<1>2. /\ n \in Nat \ {0} /\ stream.last[s] \in Nat /\ f \in Senders \cup {NoSender}
      /\ stream.lost \in Nat /\ stream.gaps \in Nat /\ stream.repeats \in Nat
      /\ stream.switches \in Nat /\ stream.restarts \in Nat
      /\ s # NoSender
    BY <1>1, StreamType, CloudAssumption
<1>3. /\ stream'.next[s] = n + 1 /\ stream'.last[s] = n /\ stream'.from = s
      /\ stream'.switches = stream.switches + Switch(s)
      /\ stream'.gaps = stream.gaps + gap
      /\ stream'.lost = stream.lost /\ stream'.repeats = stream.repeats
      /\ stream'.restarts = stream.restarts
      /\ counters' = counters
    <2>1. /\ stream'.next = [stream.next EXCEPT ![s] = stream.next[s] + 1]
          /\ stream'.last = [stream.last EXCEPT ![s] = stream.next[s]]
        BY DeliverSays
    <2>2. stream'.next[s] = n + 1 /\ stream'.last[s] = n
        BY <1>1, <2>1, StreamType
    <2>. QED
        BY <2>2, DeliverSays
<1>4. Hear(n)
    BY DEF Deliver
<1>5. /\ HeardBefore(queue6', counters'.Last_Id, Len(queue6') + 1, n)
      /\ WillMiss' = WillMiss + out
    BY <1>2, <1>3, <1>4, MissedHear DEF StreamInv
<1>6. f = NoSender => /\ v = 0 /\ WillMiss = 0 /\ stream.last[s] = 0
                      /\ n > 1 => stream.lost > 0
    BY DEF StreamInv
<1>7. f # NoSender => WillMiss + (IF stream.next[f] \in {1, v + 1} THEN 0 ELSE 1)
                        <= stream.lost + 2 * stream.repeats + stream.switches
    BY DEF StreamInv
<1>8. stream.restarts = 0 => /\ stream.gaps <= WillMiss
                             /\ f # NoSender => v <= stream.last[f]
    BY DEF StreamInv
<1>9. Switch(s) = IF f = s \/ f = NoSender THEN 0 ELSE 1
    BY DEF Switch
<1>10. WillMiss + out <= stream.lost + 2 * stream.repeats + (stream.switches + Switch(s))
    <2>1. CASE f = NoSender
        <3>1. v = 0 /\ WillMiss = 0 /\ Switch(s) = 0 /\ (n > 1 => stream.lost > 0)
            BY <1>6, <1>9, <2>1
        <3>2. CASE n = 1
            BY <1>2, <3>1, <3>2
        <3>3. CASE n # 1
            <4>1. n > 1 /\ n \notin {1, v + 1}
                BY <1>2, <3>1, <3>3
            <4>2. stream.lost > 0 /\ out = 1
                BY <3>1, <4>1
            <4>. HIDE DEF out
            <4>. QED
                BY <1>2, <3>1, <4>2
        <3>. QED
            BY <3>2, <3>3
    <2>2. CASE f = s
        BY <1>1, <1>2, <1>7, <1>9, <2>2
    <2>3. CASE f # NoSender /\ f # s
        BY <1>1, <1>2, <1>7, <1>9, <2>3
    <2>. QED
        BY <2>1, <2>2, <2>3
<1>11. stream.restarts = 0 => stream.gaps + gap <= WillMiss + out
    <2>1. CASE f = NoSender
        BY <1>1, <1>2, <1>6, <1>8, <2>1
    <2>2. CASE f = s
        BY <1>1, <1>2, <1>8, <2>2
    <2>3. CASE f # NoSender /\ f # s
        BY <1>1, <1>2, <1>8, <1>9, <2>3
    <2>. QED
        BY <2>1, <2>2, <2>3
<1>12. WillMiss' + (IF stream'.next[stream'.from] \in {1, n + 1} THEN 0 ELSE 1)
         <= stream'.lost + 2 * stream'.repeats + stream'.switches
    <2>1. stream'.next[stream'.from] \in {1, n + 1}
        BY <1>3
    <2>2. Switch(s) \in {0, 1}
        BY <1>9
    <2>3. /\ stream'.lost = stream.lost /\ stream'.repeats = stream.repeats
          /\ stream'.switches = stream.switches + Switch(s) /\ WillMiss' = WillMiss + out
        BY <1>3, <1>5
    <2>4. WillMiss' <= stream'.lost + 2 * stream'.repeats + stream'.switches
        BY <1>10, <2>3
    <2>5. WillMiss' \in Nat
        BY <1>1, <2>3
    <2>. QED
        BY <2>1, <2>4, <2>5
<1>13. stream'.restarts = 0 => stream'.gaps <= WillMiss' /\ n <= stream'.last[stream'.from]
    BY <1>2, <1>3, <1>5, <1>11
<1>. QED
    BY <1>2, <1>3, <1>5, <1>12, <1>13 DEF StreamInv

\* A message that comes again pays for two: for itself, and for the next one of its team.
LEMMA MissedRepeat ==
    ASSUME CloudTypeOK, NEW v \in Nat, StreamInv(v), NEW s \in Senders, Repeat(s),
           NEW n \in Nat, n \in 1..stream.last[s], Hear(n)
    PROVE  StreamInv(n)'
<1>. DEFINE f == stream.from
            out == IF n \notin {1, v + 1} THEN 1 ELSE 0
            owed == IF stream.next[s] \in {1, n + 1} THEN 0 ELSE 1
<1>1. /\ stream \in Stream /\ WillMiss \in Nat
    BY TrafficType, WillMissType
<1>2. /\ stream.last[s] \in Nat /\ f \in Senders \cup {NoSender}
      /\ stream.lost \in Nat /\ stream.gaps \in Nat /\ stream.repeats \in Nat
      /\ stream.switches \in Nat /\ stream.restarts \in Nat
      /\ s # NoSender
    BY <1>1, StreamType, CloudAssumption
<1>3. /\ stream'.next = stream.next /\ stream'.last = stream.last /\ stream'.from = s
      /\ stream'.switches = stream.switches + Switch(s)
      /\ stream'.repeats = stream.repeats + 1
      /\ stream'.gaps = stream.gaps /\ stream'.lost = stream.lost
      /\ stream'.restarts = stream.restarts
      /\ counters' = counters
    BY RepeatSays
<1>4. /\ HeardBefore(queue6', counters'.Last_Id, Len(queue6') + 1, n)
      /\ WillMiss' = WillMiss + out
    BY <1>3, MissedHear DEF StreamInv
<1>5. f # NoSender
    <2>1. stream.last[s] # 0
        BY <1>2
    <2>. QED
        BY <2>1 DEF StreamInv
<1>6. WillMiss <= stream.lost + 2 * stream.repeats + stream.switches
    <2>1. WillMiss + (IF stream.next[f] \in {1, v + 1} THEN 0 ELSE 1)
            <= stream.lost + 2 * stream.repeats + stream.switches
        BY <1>5 DEF StreamInv
    <2>. QED
        BY <1>1, <1>2, <2>1
<1>7. Switch(s) \in Nat
    BY DEF Switch
<1>8. out \in {0, 1} /\ owed \in {0, 1}
    OBVIOUS
<1>. HIDE DEF out, owed
<1>9. (WillMiss + out) + owed
        <= stream.lost + 2 * (stream.repeats + 1) + (stream.switches + Switch(s))
    BY <1>1, <1>2, <1>6, <1>7, <1>8
<1>10. WillMiss' + (IF stream'.next[stream'.from] \in {1, n + 1} THEN 0 ELSE 1)
         <= stream'.lost + 2 * stream'.repeats + stream'.switches
    BY <1>3, <1>4, <1>9 DEF owed
<1>11. stream.restarts = 0 => stream.gaps <= WillMiss
    BY DEF StreamInv
<1>12. stream'.restarts = 0 => stream'.gaps <= WillMiss' /\ n <= stream'.last[stream'.from]
    BY <1>1, <1>2, <1>3, <1>4, <1>8, <1>11
<1>. QED
    BY <1>2, <1>3, <1>4, <1>10, <1>12 DEF StreamInv

\* A message that is lost pays for the one that is then owed.
LEMMA MissedLose ==
    ASSUME CloudTypeOK, NEW v \in Nat, StreamInv(v), NEW s \in Senders, Lose(s)
    PROVE  StreamInv(v)'
<1>. DEFINE f == stream.from
<1>1. /\ stream \in Stream /\ stream' \in Stream /\ WillMiss \in Nat
    BY TrafficType, WillMissType, LoseSays
<1>2. /\ stream.next \in [Senders -> Nat \ {0}]
      /\ stream.lost \in Nat /\ stream.repeats \in Nat /\ stream.switches \in Nat
      /\ f \in Senders \cup {NoSender}
    BY <1>1, StreamType
<1>3. /\ stream'.next = [stream.next EXCEPT ![s] = stream.next[s] + 1]
      /\ stream'.lost = stream.lost + 1
      /\ UNCHANGED <<stream.last, stream.from, stream.gaps, stream.repeats, stream.switches,
                     stream.restarts, queue6, counters>>
    BY LoseSays
<1>4. WillMiss' = WillMiss
    BY <1>3 DEF WillMiss
<1>5. f # NoSender =>
        WillMiss + (IF stream'.next[f] \in {1, v + 1} THEN 0 ELSE 1)
          <= stream.lost + 1 + 2 * stream.repeats + stream.switches
    <2>1. f # NoSender => WillMiss + (IF stream.next[f] \in {1, v + 1} THEN 0 ELSE 1)
                            <= stream.lost + 2 * stream.repeats + stream.switches
        BY DEF StreamInv
    <2>. QED
        BY <1>1, <1>2, <2>1
<1>6. stream'.lost > 0
    BY <1>2, <1>3
<1>7. HeardBefore(queue6', counters'.Last_Id, Len(queue6') + 1, v)
    BY <1>3 DEF StreamInv
<1>8. stream'.from = NoSender => /\ v = 0 /\ WillMiss' = 0
                                 /\ \A x \in Senders : stream'.last[x] = 0
    BY <1>3, <1>4 DEF StreamInv
<1>9. stream'.restarts = 0 => /\ stream'.gaps <= WillMiss'
                              /\ stream'.from # NoSender => v <= stream'.last[stream'.from]
    BY <1>3, <1>4 DEF StreamInv
<1>10. stream'.from # NoSender =>
         WillMiss' + (IF stream'.next[stream'.from] \in {1, v + 1} THEN 0 ELSE 1)
           <= stream'.lost + 2 * stream'.repeats + stream'.switches
    BY <1>3, <1>4, <1>5
<1>. QED
    BY <1>6, <1>7, <1>8, <1>9, <1>10 DEF StreamInv

\* A team that begins again with 1 owes nothing.
LEMMA MissedRestart ==
    ASSUME CloudTypeOK, NEW v \in Nat, StreamInv(v), NEW s \in Senders, Restart(s)
    PROVE  StreamInv(v)'
<1>. DEFINE f == stream.from
<1>1. /\ stream \in Stream /\ WillMiss \in Nat
    BY TrafficType, WillMissType
<1>2. /\ stream.next \in [Senders -> Nat \ {0}] /\ stream.last \in [Senders -> Nat]
      /\ stream.lost \in Nat /\ stream.repeats \in Nat /\ stream.switches \in Nat
      /\ stream.restarts \in Nat
    BY <1>1, StreamType
<1>3. /\ stream'.next = [stream.next EXCEPT ![s] = 1]
      /\ stream'.last = [stream.last EXCEPT ![s] = 0]
      /\ stream'.restarts = stream.restarts + 1
      /\ UNCHANGED <<stream.from, stream.lost, stream.gaps, stream.repeats, stream.switches,
                     queue6, counters>>
    BY RestartSays
<1>4. WillMiss' = WillMiss
    BY <1>3 DEF WillMiss
<1>5. f # NoSender =>
        WillMiss + (IF stream'.next[f] \in {1, v + 1} THEN 0 ELSE 1)
          <= stream.lost + 2 * stream.repeats + stream.switches
    <2>1. f # NoSender => WillMiss + (IF stream.next[f] \in {1, v + 1} THEN 0 ELSE 1)
                            <= stream.lost + 2 * stream.repeats + stream.switches
        BY DEF StreamInv
    <2>2. CASE f = s
        <3>1. stream'.next[f] = 1
            BY <1>2, <1>3, <2>2
        <3>. QED
            BY <1>1, <1>2, <2>1, <3>1
    <2>3. CASE f # s
        <3>1. stream'.next[f] = stream.next[f] \/ f \notin Senders
            BY <1>2, <1>3, <2>3
        <3>2. f \in Senders \cup {NoSender}
            BY <1>1, StreamType
        <3>. QED
            BY <2>1, <3>1, <3>2
    <2>. QED
        BY <2>2, <2>3
<1>6. stream'.restarts # 0
    BY <1>2, <1>3
<1>7. HeardBefore(queue6', counters'.Last_Id, Len(queue6') + 1, v)
    BY <1>3 DEF StreamInv
<1>8. stream'.from = NoSender =>
        /\ v = 0 /\ WillMiss' = 0
        /\ \A x \in Senders : /\ stream'.last[x] = 0
                              /\ stream'.next[x] > 1 => stream'.lost > 0
    <2>1. SUFFICES ASSUME f = NoSender
          PROVE /\ v = 0 /\ WillMiss' = 0
                /\ \A x \in Senders : /\ stream'.last[x] = 0
                                      /\ stream'.next[x] > 1 => stream.lost > 0
        BY <1>3
    <2>2. /\ v = 0 /\ WillMiss = 0
          /\ \A x \in Senders : /\ stream.last[x] = 0
                                /\ stream.next[x] > 1 => stream.lost > 0
        BY <2>1 DEF StreamInv
    <2>. QED
        BY <1>2, <1>3, <1>4, <2>2
<1>9. stream'.from # NoSender =>
        WillMiss' + (IF stream'.next[stream'.from] \in {1, v + 1} THEN 0 ELSE 1)
          <= stream'.lost + 2 * stream'.repeats + stream'.switches
    BY <1>3, <1>4, <1>5
<1>. QED
    BY <1>6, <1>7, <1>8, <1>9 DEF StreamInv

LEMMA MissedStep ==
    ASSUME CloudTypeOK, MissedInv, [CloudNext]_cloudVars
    PROVE  MissedInv'
<1>1. PICK v \in Nat : StreamInv(v)
    BY DEF MissedInv
<1>2. stream \in Stream /\ WillMiss \in Nat
    BY TrafficType, WillMissType
<1>3. HeardBefore(queue6, counters.Last_Id, Len(queue6) + 1, v)
    BY <1>1 DEF StreamInv
<1>4. ASSUME /\ HeardBefore(queue6', counters'.Last_Id, Len(queue6') + 1, v)
             /\ WillMiss' = WillMiss /\ stream' = stream
      PROVE  StreamInv(v)'
    BY <1>1, <1>4 DEF StreamInv
<1>5. CASE UNCHANGED traffic
    <2>1. UNCHANGED <<queue6, counters, stream>>
        BY <1>5 DEF traffic
    <2>2. WillMiss' = WillMiss
        BY <2>1 DEF WillMiss
    <2>3. HeardBefore(queue6', counters'.Last_Id, Len(queue6') + 1, v)
        BY <1>3, <2>1
    <2>. QED
        BY <1>4, <2>1, <2>2, <2>3 DEF MissedInv
<1>6. CASE MqttClientLoop
    <2>1. stream' = stream
        BY <1>6, LoopSays
    <2>. QED
        BY <1>3, <1>4, <1>6, <2>1, WillMissOut DEF MissedInv
<1>7. ASSUME NEW w, Requests(w) PROVE MissedInv'
    <2>1. /\ w \in CloudWords /\ w.tag # 5 /\ queue6' = Append(queue6, w)
          /\ counters' = counters /\ stream' = stream
        BY <1>7 DEF Requests
    <2>2. /\ HeardBefore(queue6', counters'.Last_Id, Len(queue6') + 1, v)
          /\ WillMiss' = WillMiss + 0
        BY <1>3, <2>1, WillMissIn
    <2>3. WillMiss' = WillMiss
        BY <1>2, <2>2
    <2>. QED
        BY <1>4, <2>1, <2>2, <2>3 DEF MissedInv
<1>8. ASSUME NEW s \in Senders, Deliver(s) PROVE MissedInv'
    <2>1. stream.next[s] \in Nat
        BY <1>2, StreamType
    <2>2. PICK n \in Nat : n = stream.next[s]
        BY <2>1
    <2>3. StreamInv(n)'
        BY <1>1, <1>8, <2>2, MissedDeliver
    <2>. QED
        BY <2>3 DEF MissedInv
<1>9. ASSUME NEW s \in Senders, Repeat(s) PROVE MissedInv'
    <2>1. stream.last[s] \in Nat
        BY <1>2, StreamType
    <2>2. PICK n \in 1..stream.last[s] : Hear(n)
        BY <1>9 DEF Repeat
    <2>3. n \in Nat
        BY <2>1
    <2>4. StreamInv(n)'
        BY <1>1, <1>9, <2>2, <2>3, MissedRepeat
    <2>. QED
        BY <2>3, <2>4 DEF MissedInv
<1>10. ASSUME NEW s \in Senders, Lose(s) \/ Restart(s) PROVE MissedInv'
    <2>1. StreamInv(v)'
        BY <1>1, <1>10, MissedLose, MissedRestart
    <2>. QED
        BY <2>1 DEF MissedInv
<1>. QED
    BY <1>5, <1>6, <1>7, <1>8, <1>9, <1>10, TrafficMoves

-----------------------------------------------------------------------------
(***************************************************************************)
(* The invariant as a whole.                                               *)
(***************************************************************************)

LEMMA NothingWaits ==
    /\ Len(<< >>) = 0 /\ << >> \in Seq(CloudWords) /\ DOMAIN << >> = {}
    /\ \A types : Cardinality(Places(<< >>, types)) = 0
    /\ \A last : Cardinality(OutOfTurn(<< >>, last)) = 0 /\ HeardBefore(<< >>, last, 1, last)
<1>1. Len(<< >>) = 0 /\ << >> \in Seq(CloudWords) /\ DOMAIN << >> = {}
    BY EmptySeq
<1>2. ASSUME NEW types PROVE Places(<< >>, types) = {}
    BY <1>1 DEF Places
<1>3. ASSUME NEW last PROVE OutOfTurn(<< >>, last) = {}
    BY <1>1 DEF OutOfTurn
<1>4. ASSUME NEW last PROVE HeardBefore(<< >>, last, 1, last)
    BY DEF HeardBefore
<1>. QED
    BY <1>1, <1>2, <1>3, <1>4, FS_EmptySet

LEMMA CloudInitInv == CloudInit => CloudInv
<1>. SUFFICES ASSUME CloudInit PROVE CloudInv
    OBVIOUS
<1>1. NetInv /\ NetTypeOK
    BY NetInitInv DEF CloudInit, NetInv
<1>2. StartInv /\ SessionInv
    BY DEF CloudInit, NetInit, StartInv, SessionInv
<1>3. queue6 = << >> /\ requested = 0 /\ received = 0 /\ counters.Last_Id = 0
      /\ counters.count = 0 /\ counters.revCount = 0 /\ counters.missed_MSG = 0
      /\ counters \in Counters
    BY DEF CloudInit, Counters
<1>4. MaxRequested \in Nat /\ MaxSent \in Nat /\ QUEUE_SIZE \in Nat
    BY CloudAssumption, QueueSizeAssumption
<1>5. stream \in Stream
    BY <1>4 DEF CloudInit, Stream
<1>6. /\ stream.from = NoSender /\ stream.events = 0 /\ stream.gaps = 0
      /\ \A s \in Senders : stream.last[s] = 0 /\ stream.next[s] = 1
    BY DEF CloudInit
<1>7. requested \in 0..(MaxRequested + 1) /\ received \in 0..MaxSent
    BY <1>3, <1>4
<1>8. NumbersInv /\ numbers \in [Topics -> Seq(Nat)]
    BY EmptySeq DEF CloudInit, NumbersInv, Issued, Increasing
<1>9. CloudTypeOK
    <2>1. Len(queue6) <= QUEUE_SIZE /\ queue6 \in Seq(CloudWords)
        BY <1>3, <1>4, NothingWaits
    <2>2. counters \in [count : Nat, revCount : Nat, missed_MSG : Nat, Last_Id : Nat]
        BY <1>3 DEF Counters
    <2>. QED
        BY <1>1, <1>5, <1>7, <1>8, <2>1, <2>2 DEF CloudInit, CloudTypeOK
<1>10. QueueInv
    BY <1>3, <1>4, <1>6, NothingWaits DEF QueueInv, CloudInit
<1>11. Counted
    BY <1>3, NothingWaits DEF Counted, Waiting
<1>12. WillMiss = 0
    BY <1>3, NothingWaits DEF WillMiss
<1>13. HeardBefore(queue6, counters.Last_Id, Len(queue6) + 1, 0)
    BY <1>3, NothingWaits
<1>14. StreamInv(0)
    BY <1>6, <1>12, <1>13 DEF StreamInv
<1>15. MissedInv
    BY <1>14 DEF MissedInv
<1>. QED
    BY <1>1, <1>2, <1>9, <1>10, <1>11, <1>15, <1>8 DEF CloudInv

LEMMA CloudInvStep == CloudInv /\ [CloudNext]_cloudVars => CloudInv'
<1>. SUFFICES ASSUME CloudInv, [CloudNext]_cloudVars PROVE CloudInv'
    OBVIOUS
<1>1. NetInv'
    BY NetOrNot, NetInvStep DEF CloudInv
<1>2. NetTypeOK'
    BY <1>1 DEF NetInv
<1>. QED
    BY <1>1, <1>2, CloudTypeStep, StartStep, SessionStep, QueueStep, CountedStep,
       NumbersStep, MissedStep
    DEF CloudInv

LEMMA CloudInvHolds == CloudSpec => []CloudInv
BY CloudInitInv, CloudInvStep, PTL DEF CloudSpec

\* A message out of turn is a message.
LEMMA OutOfTurnWaits ==
    ASSUME NEW q \in Seq(CloudWords), NEW last
    PROVE  /\ Cardinality(OutOfTurn(q, last)) <= Cardinality(Places(q, {4}))
           /\ Cardinality(OutOfTurn(q, last)) \in Nat /\ Cardinality(Places(q, {4})) \in Nat
<1>1. Places(q, {4}) \in SUBSET (1..Len(q)) /\ Len(q) \in Nat
    BY DEF Places
<1>2. OutOfTurn(q, last) \subseteq Places(q, {4})
    BY DEF OutOfTurn, Places
<1>. QED
    BY <1>1, <1>2, PlacesFinite, FS_Subset, OutOfTurnType

\* What the invariant is for.
LEMMA CloudInvSays ==
    CloudInv => /\ LinkBeforeSession /\ FlagTellsSession /\ NumberedOnce
                /\ MissedCountBounds
<1>. SUFFICES ASSUME CloudInv
     PROVE LinkBeforeSession /\ FlagTellsSession /\ NumberedOnce /\ MissedCountBounds
    OBVIOUS
<1>. USE DEF CloudInv
<1>1. MissedCountBounds
    <2>1. PICK v \in Nat : StreamInv(v)
        BY DEF MissedInv
    <2>2. /\ queue6 \in Seq(CloudWords) /\ counters.missed_MSG \in Nat /\ stream \in Stream
          /\ WillMiss \in Nat
        BY TrafficType, WillMissType
    <2>. DEFINE out == Cardinality(OutOfTurn(queue6, counters.Last_Id))
    <2>3. out \in Nat /\ Waiting({4}) \in Nat /\ out <= Waiting({4})
        BY <2>2, OutOfTurnWaits DEF Waiting
    <2>4. WillMiss = counters.missed_MSG + out
        BY DEF WillMiss
    <2>. HIDE DEF out
    <2>5. /\ stream.lost \in Nat /\ stream.repeats \in Nat /\ stream.switches \in Nat
          /\ stream.gaps \in Nat
        BY <2>2, StreamType
    <2>6. WillMiss <= stream.lost + 2 * stream.repeats + stream.switches
        <3>1. CASE stream.from = NoSender
            BY <2>1, <2>5, <3>1 DEF StreamInv
        <3>2. CASE stream.from # NoSender
            <4>1. WillMiss + (IF stream.next[stream.from] \in {1, v + 1} THEN 0 ELSE 1)
                    <= stream.lost + 2 * stream.repeats + stream.switches
                BY <2>1, <3>2 DEF StreamInv
            <4>. QED
                BY <2>2, <2>5, <4>1
        <3>. QED
            BY <3>1, <3>2
    <2>7. stream.restarts = 0 => stream.gaps <= WillMiss
        BY <2>1 DEF StreamInv
    <2>8. counters.missed_MSG <= stream.lost + 2 * stream.repeats + stream.switches
        <3>. DEFINE most == stream.lost + 2 * stream.repeats + stream.switches
        <3>1. most \in Nat /\ WillMiss <= most
            BY <2>5, <2>6
        <3>. HIDE DEF most
        <3>2. counters.missed_MSG <= most
            BY <2>2, <2>3, <2>4, <3>1
        <3>. QED
            BY <3>2 DEF most
    <2>9. stream.restarts = 0 => stream.gaps <= counters.missed_MSG + Waiting({4})
        BY <2>2, <2>3, <2>4, <2>5, <2>7
    <2>. QED
        BY <2>8, <2>9 DEF MissedCountBounds
<1>2. LinkBeforeSession
    BY DEF LinkBeforeSession, StartInv
<1>3. FlagTellsSession
    <2>1. /\ session \in {"none", "up", "lost", "closed"} /\ gUiConnFlag \in {0, 1}
          /\ gResetApplication \in BOOLEAN /\ SessionInv
        BY DEF CloudTypeOK
    <2>. HIDE DEF CloudInv
    <2>. QED
        BY <2>1 DEF FlagTellsSession, SessionInv
<1>4. NumberedOnce
    <2>1. Counted /\ NumbersInv
        OBVIOUS
    <2>. HIDE DEF CloudInv
    <2>. QED
        BY <2>1 DEF NumberedOnce, Counted, NumbersInv, Issued
<1>. QED
    BY <1>1, <1>2, <1>3, <1>4

-----------------------------------------------------------------------------
(***************************************************************************)
(* What mainThread, MqttClient and MqttClientThread guarantee.             *)
(***************************************************************************)

\* The threads of the cloud leave the WLAN to Network_IF_ConnectAP and its handlers:
\* whatever is proved of those holds in the whole rover.
THEOREM WlanUndisturbed == CloudSpec => NetSpec
<1>1. CloudInit => NetInit
    BY DEF CloudInit
<1>. QED
    BY <1>1, NetOrNot, PTL DEF CloudSpec, NetSpec

\* For any teams and any bounds each variable keeps its type, and no word is put into
\* a full queue.
THEOREM CloudTypeCorrect == CloudSpec => []CloudTypeOK
<1>1. CloudInv => CloudTypeOK
    BY DEF CloudInv
<1>. QED
    BY CloudInvHolds, <1>1, PTL

\* No client without a WLAN, and no loop without a client but that of a rover that
\* Network_IF_ConnectAP has failed to bring into one.
THEOREM LinkComesFirst == CloudSpec => []LinkBeforeSession
<1>. QED
    BY CloudInvHolds, CloudInvSays, PTL

\* The two flags that MqttClient and MqttClientThread write without a lock together
\* tell whether there is a session.
THEOREM FlagsTell == CloudSpec => []FlagTellsSession
<1>. QED
    BY CloudInvHolds, CloudInvSays, PTL

\* For any teams, any number of requests and any queue size: each request takes one
\* number, each message given to the callback is counted once, and the numbers that a
\* topic is told only grow.
THEOREM CountedOnce == CloudSpec => []NumberedOnce
<1>. QED
    BY CloudInvHolds, CloudInvSays, PTL

\* missed_MSG stays between the gaps that were left and what was lost, came twice or
\* came from another team, for any number of teams and messages.
THEOREM MissedBounded == CloudSpec => []MissedCountBounds
<1>. QED
    BY CloudInvHolds, CloudInvSays, PTL
=============================================================================
