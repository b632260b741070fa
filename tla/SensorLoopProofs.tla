-------------------------- MODULE SensorLoopProofs --------------------------
(***************************************************************************)
(* The turns of the encoders for any queue size and any set of spi         *)
(* commands.                                                               *)
(***************************************************************************)
EXTENDS SensorLoop, SelectionProofs

CountWords == {SPIWord(k) : k \in Chips}
Words      == CountWords \cup {TimeWord(0)} \cup {WIFIWord(c) : c \in WifiVals}

CountOf == [w \in CountWords |-> w.val]

TypeInv ==
    /\ q1 \in Seq(Words) /\ Len(q1) <= QUEUE_SIZE
    /\ port \in 0..3
    /\ asking \in [Readers -> 0..3]
    /\ lastWifiVal \in WifiVals
    /\ counter \in Chips /\ spicounter \in Chips
    /\ lost \in BOOLEAN /\ direct \in BOOLEAN /\ misattributed \in BOOLEAN

Encoder(k) == IF k = 0 THEN << >> ELSE <<k>>

\* The encoders of the counts under way, the oldest first (those in queue 1, the one
\* on the bus, the one threadFxn0 asks for), and the one that the next tick reads.
Counts == Chosen(q1, CountOf)
Line   == (Counts \o Encoder(port)) \o (Encoder(asking["threadFxn0"]) \o <<spicounter>>)

\* They follow each other as the wheels do, and the first is the one of the wheel that
\* gets the next count.
InTurn(s, first) ==
    /\ s[1] = first
    /\ \A i \in 1..(Len(s) - 1) : s[i + 1] = Rotate(s[i])

TurnInv ==
    ~lost /\ ~direct => /\ ~misattributed
                        /\ asking["threadFxn2"] = 0
                        /\ InTurn(Line, counter)

-----------------------------------------------------------------------------
LEMMA WordTags ==
    /\ \A w \in Words : w.tag \in {1, 2, 4} /\ w.val \in 0..3
    /\ \A w \in Words : w.tag = 1 <=> w \in CountWords
    /\ \A w \in CountWords : CountOf[w] = w.val /\ w.val \in Chips
    /\ \A k \in Chips : SPIWord(k) \in CountWords /\ CountOf[SPIWord(k)] = k
    /\ TimeWord(0) \in Words \ CountWords
    /\ \A c \in WifiVals : WIFIWord(c) \in Words \ CountWords
    /\ \A w \in Words : w.tag = 2 => w.val \in WifiVals
    /\ \A k : SPIWord(k).tag = 1 /\ TimeWord(k).tag = 4 /\ WIFIWord(k).tag = 2
    /\ DOMAIN CountOf = CountWords
BY DEF Words, CountWords, CountOf, SPIWord, TimeWord, WIFIWord, Word, Chips,
       WifiVals, STOP, MOVE

LEMMA InterruptTyped ==
    ASSUME NEW q \in Seq(Words), Len(q) <= QUEUE_SIZE, NEW w \in Words
    PROVE  SendFromISR(q, w) \in Seq(Words) /\ Len(SendFromISR(q, w)) <= QUEUE_SIZE
<1>1. Append(q, w) \in Seq(Words) /\ Len(Append(q, w)) = Len(q) + 1 /\ Len(q) \in Nat
    BY AppendProperties, LenProperties
<1>. QED
    BY <1>1, QueueSizeAssumption DEF SendFromISR, HasRoom

LEMMA Taken ==
    ASSUME TypeInv, NEW tag, Take(tag)
    PROVE  /\ q1' \in Seq(Words) /\ Len(q1') <= QUEUE_SIZE
           /\ Head(q1) \in Words /\ Head(q1).tag = tag
           /\ q1 # << >> /\ q1' = Tail(q1) /\ asking["threadFxn0"] = 0
<1>1. q1 # << >> /\ q1' = Tail(q1) /\ Head(q1).tag = tag /\ asking["threadFxn0"] = 0
    BY DEF Take
<1>2. Head(q1) \in Words /\ Tail(q1) \in Seq(Words) /\ Len(Tail(q1)) = Len(q1) - 1
    BY <1>1, HeadTailProperties DEF TypeInv
<1>3. Len(q1) \in Nat /\ Len(q1) <= QUEUE_SIZE
    BY LenProperties DEF TypeInv
<1>. QED
    BY <1>1, <1>2, <1>3, QueueSizeAssumption

LEMMA TypeInit == Init => TypeInv
<1>. SUFFICES ASSUME Init PROVE TypeInv
    OBVIOUS
<1>1. q1 \in Seq(Words) /\ Len(q1) <= QUEUE_SIZE
    <2>1. q1 = << >>
        BY DEF Init
    <2>. QED
        BY <2>1, QueueSizeAssumption
<1>2. asking \in [Readers -> 0..3]
    BY DEF Init
<1>3. /\ port \in 0..3 /\ counter \in Chips /\ spicounter \in Chips
      /\ lastWifiVal \in WifiVals
    BY DEF Init, Chips, WifiVals
<1>4. lost \in BOOLEAN /\ direct \in BOOLEAN /\ misattributed \in BOOLEAN
    BY DEF Init
<1>. QED
    BY <1>1, <1>2, <1>3, <1>4 DEF TypeInv

LEMMA TypeStep == TypeInv /\ [Next]_vars => TypeInv'
<1>. SUFFICES ASSUME TypeInv, [Next]_vars PROVE TypeInv'
    OBVIOUS
<1>1. \A k \in Chips : Rotate(k) \in Chips
    BY DEF Rotate, Chips
<1>2. CASE HandleTick
    <2>1. q1' \in Seq(Words) /\ Len(q1') <= QUEUE_SIZE
        BY <1>2, Taken DEF HandleTick
    <2>2. asking' \in [Readers -> 0..3]
        <3>1. asking' = [asking EXCEPT !["threadFxn0"] = spicounter] /\ spicounter \in 0..3
            BY <1>2 DEF HandleTick, TypeInv, Chips
        <3>. QED
            BY <3>1 DEF TypeInv
    <2>. QED
        BY <1>1, <1>2, <2>1, <2>2 DEF HandleTick, TypeInv
<1>3. CASE HandleCount
    <2>1. q1' \in Seq(Words) /\ Len(q1') <= QUEUE_SIZE
        BY <1>3, Taken DEF HandleCount
    <2>2. misattributed' \in BOOLEAN
        BY <1>3 DEF HandleCount
    <2>. QED
        BY <1>1, <1>3, <2>1, <2>2 DEF HandleCount, TypeInv
<1>4. CASE HandleCommand
    <2>1. q1' \in Seq(Words) /\ Len(q1') <= QUEUE_SIZE
        BY <1>4, Taken DEF HandleCommand
    <2>2. lastWifiVal' \in WifiVals
        <3>1. Head(q1) \in Words /\ Head(q1).tag = 2
            BY <1>4, Taken, WordTags DEF HandleCommand
        <3>. QED
            BY <1>4, <3>1, WordTags DEF HandleCommand
    <2>. QED
        BY <1>4, <2>1, <2>2 DEF HandleCommand, TypeInv
<1>5. ASSUME NEW c \in WifiVals, PassOn(c) PROVE TypeInv'
    <2>1. q1' = SendFromISR(q1, WIFIWord(c))
        BY <1>5 DEF PassOn, SendFromISR
    <2>2. q1' \in Seq(Words) /\ Len(q1') <= QUEUE_SIZE
        BY <2>1, InterruptTyped, WordTags DEF TypeInv
    <2>. QED
        BY <1>5, <2>2 DEF PassOn, TypeInv
<1>6. ASSUME NEW chip \in DirectReads, ReadDirectly(chip) PROVE TypeInv'
    <2>1. chip \in 0..3
        BY DirectReadsAssumption DEF Chips
    <2>. QED
        BY <1>6, <2>1 DEF ReadDirectly, TypeInv
<1>7. ASSUME NEW t \in Readers, StartRead(t) PROVE TypeInv'
    BY <1>7 DEF StartRead, TypeInv
<1>8. CASE TimerTick
    <2>1. q1' \in Seq(Words) /\ Len(q1') <= QUEUE_SIZE
        BY <1>8, InterruptTyped, WordTags DEF TypeInv, TimerTick
    <2>. QED
        BY <1>8, <2>1 DEF TimerTick, TypeInv
<1>9. CASE SlaveCallback
    <2>1. SPIWord(port) \in Words
        BY <1>9, WordTags DEF SlaveCallback, TypeInv, Words, Chips
    <2>2. q1' \in Seq(Words) /\ Len(q1') <= QUEUE_SIZE
        BY <1>9, <2>1, InterruptTyped DEF TypeInv, SlaveCallback
    <2>3. lost' \in BOOLEAN
        BY <1>9 DEF SlaveCallback
    <2>. QED
        BY <1>9, <2>2, <2>3 DEF SlaveCallback, TypeInv
<1>10. CASE UNCHANGED vars
    BY <1>10 DEF vars, TypeInv
<1>. QED
    BY <1>2, <1>3, <1>4, <1>5, <1>6, <1>7, <1>8, <1>9, <1>10 DEF Next

LEMMA TypeAlways == Spec => []TypeInv
BY TypeInit, TypeStep, PTL DEF Spec

\* Queue 1 never holds more than QUEUE_SIZE words, each a tick, a count of one of the
\* three encoders or a command, and both turns stay between 1 and 3.
THEOREM SensorTypeCorrect == Spec => []TypeOK
<1>1. TypeInv => TypeOK
    <2>. SUFFICES ASSUME TypeInv PROVE TypeOK
        OBVIOUS
    <2>1. \A w \in Words : w \in [tag : {1, 2, 4}, val : 0..3]
        BY DEF Words, CountWords, SPIWord, TimeWord, WIFIWord, Word, Chips,
               WifiVals, STOP, MOVE
    <2>2. q1 \in Seq([tag : {1, 2, 4}, val : 0..3])
        <3>1. \A T : Words \subseteq T => q1 \in Seq(T)
            <4>1. q1 \in Seq(Words)
                BY DEF TypeInv
            <4>2. Len(q1) \in Nat /\ q1 \in [1..Len(q1) -> Words]
                BY <4>1
            <4>. QED
                BY <4>2
        <3>. QED
            BY <2>1, <3>1
    <2>. QED
        BY <2>2 DEF TypeInv, TypeOK
<1>. QED
    BY <1>1, TypeAlways, PTL

-----------------------------------------------------------------------------
(***************************************************************************)
(* What a step makes of the line.                                          *)
(***************************************************************************)
Asked == Encoder(asking["threadFxn0"])

LEMMA LineTyped ==
    ASSUME TypeInv
    PROVE  /\ Counts \in Seq(Chips) /\ Encoder(port) \in Seq(Chips)
           /\ Asked \in Seq(Chips) /\ <<spicounter>> \in Seq(Chips)
           /\ Line \in Seq(Chips)
           /\ q1 \in Seq(Words)
<1>1. \A k \in 0..3 : Encoder(k) \in Seq(Chips)
    <2>1. \A k \in Chips : <<k>> \in Seq(Chips)
        OBVIOUS
    <2>2. << >> \in Seq(Chips) /\ \A k \in 0..3 : k = 0 \/ k \in Chips
        BY DEF Chips
    <2>. QED
        BY <2>1, <2>2 DEF Encoder
<1>2. q1 \in Seq(Words) /\ port \in 0..3 /\ asking["threadFxn0"] \in 0..3 /\ spicounter \in Chips
    BY DEF TypeInv, Readers
<1>3. Counts \in Seq(Chips)
    <2>1. CountOf \in [CountWords -> Chips]
        BY WordTags DEF CountOf
    <2>. QED
        BY <1>2, <2>1, ChosenType DEF Counts
<1>4. Encoder(port) \in Seq(Chips) /\ Asked \in Seq(Chips) /\ <<spicounter>> \in Seq(Chips)
    BY <1>1, <1>2 DEF Asked
<1>5. (Counts \o Encoder(port)) \in Seq(Chips) /\ (Asked \o <<spicounter>>) \in Seq(Chips)
    BY <1>3, <1>4, ConcatProperties
<1>6. Line \in Seq(Chips)
    BY <1>5, ConcatProperties DEF Line, Asked
<1>. QED
    BY <1>2, <1>3, <1>4, <1>6

\* A word that is not a count changes nothing in the line.
LEMMA OthersPass ==
    ASSUME TypeInv, NEW w \in Words \ CountWords
    PROVE  /\ Chosen(Append(q1, w), CountOf) = Counts
           /\ Chosen(SendFromISR(q1, w), CountOf) = Counts
<1>1. Chosen(Append(q1, w), CountOf) = Counts
    <2>1. q1 \in Seq(Words) /\ w \in Words /\ w \notin DOMAIN CountOf
        BY LineTyped, WordTags
    <2>. QED
        BY <2>1, WordOn DEF Counts
<1>. QED
    BY <1>1 DEF SendFromISR, Counts

LEMMA OtherTaken ==
    ASSUME TypeInv, NEW tag \in {2, 4}, Take(tag)
    PROVE  Counts' = Counts
<1>1. /\ q1 # << >> /\ q1' = Tail(q1) /\ Head(q1) \in Words /\ Head(q1) \notin CountWords
    BY Taken, WordTags
<1>2. q1 \in Seq(Words) /\ DOMAIN CountOf = CountWords
    BY LineTyped, WordTags
<1>3. Counts = Chosen(Tail(q1), CountOf)
    BY <1>1, <1>2, WordOff DEF Counts
<1>. QED
    BY <1>1, <1>3 DEF Counts, CountOf

\* threadFxn0 takes a count: the first encoder of the line.
LEMMA CountTaken ==
    ASSUME TypeInv, HandleCount
    PROVE  /\ Head(q1).val \in Chips /\ Line = <<Head(q1).val>> \o Line'
           /\ Line' \in Seq(Chips)
<1>0. Take(1)
    BY WordTags DEF HandleCount
<1>1. q1 # << >> /\ q1' = Tail(q1) /\ Head(q1) \in CountWords
    BY <1>0, Taken, WordTags
<1>2. q1 \in Seq(Words) /\ DOMAIN CountOf = CountWords
    BY LineTyped, WordTags
<1>. DEFINE k == Head(q1).val
            after == Encoder(port) \o (Asked \o <<spicounter>>)
<1>3. Counts = <<k>> \o Chosen(Tail(q1), CountOf)
    BY <1>1, <1>2, WordTags, WordOff DEF Counts
<1>4. Counts' = Chosen(Tail(q1), CountOf)
    BY <1>1 DEF Counts, CountOf
<1>5. UNCHANGED <<port, asking, spicounter>>
    BY DEF HandleCount
<1>6. k \in Chips /\ <<k>> \in Seq(Chips)
    BY <1>1, WordTags
<1>7. TypeInv'
    BY TypeStep DEF Next
<1>8. Counts' \in Seq(Chips) /\ Line' \in Seq(Chips)
    <2>1. CountOf \in [CountWords -> Chips]
        BY WordTags DEF CountOf
    <2>2. q1' \in Seq(Words)
        BY <1>7 DEF TypeInv
    <2>3. Counts' \in Seq(Chips)
        BY <2>1, <2>2, ChosenType DEF Counts
    <2>4. (Counts' \o Encoder(port)) \in Seq(Chips) /\ (Asked \o <<spicounter>>) \in Seq(Chips)
        BY <2>3, LineTyped, ConcatProperties
    <2>5. Line' = (Counts' \o Encoder(port)) \o (Asked \o <<spicounter>>)
        BY <1>5 DEF Line, Asked
    <2>. QED
        BY <2>3, <2>4, <2>5, ConcatProperties
<1>9. Line' = (Counts' \o Encoder(port)) \o (Asked \o <<spicounter>>)
    BY <1>5 DEF Line, Asked
<1>10. Line = ((<<k>> \o Counts') \o Encoder(port)) \o (Asked \o <<spicounter>>)
    BY <1>3, <1>4 DEF Line, Asked
<1>. HIDE DEF k
<1>11. (Asked \o <<spicounter>>) \in Seq(Chips) /\ Encoder(port) \in Seq(Chips)
       /\ (Counts' \o Encoder(port)) \in Seq(Chips)
    BY <1>8, LineTyped, ConcatProperties
<1>12. (<<k>> \o Counts') \o Encoder(port) = <<k>> \o (Counts' \o Encoder(port))
    BY <1>6, <1>8, <1>11, ConcatAssociative
<1>13. (<<k>> \o (Counts' \o Encoder(port))) \o (Asked \o <<spicounter>>)
         = <<k>> \o ((Counts' \o Encoder(port)) \o (Asked \o <<spicounter>>))
    BY <1>6, <1>11, ConcatAssociative
<1>. QED
    BY <1>6, <1>8, <1>9, <1>10, <1>12, <1>13 DEF k

-----------------------------------------------------------------------------
(***************************************************************************)
(* The turns.                                                              *)
(***************************************************************************)
LEMMA TurnInit == Init => TurnInv
<1>. SUFFICES ASSUME Init PROVE TurnInv
    OBVIOUS
<1>1. q1 = << >> /\ port = 0 /\ asking["threadFxn0"] = 0 /\ asking["threadFxn2"] = 0
    BY DEF Init, Readers
<1>2. Line = (<< >> \o << >>) \o (<< >> \o <<1>>)
    BY <1>1, ChosenNone DEF Line, Counts, Encoder, Init
<1>3. Line = <<1>>
    BY <1>2, Joined
<1>4. InTurn(<<1>>, counter)
    BY DEF InTurn, Init
<1>. QED
    BY <1>1, <1>3, <1>4 DEF TurnInv, Init

LEMMA TurnGrows ==
    ASSUME NEW s \in Seq(Chips), Len(s) > 0, NEW first, InTurn(s, first)
    PROVE  InTurn(s \o <<Rotate(s[Len(s)])>>, first)
<1>. DEFINE x == Rotate(s[Len(s)])
            n == Len(s)
            r == s \o <<x>>
<1>1. n \in Nat /\ n > 0 /\ s[n] \in Chips
    BY LenProperties
<1>2. x \in Chips
    BY <1>1 DEF Rotate, Chips
<1>3. <<x>> \in Seq(Chips) /\ Len(<<x>>) = 1 /\ <<x>>[1] = x
    BY <1>2
<1>4. /\ Len(r) = n + 1
      /\ \A i \in 1..(n + 1) : r[i] = IF i <= n THEN s[i] ELSE <<x>>[i - n]
    BY <1>3, ConcatProperties
<1>5. \A i \in 1..(n - 1) : s[i + 1] = Rotate(s[i])
    BY DEF InTurn
<1>6. s[1] = first
    BY DEF InTurn
<1>. HIDE DEF r
<1>7. (\A i \in 1..n : r[i] = s[i]) /\ r[n + 1] = x
    <2>1. \A i \in 1..n : i \in 1..(n + 1) /\ i <= n
        BY <1>1
    <2>2. n + 1 \in 1..(n + 1) /\ ~(n + 1 <= n) /\ (n + 1) - n = 1
        BY <1>1
    <2>. QED
        BY <1>3, <1>4, <2>1, <2>2
<1>8. r[n + 1] = Rotate(r[n])
    BY <1>1, <1>7
<1>9. \A i \in 1..(n - 1) : r[i + 1] = Rotate(r[i])
    <2>1. \A i \in 1..(n - 1) : i \in 1..n /\ i + 1 \in 1..n
        BY <1>1
    <2>. QED
        BY <1>5, <1>7, <2>1
<1>10. r[1] = first
    BY <1>1, <1>6, <1>7
<1>11. \A i \in 1..(Len(r) - 1) : i \in 1..(n - 1) \/ i = n
    BY <1>1, <1>4
<1>. QED
    BY <1>8, <1>9, <1>10, <1>11 DEF InTurn, r

LEMMA TurnShrinks ==
    ASSUME NEW k \in Chips, NEW t \in Seq(Chips), Len(t) > 0, NEW first, InTurn(<<k>> \o t, first)
    PROVE  k = first /\ InTurn(t, Rotate(k))
<1>. DEFINE s == <<k>> \o t
            n == Len(t)
<1>1. n \in Nat /\ n > 0
    BY LenProperties
<1>2. <<k>> \in Seq(Chips) /\ Len(<<k>>) = 1 /\ <<k>>[1] = k
    OBVIOUS
<1>3. /\ Len(s) = 1 + n
      /\ \A i \in 1..(1 + n) : s[i] = IF i <= 1 THEN <<k>>[i] ELSE t[i - 1]
    BY <1>2, ConcatProperties
<1>4. s[1] = first /\ \A i \in 1..(Len(s) - 1) : s[i + 1] = Rotate(s[i])
    BY DEF InTurn
<1>. HIDE DEF s
<1>5. s[1] = k
    <2>1. 1 \in 1..(1 + n) /\ 1 <= 1
        BY <1>1
    <2>. QED
        BY <1>2, <1>3, <2>1
<1>6. \A i \in 1..n : s[i + 1] = t[i]
    <2>1. \A i \in 1..n : i + 1 \in 1..(1 + n) /\ ~(i + 1 <= 1) /\ (i + 1) - 1 = i
        BY <1>1
    <2>. QED
        BY <1>3, <2>1
<1>7. t[1] = Rotate(k)
    <2>1. 1 \in 1..n /\ 1 \in 1..(Len(s) - 1)
        BY <1>1, <1>3
    <2>2. s[1 + 1] = Rotate(s[1]) /\ s[1 + 1] = t[1]
        BY <1>4, <1>6, <2>1
    <2>. QED
        BY <1>5, <2>2
<1>8. \A i \in 1..(n - 1) : t[i + 1] = Rotate(t[i])
    <2>1. \A i \in 1..(n - 1) : i \in 1..n /\ i + 1 \in 1..n /\ i + 1 \in 1..(Len(s) - 1)
        BY <1>1, <1>3
    <2>. QED
        BY <1>4, <1>6, <2>1
<1>. QED
    BY <1>4, <1>5, <1>7, <1>8 DEF InTurn

LEMMA LineEnds ==
    ASSUME TypeInv
    PROVE  Len(Line) > 0 /\ Line[Len(Line)] = spicounter
<1>. DEFINE before == (Counts \o Encoder(port)) \o Asked
<1>1. before \in Seq(Chips)
    BY LineTyped, ConcatProperties
<1>2. Line = before \o <<spicounter>>
    <2>1. Counts \o Encoder(port) \in Seq(Chips)
        BY LineTyped, ConcatProperties
    <2>. QED
        BY <2>1, LineTyped, ConcatAssociative DEF Line, Asked
<1>3. Line = Append(before, spicounter)
    BY <1>1, <1>2, AppendIsConcat DEF TypeInv
<1>. HIDE DEF before
<1>. QED
    BY <1>1, <1>3, AppendProperties

LEMMA LineNotEmpty == TypeInv => Len(Line) > 0
BY LineEnds

LEMMA LineEndsNext == TypeInv' => (Len(Line) > 0)'
BY LineNotEmpty, PTL

LEMMA TurnStep == TypeInv /\ TurnInv /\ [Next]_vars => TurnInv'
<1>. SUFFICES ASSUME TypeInv, TurnInv, [Next]_vars, ~lost', ~direct' PROVE TurnInv'
    BY DEF TurnInv
<1>. USE DEF Asked
<1>1. \/ HandleTick \/ HandleCount \/ HandleCommand \/ (\E c \in WifiVals : PassOn(c))
      \/ (\E t \in Readers : StartRead(t)) \/ TimerTick \/ SlaveCallback \/ UNCHANGED vars
    BY DEF Next, ReadDirectly
<1>2. ~lost /\ ~direct
    <2>1. CASE SlaveCallback
        BY <2>1, Zenon DEF SlaveCallback
    <2>2. ASSUME NEW t \in Readers, StartRead(t) PROVE UNCHANGED <<lost, direct>>
        BY <2>2 DEF StartRead
    <2>3. CASE \/ HandleTick \/ HandleCount \/ HandleCommand
               \/ (\E c \in WifiVals : PassOn(c)) \/ TimerTick \/ UNCHANGED vars
        BY <2>3 DEF HandleTick, HandleCount, HandleCommand, PassOn, TimerTick, vars
    <2>. QED
        BY <1>1, <2>1, <2>2, <2>3
<1>3. ~misattributed /\ asking["threadFxn2"] = 0 /\ InTurn(Line, counter)
    BY <1>2 DEF TurnInv
<1>4. /\ Counts \in Seq(Chips) /\ Encoder(port) \in Seq(Chips) /\ Asked \in Seq(Chips)
      /\ <<spicounter>> \in Seq(Chips) /\ Line \in Seq(Chips)
    BY LineTyped
<1>5. /\ \A a \in Seq(Chips) : a \o << >> = a /\ << >> \o a = a
      /\ \A a, b, c \in Seq(Chips) : (a \o b) \o c = a \o (b \o c) /\ a \o b \in Seq(Chips)
    BY ConcatEmptySeq, ConcatAssociative, ConcatProperties
<1>6. asking \in [Readers -> 0..3] /\ DOMAIN asking = Readers
      /\ Readers = {"threadFxn0", "threadFxn2"}
    BY DEF TypeInv, Readers
<1>7. ASSUME Line' = Line, UNCHANGED <<counter, misattributed>>, asking'["threadFxn2"] = 0
      PROVE  TurnInv'
    BY <1>3, <1>7 DEF TurnInv
<1>8. CASE HandleTick
    <2>1. /\ asking["threadFxn0"] = 0 /\ asking' = [asking EXCEPT !["threadFxn0"] = spicounter]
          /\ spicounter' = Rotate(spicounter) /\ UNCHANGED <<port, counter, misattributed>>
        BY <1>8 DEF HandleTick, Take
    <2>2. asking'["threadFxn0"] = spicounter /\ asking'["threadFxn2"] = 0
        BY <1>3, <1>6, <2>1
    <2>3. Counts' = Counts
        BY <1>8, OtherTaken, WordTags DEF HandleTick
    <2>4. spicounter \in Chips /\ spicounter # 0
        BY DEF TypeInv, Chips
    <2>5. Asked = << >> /\ Asked' = <<spicounter>>
        BY <2>1, <2>2, <2>4 DEF Encoder
    <2>6. Line = (Counts \o Encoder(port)) \o <<spicounter>>
        BY <1>4, <1>5, <2>5 DEF Line
    <2>7. Line' = (Counts \o Encoder(port)) \o (<<spicounter>> \o <<Rotate(spicounter)>>)
        BY <2>1, <2>3, <2>5 DEF Line
    <2>8. <<Rotate(spicounter)>> \in Seq(Chips)
        <3>1. Rotate(spicounter) \in Chips
            BY <2>4 DEF Rotate, Chips
        <3>. QED
            BY <3>1
    <2>9. Line' = Line \o <<Rotate(spicounter)>>
        <3>1. Counts \o Encoder(port) \in Seq(Chips)
            BY <1>4, <1>5
        <3>. QED
            BY <1>4, <1>5, <2>6, <2>7, <2>8, <3>1
    <2>10. InTurn(Line', counter)
        BY <1>3, <1>4, <2>9, LineEnds, TurnGrows
    <2>. QED
        BY <1>3, <2>1, <2>2, <2>10 DEF TurnInv
<1>9. CASE HandleCount
    <2>. DEFINE k == Head(q1).val
    <2>1. k \in Chips /\ Line = <<k>> \o Line' /\ Line' \in Seq(Chips)
        BY <1>9, CountTaken
    <2>2. TypeInv'
        BY <1>9, TypeStep DEF Next
    <2>3. Len(Line') > 0
        BY <2>2, LineEndsNext
    <2>4. /\ counter' = Rotate(counter)
          /\ misattributed' = (misattributed \/ (Moving /\ k # counter))
          /\ UNCHANGED asking
        BY <1>9 DEF HandleCount
    <2>. HIDE DEF k
    <2>5. k = counter /\ InTurn(Line', Rotate(k))
        BY <1>3, <2>1, <2>3, TurnShrinks
    <2>. QED
        BY <1>3, <2>4, <2>5 DEF TurnInv
<1>10. CASE HandleCommand
    <2>1. Counts' = Counts
        BY <1>10, OtherTaken, WordTags DEF HandleCommand
    <2>2. UNCHANGED <<port, asking, spicounter, counter, misattributed>>
        BY <1>10 DEF HandleCommand
    <2>. QED
        BY <1>3, <1>7, <2>1, <2>2 DEF Line
<1>11. CASE (\E c \in WifiVals : PassOn(c)) \/ TimerTick
    <2>1. Counts' = Counts
        <3>1. \E w \in Words \ CountWords : q1' = Append(q1, w) \/ q1' = SendFromISR(q1, w)
            BY <1>11, WordTags DEF PassOn, TimerTick
        <3>2. ASSUME NEW w \in Words \ CountWords
              PROVE  /\ Chosen(Append(q1, w), CountOf) = Counts
                     /\ Chosen(SendFromISR(q1, w), CountOf) = Counts
            BY OthersPass
        <3>3. \A q : q1' = q => Counts' = Chosen(q, CountOf)
            BY DEF Counts, CountOf
        <3>. QED
            BY <3>1, <3>2, <3>3
    <2>2. UNCHANGED <<port, asking, spicounter, counter, misattributed>>
        BY <1>11 DEF PassOn, TimerTick
    <2>. QED
        BY <1>3, <1>7, <2>1, <2>2 DEF Line
<1>12. CASE \E t \in Readers : StartRead(t)
    <2>. DEFINE k == asking["threadFxn0"]
    <2>1. StartRead("threadFxn0")
        BY <1>3, <1>6, <1>12 DEF StartRead
    <2>2. /\ k # 0 /\ port = 0 /\ port' = k /\ asking' = [asking EXCEPT !["threadFxn0"] = 0]
          /\ UNCHANGED <<q1, spicounter, counter, misattributed>>
        BY <2>1 DEF StartRead, Free
    <2>3. asking'["threadFxn0"] = 0 /\ asking'["threadFxn2"] = 0
        BY <1>3, <1>6, <2>2
    <2>4. Counts' = Counts
        BY <2>2 DEF Counts, CountOf
    <2>5. Encoder(port) = << >> /\ Encoder(port') = Asked /\ Asked' = << >>
        BY <2>2, <2>3 DEF Encoder
    <2>6. Line = (Counts \o << >>) \o (Asked \o <<spicounter>>)
        BY <2>5 DEF Line
    <2>7. Line' = (Counts \o Asked) \o (<< >> \o <<spicounter>>)
        BY <2>2, <2>4, <2>5 DEF Line
    <2>8. Line' = Line
        BY <1>4, <1>5, <2>6, <2>7
    <2>. QED
        BY <1>7, <2>2, <2>3, <2>8
<1>13. CASE SlaveCallback
    <2>1. /\ port # 0 /\ port' = 0 /\ HasRoom(q1)
          /\ q1' = Append(q1, SPIWord(port))
          /\ UNCHANGED <<asking, spicounter, counter, misattributed>>
        BY <1>13 DEF SlaveCallback, SendFromISR
    <2>2. port \in Chips
        BY <2>1 DEF TypeInv, Chips
    <2>3. /\ q1 \in Seq(Words) /\ SPIWord(port) \in Words
          /\ SPIWord(port) \in DOMAIN CountOf /\ CountOf[SPIWord(port)] = port
        BY <2>2, LineTyped, WordTags DEF Words
    <2>4. Chosen(Append(q1, SPIWord(port)), CountOf) = Counts \o <<port>>
        BY <2>3, WordOn DEF Counts
    <2>5. Counts' = Counts \o <<port>>
        BY <2>1, <2>4 DEF Counts, CountOf
    <2>6. Encoder(port) = <<port>> /\ Encoder(port') = << >> /\ Asked' = Asked
        BY <2>1 DEF Encoder
    <2>7. Line' = ((Counts \o Encoder(port)) \o << >>) \o (Asked \o <<spicounter>>)
        BY <2>1, <2>5, <2>6 DEF Line
    <2>8. Line' = Line
        <3>1. Counts \o Encoder(port) \in Seq(Chips)
            BY <1>4, <1>5
        <3>. QED
            BY <1>5, <2>7, <3>1 DEF Line
    <2>. QED
        BY <1>3, <1>7, <2>1, <2>8
<1>14. CASE UNCHANGED vars
    <2>1. UNCHANGED <<q1, port, asking, spicounter, counter, misattributed>>
        BY <1>14 DEF vars
    <2>2. Line' = Line
        BY <2>1 DEF Line, Counts, CountOf
    <2>. QED
        BY <1>3, <1>7, <2>1, <2>2
<1>. QED
    BY <1>1, <1>8, <1>9, <1>10, <1>11, <1>12, <1>13, <1>14

\* The two turns keep step however ticks, counts and commands mix and however many ticks
\* are lost: only a lost count or a spi command makes a wheel get another wheel's count.
THEOREM TurnsKept == Spec => []TurnsKeptUnlessDisturbed
<1>1. TurnInv => TurnsKeptUnlessDisturbed
    BY DEF TurnInv, TurnsKeptUnlessDisturbed
<1>2. Spec => []TurnInv
    BY TypeAlways, TurnInit, TurnStep, PTL DEF Spec
<1>. QED
    BY <1>1, <1>2, PTL
=============================================================================
