------------------------- MODULE MotorDriverProofs -------------------------
(***************************************************************************)
(* The frames on the UART for every speed byte and any size of its buffer. *)
(***************************************************************************)
EXTENDS MotorDriver, SequenceTheorems, TLAPS

\* The four bytes of a frame that the motor controllers accept.
Frame(a, c, s, x) ==
    a \in 128..130 /\ c \in {0, 1} /\ s \in 0..127 /\ x = (a + c + s) % 128

\* A sequence of m frames.
Frames(bytes, m) ==
    /\ bytes \in Seq(Byte) /\ m \in Nat /\ Len(bytes) = 4 * m
    /\ \A i \in 1..m : Frame(bytes[4 * i - 3], bytes[4 * i - 2], bytes[4 * i - 1], bytes[4 * i])

\* The bytes on their way to the motors, the one for the baud rate aside.
Arriving == IF baud THEN line ELSE Tail(line)
Bytes    == frame \o Arriving \o out

\* Before the controllers know the baud rate, its byte is the first in the UART; what
\* follows is whole frames, the first of which may have been received in part.
FramesInv ==
    /\ ~baud => frame = << >> /\ line # << >>
    /\ \E m \in Nat : Frames(Bytes, m)

-----------------------------------------------------------------------------
(***************************************************************************)
(* Words and frames.                                                       *)
(***************************************************************************)

\* The low byte of each shift is the one that was packed there.
LEMMA PackedBytes ==
    ASSUME NEW a \in Byte, NEW b \in Byte, NEW c \in Byte
    PROVE  LET v == (a * 256 + b) * 256 + c
           IN  (v \div 65536) % 256 = a /\ (v \div 256) % 256 = b /\ v % 256 = c
BY DEF Byte

LEMMA Unpacked ==
    ASSUME NEW speeds \in [Wheels -> Byte]
    PROVE  Unpack(Pack(speeds)) = speeds
<1>1. speeds[1] \in Byte /\ speeds[2] \in Byte /\ speeds[3] \in Byte
    BY DEF Wheels
<1>. DEFINE u == Unpack(Pack(speeds))
            byte(w) == CASE w = 1 -> (Pack(speeds) \div 65536) % 256
                         [] w = 2 -> (Pack(speeds) \div 256) % 256
                         [] w = 3 -> Pack(speeds) % 256
<1>2. u[1] = speeds[1] /\ u[2] = speeds[2] /\ u[3] = speeds[3]
    <2>1. /\ u[1] = (Pack(speeds) \div 65536) % 256 /\ u[2] = (Pack(speeds) \div 256) % 256
          /\ u[3] = Pack(speeds) % 256
        BY DEF Unpack, Wheels
    <2>2. Pack(speeds) = (speeds[1] * 256 + speeds[2]) * 256 + speeds[3]
        BY DEF Pack
    <2>3. /\ (Pack(speeds) \div 65536) % 256 = speeds[1]
          /\ (Pack(speeds) \div 256) % 256 = speeds[2]
          /\ Pack(speeds) % 256 = speeds[3]
        BY <1>1, <2>2, PackedBytes
    <2>. QED
        BY <2>1, <2>3
<1>3. u = [w \in Wheels |-> byte(w)]
    BY DEF Unpack
<1>. HIDE DEF u, byte
<1>4. \A w \in Wheels : byte(w) = speeds[w]
    <2>1. \A w \in Wheels : u[w] = byte(w)
        BY <1>3
    <2>. QED
        BY <1>2, <2>1 DEF Wheels
<1>5. speeds = [w \in Wheels |-> speeds[w]]
    OBVIOUS
<1>6. u = speeds
    BY <1>3, <1>4, <1>5
<1>. QED
    BY <1>6 DEF u

LEMMA FrameOfSpeed ==
    ASSUME NEW w \in Wheels, NEW speed \in Byte
    PROVE  LET a == Address(w)
               c == Command(speed)
               s == Magnitude(speed)
           IN  /\ MotorCommand(a, c, s) = <<a, c, s, (a + c + s) % 128>>
               /\ Frame(a, c, s, (a + c + s) % 128) /\ a - 127 = w
               /\ (a + c + s) % 128 \in Byte /\ a \in Byte /\ c \in Byte /\ s \in Byte
               /\ Signed(c, s) = Bank!SpeedOf(speed)
<1>1. /\ Address(w) \in 128..130 /\ Address(w) - 127 = w
    BY DEF Wheels, Address
<1>2. Command(speed) \in {0, 1}
    BY DEF Command
<1>3. Magnitude(speed) \in 0..127
    BY DEF Magnitude, Byte
<1>4. \A n \in Nat : n % 128 \in 0..127
    OBVIOUS
<1>5. Address(w) + Command(speed) + Magnitude(speed) \in Nat
    BY <1>1, <1>2, <1>3
<1>6. (Address(w) + Command(speed) + Magnitude(speed)) % 128 \in 0..127
    BY <1>4, <1>5
<1>7. Signed(Command(speed), Magnitude(speed)) = Bank!SpeedOf(speed)
    BY DEF Signed, Command, Magnitude, Bank!SpeedOf, Byte
<1>. QED
    BY <1>1, <1>2, <1>3, <1>6, <1>7 DEF MotorCommand, Frame, Byte

LEMMA FourBytes ==
    ASSUME NEW a \in Byte, NEW b \in Byte, NEW c \in Byte, NEW d \in Byte
    PROVE  /\ <<a, b, c, d>> \in Seq(Byte) /\ Len(<<a, b, c, d>>) = 4
           /\ <<a, b, c, d>>[1] = a /\ <<a, b, c, d>>[2] = b
           /\ <<a, b, c, d>>[3] = c /\ <<a, b, c, d>>[4] = d
OBVIOUS

\* The places of two sequences after each other.
LEMMA Places ==
    ASSUME NEW S, NEW s \in Seq(S), NEW t \in Seq(S)
    PROVE  /\ s \o t \in Seq(S) /\ Len(s \o t) = Len(s) + Len(t)
           /\ Len(s) \in Nat /\ Len(t) \in Nat
           /\ \A i \in 1..Len(s) : (s \o t)[i] = s[i]
           /\ \A i \in 1..Len(t) : (s \o t)[Len(s) + i] = t[i]
<1>. DEFINE r == s \o t
<1>1. /\ r \in Seq(S) /\ Len(r) = Len(s) + Len(t)
      /\ \A i \in 1..(Len(s) + Len(t)) : r[i] = IF i <= Len(s) THEN s[i] ELSE t[i - Len(s)]
    BY ConcatProperties
<1>2. Len(s) \in Nat /\ Len(t) \in Nat
    BY LenProperties
<1>. HIDE DEF r
<1>3. \A i \in 1..Len(s) : i \in 1..(Len(s) + Len(t)) /\ i <= Len(s)
    BY <1>2
<1>4. \A i \in 1..Len(t) : /\ Len(s) + i \in 1..(Len(s) + Len(t))
                           /\ ~(Len(s) + i <= Len(s)) /\ (Len(s) + i) - Len(s) = i
    BY <1>2
<1>5. \A i \in 1..Len(s) : r[i] = s[i]
    BY <1>1, <1>3
<1>6. \A i \in 1..Len(t) : r[Len(s) + i] = t[i]
    BY <1>1, <1>4
<1>. QED
    BY <1>1, <1>2, <1>5, <1>6 DEF r

\* The orders that frames stand for.
Orders(bytes) ==
    [i \in 1..(Len(bytes) \div 4) |->
        <<bytes[4 * i - 3] - 127, Signed(bytes[4 * i - 2], bytes[4 * i - 1])>>]

OrderPairs == Int \X Int

LEMMA OrdersTyped ==
    ASSUME NEW bytes, NEW m, Frames(bytes, m)
    PROVE  /\ Orders(bytes) \in Seq(OrderPairs) /\ Len(Orders(bytes)) = m /\ m \in Nat
           /\ \A i \in 1..m : Orders(bytes)[i] =
                <<bytes[4 * i - 3] - 127, Signed(bytes[4 * i - 2], bytes[4 * i - 1])>>
<1>. DEFINE order(i) == <<bytes[4 * i - 3] - 127, Signed(bytes[4 * i - 2], bytes[4 * i - 1])>>
<1>1. m \in Nat /\ Len(bytes) = 4 * m
    BY DEF Frames
<1>2. Len(bytes) \div 4 = m
    BY <1>1
<1>3. Orders(bytes) = [i \in 1..m |-> order(i)]
    BY <1>2 DEF Orders
<1>4. \A i \in 1..m : order(i) \in OrderPairs
    <2>1. SUFFICES ASSUME NEW i \in 1..m PROVE order(i) \in OrderPairs
        OBVIOUS
    <2>2. bytes[4 * i - 3] \in 128..130 /\ bytes[4 * i - 2] \in {0, 1} /\ bytes[4 * i - 1] \in 0..127
        BY DEF Frames, Frame
    <2>3. Signed(bytes[4 * i - 2], bytes[4 * i - 1]) \in Int
        BY <2>2 DEF Signed
    <2>. QED
        BY <2>2, <2>3 DEF OrderPairs
<1>. HIDE DEF order
<1>5. Orders(bytes) \in Seq(OrderPairs) /\ Len(Orders(bytes)) = m
    BY <1>1, <1>3, <1>4
<1>6. \A i \in 1..m : Orders(bytes)[i] = order(i)
    BY <1>3
<1>. QED
    BY <1>1, <1>5, <1>6 DEF order

\* Frames after frames are frames, and their orders are those of both.
LEMMA FramesJoined ==
    ASSUME NEW s, NEW m, Frames(s, m), NEW t, NEW n, Frames(t, n)
    PROVE  Frames(s \o t, m + n) /\ Orders(s \o t) = Orders(s) \o Orders(t)
<1>1. /\ m \in Nat /\ n \in Nat /\ Len(s) = 4 * m /\ Len(t) = 4 * n
      /\ s \in Seq(Byte) /\ t \in Seq(Byte)
    BY DEF Frames
<1>. DEFINE r == s \o t
<1>2. /\ r \in Seq(Byte) /\ Len(r) = 4 * m + 4 * n
      /\ \A i \in 1..(4 * m) : r[i] = s[i]
      /\ \A i \in 1..(4 * n) : r[4 * m + i] = t[i]
    <2>1. /\ r \in Seq(Byte) /\ Len(r) = Len(s) + Len(t)
          /\ \A i \in 1..Len(s) : r[i] = s[i]
          /\ \A i \in 1..Len(t) : r[Len(s) + i] = t[i]
        <3>1. \A x, y \in Seq(Byte) :
                  /\ x \o y \in Seq(Byte) /\ Len(x \o y) = Len(x) + Len(y)
                  /\ \A i \in 1..Len(x) : (x \o y)[i] = x[i]
                  /\ \A i \in 1..Len(y) : (x \o y)[Len(x) + i] = y[i]
            BY Places
        <3>. QED
            BY <1>1, <3>1, Zenon
    <2>. HIDE DEF r
    <2>. QED
        BY <1>1, <2>1
<1>. HIDE DEF r
<1>3. \A i \in 1..m : /\ r[4 * i - 3] = s[4 * i - 3] /\ r[4 * i - 2] = s[4 * i - 2]
                      /\ r[4 * i - 1] = s[4 * i - 1] /\ r[4 * i] = s[4 * i]
    <2>1. \A i \in 1..m : {4 * i - 3, 4 * i - 2, 4 * i - 1, 4 * i} \subseteq 1..(4 * m)
        BY <1>1
    <2>. QED
        BY <1>2, <2>1
<1>4. \A i \in 1..n : LET k == m + i
                      IN  /\ r[4 * k - 3] = t[4 * i - 3] /\ r[4 * k - 2] = t[4 * i - 2]
                          /\ r[4 * k - 1] = t[4 * i - 1] /\ r[4 * k] = t[4 * i]
    <2>1. SUFFICES ASSUME NEW i \in 1..n
                   PROVE  LET k == m + i
                          IN  /\ r[4 * k - 3] = t[4 * i - 3] /\ r[4 * k - 2] = t[4 * i - 2]
                              /\ r[4 * k - 1] = t[4 * i - 1] /\ r[4 * k] = t[4 * i]
        OBVIOUS
    <2>2. /\ 4 * (m + i) - 3 = 4 * m + (4 * i - 3) /\ 4 * (m + i) - 2 = 4 * m + (4 * i - 2)
          /\ 4 * (m + i) - 1 = 4 * m + (4 * i - 1) /\ 4 * (m + i) = 4 * m + 4 * i
          /\ 4 * i - 3 \in 1..(4 * n) /\ 4 * i - 2 \in 1..(4 * n)
          /\ 4 * i - 1 \in 1..(4 * n) /\ 4 * i \in 1..(4 * n)
        BY <1>1
    <2>. QED
        BY <1>2, <2>2
<1>5. \A i \in 1..(m + n) : i \in 1..m \/ \E k \in 1..n : i = m + k
    <2>1. \A i \in 1..(m + n) : i \in 1..m \/ (i - m \in 1..n /\ i = m + (i - m))
        BY <1>1
    <2>. QED
        BY <2>1
<1>6. Frames(r, m + n)
    <2>1. \A i \in 1..m : Frame(r[4 * i - 3], r[4 * i - 2], r[4 * i - 1], r[4 * i])
        BY <1>3 DEF Frames
    <2>2. \A i \in 1..n : LET k == m + i IN Frame(r[4 * k - 3], r[4 * k - 2], r[4 * k - 1], r[4 * k])
        BY <1>4 DEF Frames
    <2>3. \A i \in 1..(m + n) : Frame(r[4 * i - 3], r[4 * i - 2], r[4 * i - 1], r[4 * i])
        BY <1>5, <2>1, <2>2
    <2>4. m + n \in Nat /\ Len(r) = 4 * (m + n)
        BY <1>1, <1>2
    <2>. QED
        BY <1>2, <2>3, <2>4 DEF Frames
<1>7. /\ Orders(r) \in Seq(OrderPairs) /\ Len(Orders(r)) = m + n
      /\ \A i \in 1..(m + n) : Orders(r)[i] =
           <<r[4 * i - 3] - 127, Signed(r[4 * i - 2], r[4 * i - 1])>>
    BY <1>6, OrdersTyped
<1>8. /\ Orders(s) \in Seq(OrderPairs) /\ Len(Orders(s)) = m
      /\ \A i \in 1..m : Orders(s)[i] =
           <<s[4 * i - 3] - 127, Signed(s[4 * i - 2], s[4 * i - 1])>>
    BY OrdersTyped
<1>9. /\ Orders(t) \in Seq(OrderPairs) /\ Len(Orders(t)) = n
      /\ \A i \in 1..n : Orders(t)[i] =
           <<t[4 * i - 3] - 127, Signed(t[4 * i - 2], t[4 * i - 1])>>
    BY OrdersTyped
<1>10. /\ Orders(s) \o Orders(t) \in Seq(OrderPairs) /\ Len(Orders(s) \o Orders(t)) = m + n
       /\ \A i \in 1..m : (Orders(s) \o Orders(t))[i] = Orders(s)[i]
       /\ \A i \in 1..n : (Orders(s) \o Orders(t))[m + i] = Orders(t)[i]
    <2>. DEFINE both == Orders(s) \o Orders(t)
    <2>1. /\ both \in Seq(OrderPairs) /\ Len(both) = Len(Orders(s)) + Len(Orders(t))
          /\ \A i \in 1..Len(Orders(s)) : both[i] = Orders(s)[i]
          /\ \A i \in 1..Len(Orders(t)) : both[Len(Orders(s)) + i] = Orders(t)[i]
        <3>1. \A x, y \in Seq(OrderPairs) :
                  /\ x \o y \in Seq(OrderPairs) /\ Len(x \o y) = Len(x) + Len(y)
                  /\ \A i \in 1..Len(x) : (x \o y)[i] = x[i]
                  /\ \A i \in 1..Len(y) : (x \o y)[Len(x) + i] = y[i]
            BY Places
        <3>. QED
            BY <1>8, <1>9, <3>1, Zenon
    <2>. HIDE DEF both
    <2>2. /\ both \in Seq(OrderPairs) /\ Len(both) = m + n
          /\ \A i \in 1..m : both[i] = Orders(s)[i]
          /\ \A i \in 1..n : both[m + i] = Orders(t)[i]
        BY <1>8, <1>9, <2>1
    <2>. QED
        BY <2>2 DEF both
<1>11. \A i \in 1..m : Orders(r)[i] = Orders(s)[i]
    <2>1. \A i \in 1..m : i \in 1..(m + n)
        BY <1>1
    <2>. QED
        <3>1. SUFFICES ASSUME NEW i \in 1..m PROVE Orders(r)[i] = Orders(s)[i]
            OBVIOUS
        <3>2. Orders(r)[i] = <<r[4 * i - 3] - 127, Signed(r[4 * i - 2], r[4 * i - 1])>>
            BY <1>7, <2>1
        <3>3. Orders(s)[i] = <<s[4 * i - 3] - 127, Signed(s[4 * i - 2], s[4 * i - 1])>>
            BY <1>8
        <3>4. r[4 * i - 3] = s[4 * i - 3] /\ r[4 * i - 2] = s[4 * i - 2] /\ r[4 * i - 1] = s[4 * i - 1]
            BY <1>3
        <3>. QED
            BY <3>2, <3>3, <3>4, Zenon
<1>12. \A i \in 1..n : Orders(r)[m + i] = Orders(t)[i]
    <2>1. \A i \in 1..n : m + i \in 1..(m + n)
        BY <1>1
    <2>. QED
        <3>1. SUFFICES ASSUME NEW i \in 1..n PROVE Orders(r)[m + i] = Orders(t)[i]
            OBVIOUS
        <3>. DEFINE k == m + i
        <3>2. Orders(r)[k] = <<r[4 * k - 3] - 127, Signed(r[4 * k - 2], r[4 * k - 1])>>
            BY <1>7, <2>1
        <3>3. Orders(t)[i] = <<t[4 * i - 3] - 127, Signed(t[4 * i - 2], t[4 * i - 1])>>
            BY <1>9
        <3>4. r[4 * k - 3] = t[4 * i - 3] /\ r[4 * k - 2] = t[4 * i - 2] /\ r[4 * k - 1] = t[4 * i - 1]
            BY <1>4
        <3>. QED
            BY <3>2, <3>3, <3>4, Zenon
<1>13. \A i \in 1..(m + n) : Orders(r)[i] = (Orders(s) \o Orders(t))[i]
    <2>1. SUFFICES ASSUME NEW i \in 1..(m + n)
                   PROVE  Orders(r)[i] = (Orders(s) \o Orders(t))[i]
        OBVIOUS
    <2>2. CASE i \in 1..m
        BY <1>10, <1>11, <2>2, Zenon
    <2>3. CASE \E k \in 1..n : i = m + k
        BY <1>10, <1>12, <2>3, Zenon
    <2>. QED
        BY <1>5, <2>2, <2>3
<1>. QED
    BY <1>6, <1>7, <1>10, <1>13, SeqEqual DEF r

\* The first frame carries the first order; the frames after it the others.
LEMMA FrameDropped ==
    ASSUME NEW a \in Byte, NEW c \in Byte, NEW s \in Byte, NEW x \in Byte, NEW t \in Seq(Byte),
           NEW m, Frames(<<a, c, s, x>> \o t, m)
    PROVE  LET all == <<a, c, s, x>> \o t
           IN  /\ Frame(a, c, s, x) /\ m - 1 \in Nat /\ Frames(t, m - 1)
               /\ Orders(all) # << >> /\ Head(Orders(all)) = <<a - 127, Signed(c, s)>>
               /\ Tail(Orders(all)) = Orders(t)
<1>. DEFINE f == <<a, c, s, x>>
            r == f \o t
            n == m - 1
<1>1. /\ f \in Seq(Byte) /\ Len(f) = 4
      /\ f[1] = a /\ f[2] = c /\ f[3] = s /\ f[4] = x
    BY FourBytes
<1>. HIDE DEF f
<1>2. /\ Len(r) = 4 + Len(t) /\ Len(t) \in Nat
      /\ r[1] = f[1] /\ r[2] = f[2] /\ r[3] = f[3] /\ r[4] = f[4]
      /\ \A i \in 1..Len(t) : r[4 + i] = t[i]
    <2>1. \A u, v \in Seq(Byte) :
              /\ Len(u \o v) = Len(u) + Len(v) /\ Len(v) \in Nat
              /\ \A i \in 1..Len(u) : (u \o v)[i] = u[i]
              /\ \A i \in 1..Len(v) : (u \o v)[Len(u) + i] = v[i]
        BY Places
    <2>2. /\ Len(r) = Len(f) + Len(t) /\ Len(t) \in Nat
          /\ \A i \in 1..Len(f) : r[i] = f[i]
          /\ \A i \in 1..Len(t) : r[Len(f) + i] = t[i]
        BY <1>1, <2>1, Zenon
    <2>. HIDE DEF r
    <2>3. {1, 2, 3, 4} \subseteq 1..Len(f)
        BY <1>1
    <2>. QED
        BY <1>1, <2>2, <2>3
<1>3. Frames(r, m)
    BY DEF f
<1>. HIDE DEF r
<1>4. /\ m \in Nat /\ Len(r) = 4 * m
      /\ \A i \in 1..m : Frame(r[4 * i - 3], r[4 * i - 2], r[4 * i - 1], r[4 * i])
    BY <1>3 DEF Frames
<1>5. n \in Nat /\ Len(t) = 4 * n
    BY <1>2, <1>4
<1>6. Frame(a, c, s, x)
    <2>1. 1 \in 1..m /\ 4 * 1 - 3 = 1 /\ 4 * 1 - 2 = 2 /\ 4 * 1 - 1 = 3 /\ 4 * 1 = 4
        BY <1>4, <1>5
    <2>2. Frame(r[4 * 1 - 3], r[4 * 1 - 2], r[4 * 1 - 1], r[4 * 1])
        BY <1>4, <2>1
    <2>3. Frame(r[1], r[2], r[3], r[4])
        BY <2>1, <2>2
    <2>. QED
        BY <1>1, <1>2, <2>3
<1>7. ASSUME NEW i \in 1..n
      PROVE  /\ i + 1 \in 1..m
             /\ r[4 * (i + 1) - 3] = t[4 * i - 3] /\ r[4 * (i + 1) - 2] = t[4 * i - 2]
             /\ r[4 * (i + 1) - 1] = t[4 * i - 1] /\ r[4 * (i + 1)] = t[4 * i]
    <2>1. /\ 4 * (i + 1) - 3 = 4 + (4 * i - 3) /\ 4 * (i + 1) - 2 = 4 + (4 * i - 2)
          /\ 4 * (i + 1) - 1 = 4 + (4 * i - 1) /\ 4 * (i + 1) = 4 + 4 * i
          /\ 4 * i - 3 \in 1..(4 * n) /\ 4 * i - 2 \in 1..(4 * n)
          /\ 4 * i - 1 \in 1..(4 * n) /\ 4 * i \in 1..(4 * n) /\ i + 1 \in 1..m
        BY <1>4, <1>5
    <2>. QED
        BY <1>2, <1>5, <2>1
<1>8. Frames(t, n)
    <2>1. \A i \in 1..n : Frame(t[4 * i - 3], t[4 * i - 2], t[4 * i - 1], t[4 * i])
        BY <1>4, <1>7
    <2>. QED
        BY <1>5, <2>1 DEF Frames
<1>9. /\ Orders(r) \in Seq(OrderPairs) /\ Len(Orders(r)) = m
      /\ \A i \in 1..m : Orders(r)[i] =
           <<r[4 * i - 3] - 127, Signed(r[4 * i - 2], r[4 * i - 1])>>
    BY <1>3, OrdersTyped
<1>10. /\ Orders(t) \in Seq(OrderPairs) /\ Len(Orders(t)) = n
       /\ \A i \in 1..n : Orders(t)[i] =
            <<t[4 * i - 3] - 127, Signed(t[4 * i - 2], t[4 * i - 1])>>
    BY <1>8, OrdersTyped
<1>11. Orders(r) # << >> /\ m > 0
    BY <1>5, <1>9
<1>12. Orders(r)[1] = <<a - 127, Signed(c, s)>>
    <2>1. 1 \in 1..m /\ 4 * 1 - 3 = 1 /\ 4 * 1 - 2 = 2 /\ 4 * 1 - 1 = 3
        BY <1>4, <1>5
    <2>2. Orders(r)[1] = <<r[4 * 1 - 3] - 127, Signed(r[4 * 1 - 2], r[4 * 1 - 1])>>
        BY <1>9, <2>1
    <2>3. Orders(r)[1] = <<r[1] - 127, Signed(r[2], r[3])>>
        BY <2>1, <2>2
    <2>. QED
        BY <1>1, <1>2, <2>3
<1>13. \A i \in 1..n : Orders(r)[i + 1] = Orders(t)[i]
    <2>1. SUFFICES ASSUME NEW i \in 1..n PROVE Orders(r)[i + 1] = Orders(t)[i]
        OBVIOUS
    <2>. DEFINE k == i + 1
    <2>2. Orders(r)[k] = <<r[4 * k - 3] - 127, Signed(r[4 * k - 2], r[4 * k - 1])>>
        BY <1>7, <1>9
    <2>3. Orders(t)[i] = <<t[4 * i - 3] - 127, Signed(t[4 * i - 2], t[4 * i - 1])>>
        BY <1>10
    <2>4. r[4 * k - 3] = t[4 * i - 3] /\ r[4 * k - 2] = t[4 * i - 2] /\ r[4 * k - 1] = t[4 * i - 1]
        BY <1>7
    <2>. QED
        BY <2>2, <2>3, <2>4, Zenon
<1>14. /\ Head(Orders(r)) = Orders(r)[1] /\ Tail(Orders(r)) \in Seq(OrderPairs)
       /\ Len(Tail(Orders(r))) = n
       /\ \A i \in 1..n : Tail(Orders(r))[i] = Orders(r)[i + 1]
    <2>. DEFINE o == Orders(r)
    <2>1. o \in Seq(OrderPairs) /\ o # << >> /\ Len(o) = m
        BY <1>9, <1>11
    <2>. HIDE DEF o
    <2>2. /\ Head(o) = o[1] /\ Tail(o) \in Seq(OrderPairs) /\ Len(Tail(o)) = m - 1
          /\ \A i \in 1..(m - 1) : Tail(o)[i] = o[i + 1]
        BY <2>1, HeadTailProperties
    <2>. QED
        BY <2>2 DEF o
<1>15. Tail(Orders(r)) = Orders(t)
    BY <1>10, <1>13, <1>14, SeqEqual
<1>. QED
    BY <1>5, <1>6, <1>8, <1>11, <1>12, <1>14, <1>15 DEF r, f

\* A byte written to the UART only moves from what is left to write to the line ...
LEMMA ByteWritten ==
    \A f, l, o \in Seq(Byte) : o # << >> =>
        f \o Append(l, Head(o)) \o Tail(o) = f \o l \o o
<1>. SUFFICES ASSUME NEW f \in Seq(Byte), NEW l \in Seq(Byte), NEW o \in Seq(Byte), o # << >>
              PROVE  f \o Append(l, Head(o)) \o Tail(o) = f \o l \o o
    OBVIOUS
<1>. DEFINE h == Head(o)
            rest == Tail(o)
            one == <<h>>
<1>1. h \in Byte /\ rest \in Seq(Byte) /\ one \in Seq(Byte)
    BY HeadTailProperties
<1>2. o = one \o rest
    <2>1. Len(one \o rest) = Len(o) /\ one \o rest \in Seq(Byte)
        BY <1>1, HeadTailProperties
    <2>2. \A i \in 1..Len(o) : (one \o rest)[i] = o[i]
        BY HeadTailProperties
    <2>. QED
        BY <2>1, <2>2, SeqEqual
<1>3. Append(l, h) = l \o one
    BY <1>1, AppendIsConcat
<1>. HIDE DEF h, rest, one
<1>4. f \o l \in Seq(Byte) /\ l \o one \in Seq(Byte)
    BY <1>1, ConcatProperties
<1>5. f \o (l \o one) = (f \o l) \o one
    BY <1>1, ConcatAssociative, SMTT(60)
<1>6. ((f \o l) \o one) \o rest = (f \o l) \o (one \o rest)
    BY <1>1, <1>4, ConcatAssociative, SMTT(60)
<1>7. f \o Append(l, h) \o rest = f \o l \o o
    BY <1>2, <1>3, <1>5, <1>6, Zenon
<1>. QED
    BY <1>7 DEF h, rest

\* ... and a byte received from the line to the frame.
LEMMA ByteReceived ==
    \A f, l, o \in Seq(Byte) : l # << >> =>
        /\ Append(f, Head(l)) \o Tail(l) \o o = f \o l \o o
        /\ Append(f, Head(l)) \o (<< >> \o Tail(l) \o o) = f \o l \o o
<1>. SUFFICES ASSUME NEW f \in Seq(Byte), NEW l \in Seq(Byte), l # << >>, NEW o \in Seq(Byte)
              PROVE  /\ Append(f, Head(l)) \o Tail(l) \o o = f \o l \o o
                     /\ Append(f, Head(l)) \o (<< >> \o Tail(l) \o o) = f \o l \o o
    OBVIOUS
<1>. DEFINE g == Append(f, Head(l))
            rest == Tail(l)
<1>1. Head(l) \in Byte /\ rest \in Seq(Byte) /\ g \in Seq(Byte) /\ << >> \in Seq(Byte)
    BY HeadTailProperties, AppendProperties
<1>2. << >> \o g \o rest = << >> \o f \o l
    <2>1. << >> \o f = f /\ << >> \o g = g
        BY <1>1, ConcatEmptySeq
    <2>2. f \o Append(<< >>, Head(l)) \o Tail(l) = f \o << >> \o l
        BY <1>1, ByteWritten
    <2>3. f \o Append(<< >>, Head(l)) = g
        BY <1>1, AppendIsConcat
    <2>4. f \o << >> = f
        BY ConcatEmptySeq
    <2>. QED
        BY <2>1, <2>2, <2>3, <2>4, Zenon DEF g, rest
<1>. HIDE DEF g, rest
<1>3. g \o rest = f \o l
    <2>1. << >> \o f = f /\ << >> \o g = g
        BY <1>1, ConcatEmptySeq
    <2>. QED
        BY <1>2, <2>1, Zenon
<1>4. << >> \o rest = rest
    BY <1>1, ConcatEmptySeq
<1>5. (g \o rest) \o o = g \o (rest \o o)
    BY <1>1, ConcatAssociative, SMTT(60)
<1>6. g \o rest \o o = f \o l \o o /\ g \o (<< >> \o rest \o o) = f \o l \o o
    BY <1>3, <1>4, <1>5, Zenon
<1>. QED
    BY <1>6 DEF g, rest

\* Four accepted bytes are one frame with one order.
LEMMA OneFrame ==
    ASSUME NEW a \in Byte, NEW c \in Byte, NEW s \in Byte, NEW x \in Byte, Frame(a, c, s, x)
    PROVE  /\ Frames(<<a, c, s, x>>, 1) /\ Len(Orders(<<a, c, s, x>>)) = 1
           /\ Orders(<<a, c, s, x>>)[1] = <<a - 127, Signed(c, s)>>
<1>. DEFINE f == <<a, c, s, x>>
<1>1. f \in Seq(Byte) /\ Len(f) = 4 /\ f[1] = a /\ f[2] = c /\ f[3] = s /\ f[4] = x
    BY FourBytes
<1>. HIDE DEF f
<1>2. 1..1 = {1} /\ 4 * 1 - 3 = 1 /\ 4 * 1 - 2 = 2 /\ 4 * 1 - 1 = 3 /\ 4 * 1 = 4
    OBVIOUS
<1>3. Frames(f, 1)
    BY <1>1, <1>2 DEF Frames
<1>4. Len(Orders(f)) = 1 /\ Orders(f)[1] = <<f[4 * 1 - 3] - 127, Signed(f[4 * 1 - 2], f[4 * 1 - 1])>>
    <2>1. /\ Len(Orders(f)) = 1
          /\ \A i \in 1..1 : Orders(f)[i] = <<f[4 * i - 3] - 127, Signed(f[4 * i - 2], f[4 * i - 1])>>
        BY <1>3, OrdersTyped
    <2>2. 1 \in 1..1
        OBVIOUS
    <2>. QED
        BY <2>1, <2>2, Zenon
<1>5. Orders(f)[1] = <<a - 127, Signed(c, s)>>
    BY <1>1, <1>2, <1>4
<1>. QED
    BY <1>3, <1>4, <1>5 DEF f

\* A word of queue 2 becomes three frames, whose orders are its three speeds.
LEMMA FramesOfWord ==
    ASSUME NEW speeds \in [Wheels -> Byte]
    PROVE  LET bytes == AllMotorOperations(Unpack(Pack(speeds)))
           IN  /\ Frames(bytes, 3)
               /\ Orders(bytes) = [w \in Bank!Wheels |-> <<w, Bank!SpeedOf(speeds[w])>>]
<1>. DEFINE a(w) == Address(w)
            c(w) == Command(speeds[w])
            s(w) == Magnitude(speeds[w])
            x(w) == (a(w) + c(w) + s(w)) % 128
            f(w) == MotorCommand(a(w), c(w), s(w))
            p(w) == <<w, Bank!SpeedOf(speeds[w])>>
            target == [w \in Bank!Wheels |-> p(w)]
<1>1. \A w \in Wheels : Frames(f(w), 1) /\ Len(Orders(f(w))) = 1 /\ Orders(f(w))[1] = p(w)
    <2>1. SUFFICES ASSUME NEW w \in Wheels
                   PROVE  Frames(f(w), 1) /\ Len(Orders(f(w))) = 1 /\ Orders(f(w))[1] = p(w)
        OBVIOUS
    <2>2. speeds[w] \in Byte
        OBVIOUS
    <2>3. /\ f(w) = <<a(w), c(w), s(w), x(w)>>
          /\ Frame(a(w), c(w), s(w), x(w)) /\ a(w) - 127 = w
          /\ x(w) \in Byte /\ a(w) \in Byte /\ c(w) \in Byte /\ s(w) \in Byte
          /\ Signed(c(w), s(w)) = Bank!SpeedOf(speeds[w])
        BY <2>2, FrameOfSpeed
    <2>. HIDE DEF a, c, s, x, f
    <2>4. /\ Frames(<<a(w), c(w), s(w), x(w)>>, 1) /\ Len(Orders(<<a(w), c(w), s(w), x(w)>>)) = 1
          /\ Orders(<<a(w), c(w), s(w), x(w)>>)[1] = <<a(w) - 127, Signed(c(w), s(w))>>
        BY <2>3, OneFrame
    <2>. QED
        BY <2>3, <2>4, Zenon
<1>2. 1 \in Wheels /\ 2 \in Wheels /\ 3 \in Wheels /\ Bank!Wheels = 1..3
    BY DEF Wheels, Bank!Wheels
<1>3. AllMotorOperations(Unpack(Pack(speeds))) = f(1) \o f(2) \o f(3)
    BY Unpacked DEF AllMotorOperations
<1>. HIDE DEF f, p
<1>4. /\ Frames(f(1), 1) /\ Len(Orders(f(1))) = 1 /\ Orders(f(1))[1] = p(1)
      /\ Frames(f(2), 1) /\ Len(Orders(f(2))) = 1 /\ Orders(f(2))[1] = p(2)
      /\ Frames(f(3), 1) /\ Len(Orders(f(3))) = 1 /\ Orders(f(3))[1] = p(3)
    BY <1>1, <1>2
<1>5. Frames(f(1) \o f(2), 2) /\ Orders(f(1) \o f(2)) = Orders(f(1)) \o Orders(f(2))
    <2>1. 1 + 1 = 2
        OBVIOUS
    <2>2. Frames(f(1) \o f(2), 1 + 1) /\ Orders(f(1) \o f(2)) = Orders(f(1)) \o Orders(f(2))
        BY <1>4, FramesJoined
    <2>. QED
        BY <2>1, <2>2
<1>6. /\ Frames(f(1) \o f(2) \o f(3), 3)
      /\ Orders(f(1) \o f(2) \o f(3)) = Orders(f(1)) \o Orders(f(2)) \o Orders(f(3))
    <2>1. 2 + 1 = 3
        OBVIOUS
    <2>. DEFINE g == f(1) \o f(2)
    <2>2. Frames(g \o f(3), 2 + 1) /\ Orders(g \o f(3)) = Orders(g) \o Orders(f(3))
        BY <1>4, <1>5, FramesJoined
    <2>. QED
        BY <1>5, <2>1, <2>2
<1>. DEFINE o1 == Orders(f(1))
            o2 == Orders(f(2))
            o3 == Orders(f(3))
<1>7. o1 \in Seq(OrderPairs) /\ o2 \in Seq(OrderPairs) /\ o3 \in Seq(OrderPairs)
    BY <1>4, OrdersTyped
<1>8. Len(o1) = 1 /\ o1[1] = p(1) /\ Len(o2) = 1 /\ o2[1] = p(2) /\ Len(o3) = 1 /\ o3[1] = p(3)
    BY <1>4
<1>. HIDE DEF o1, o2, o3
<1>9. /\ o1 \o o2 \o o3 \in Seq(OrderPairs) /\ Len(o1 \o o2 \o o3) = 3
      /\ (o1 \o o2 \o o3)[1] = p(1) /\ (o1 \o o2 \o o3)[2] = p(2) /\ (o1 \o o2 \o o3)[3] = p(3)
    <2>. DEFINE o == o1 \o o2
    <2>1. \A y, z \in Seq(OrderPairs) :
              /\ y \o z \in Seq(OrderPairs) /\ Len(y \o z) = Len(y) + Len(z)
              /\ \A i \in 1..Len(y) : (y \o z)[i] = y[i]
              /\ \A i \in 1..Len(z) : (y \o z)[Len(y) + i] = z[i]
        BY Places
    <2>2. /\ o \in Seq(OrderPairs) /\ Len(o) = Len(o1) + Len(o2)
          /\ \A i \in 1..Len(o1) : o[i] = o1[i]
          /\ \A i \in 1..Len(o2) : o[Len(o1) + i] = o2[i]
        BY <1>7, <2>1, Zenon
    <2>. HIDE DEF o
    <2>3. /\ o \in Seq(OrderPairs) /\ Len(o) = 2 /\ o[1] = p(1) /\ o[2] = p(2)
        BY <1>8, <2>2
    <2>. DEFINE q == o \o o3
    <2>4. /\ q \in Seq(OrderPairs) /\ Len(q) = Len(o) + Len(o3)
          /\ \A i \in 1..Len(o) : q[i] = o[i]
          /\ \A i \in 1..Len(o3) : q[Len(o) + i] = o3[i]
        BY <1>7, <2>1, <2>2, Zenon
    <2>. HIDE DEF q
    <2>5. /\ q \in Seq(OrderPairs) /\ Len(q) = 3 /\ q[1] = p(1) /\ q[2] = p(2) /\ q[3] = p(3)
        BY <1>8, <2>3, <2>4
    <2>. QED
        BY <2>5 DEF q, o
<1>10. o1 \o o2 \o o3 = target
    <2>1. /\ p(1) \in OrderPairs /\ p(2) \in OrderPairs /\ p(3) \in OrderPairs
        <3>1. \A o \in Seq(OrderPairs) : \A i \in 1..Len(o) : o[i] \in OrderPairs
            BY ElementOfSeq
        <3>2. 1 \in 1..Len(o1) /\ 1 \in 1..Len(o2) /\ 1 \in 1..Len(o3)
            BY <1>8
        <3>3. o1[1] \in OrderPairs /\ o2[1] \in OrderPairs /\ o3[1] \in OrderPairs
            BY <1>7, <3>1, <3>2, Zenon
        <3>. QED
            BY <1>8, <3>3
    <2>2. target \in Seq(OrderPairs) /\ Len(target) = 3
        BY <1>2, <2>1
    <2>3. \A i \in 1..3 : target[i] = p(i)
        BY <1>2
    <2>. HIDE DEF target
    <2>4. \A i \in 1..3 : (o1 \o o2 \o o3)[i] = target[i]
        <3>1. \A i \in 1..3 : i = 1 \/ i = 2 \/ i = 3
            OBVIOUS
        <3>. QED
            BY <1>9, <2>3, <3>1, SMTT(30)
    <2>. QED
        BY <1>9, <2>2, <2>4, SeqEqual
<1>. QED
    BY <1>3, <1>6, <1>10 DEF o1, o2, o3, p

-----------------------------------------------------------------------------
(***************************************************************************)
(* The steps: what each does to the bytes on their way and to the motors.  *)
(***************************************************************************)
Inv == TypeOK /\ FramesInv

Driven == [w \in Wheels |-> Signed(running[w][1], running[w][2])]

Underway == OrdersUnderway = Orders(Bytes)

LEMMA UnderwayAreOrders == Underway
BY DEF Underway, OrdersUnderway, Orders, Bytes, Arriving

LEMMA ArrivingTyped == Inv => Arriving \in Seq(Byte) /\ frame \o Arriving \in Seq(Byte)
<1>. SUFFICES ASSUME Inv PROVE Arriving \in Seq(Byte) /\ frame \o Arriving \in Seq(Byte)
    OBVIOUS
<1>1. Arriving \in Seq(Byte)
    BY HeadTailProperties DEF Inv, TypeOK, FramesInv, Arriving
<1>. QED
    BY <1>1, ConcatProperties DEF Inv, TypeOK

LEMMA StartInv == Init => Inv /\ Bank!BankInit
<1>. SUFFICES ASSUME Init PROVE Inv /\ Bank!BankInit
    OBVIOUS
<1>1. line = <<170>> /\ out = << >> /\ frame = << >> /\ baud = FALSE
      /\ running = [w \in Wheels |-> <<0, 0>>]
    BY DEF Init, BaudByte
<1>2. TypeOK
    <2>1. line \in Seq(Byte) /\ Len(line) <= LineSize
        BY <1>1, MotorAssumption DEF Byte
    <2>2. running \in [Wheels -> {0, 1} \X (0..127)]
        BY <1>1
    <2>3. baud \in BOOLEAN
        BY <1>1
    <2>4. out \in Seq(Byte) /\ Len(out) <= 12 /\ frame \in Seq(Byte) /\ Len(frame) <= 3
        BY <1>1
    <2>. QED
        BY <2>1, <2>2, <2>3, <2>4 DEF TypeOK
<1>3. Bytes = << >>
    BY <1>1 DEF Bytes, Arriving
<1>4. Frames(<< >>, 0)
    BY DEF Frames
<1>5. Orders(<< >>) = << >>
    BY DEF Orders
<1>6. FramesInv
    <2>1. ~baud => frame = << >> /\ line # << >>
        BY <1>1
    <2>2. 0 \in Nat
        OBVIOUS
    <2>. QED
        BY <1>3, <1>4, <2>1, <2>2 DEF FramesInv
<1>7. OrdersUnderway = << >>
    BY <1>3, <1>5, UnderwayAreOrders DEF Underway
<1>8. Driven = [w \in Wheels |-> 0]
    <2>1. Signed(0, 0) = 0
        <3>1. \A n \in Int : Signed(0, n) = 0 - n
            BY DEF Signed
        <3>2. 0 \in Int /\ 0 - 0 = 0
            OBVIOUS
        <3>. QED
            BY <3>1, <3>2
    <2>2. \A w \in Wheels : running[w][1] = 0 /\ running[w][2] = 0
        BY <1>1
    <2>. QED
        BY <2>1, <2>2 DEF Driven
<1>. QED
    BY <1>2, <1>6, <1>7, <1>8 DEF Inv, Bank!BankInit, Bank!Wheels, Wheels, Driven

\* threadFxn1's word adds its three orders behind all that are on their way.
LEMMA WordTaken ==
    ASSUME Inv, NEW speeds \in SpeedTriples, TakeWord(Pack(speeds))
    PROVE  Inv' /\ Bank!Order(speeds)
<1>. DEFINE word == AllMotorOperations(Unpack(Pack(speeds)))
            target == [w \in Bank!Wheels |-> <<w, Bank!SpeedOf(speeds[w])>>]
<1>1. speeds \in [Wheels -> Byte]
    BY MotorAssumption DEF SpeedTriples
<1>2. Frames(word, 3) /\ Orders(word) = target
    BY <1>1, FramesOfWord
<1>. HIDE DEF word, target
<1>3. /\ out = << >> /\ out' = word
      /\ UNCHANGED <<line, baud, frame, running>>
    BY DEF TakeWord, word
<1>4. word \in Seq(Byte) /\ Len(word) = 12
    BY <1>2 DEF Frames
<1>5. TypeOK'
    BY <1>3, <1>4 DEF Inv, TypeOK
<1>6. frame \o Arriving \in Seq(Byte) /\ (frame \o Arriving)' = frame \o Arriving
    BY <1>3, ArrivingTyped DEF Arriving
<1>7. Bytes = frame \o Arriving
    BY <1>3, <1>6, ConcatEmptySeq DEF Bytes
<1>8. Bytes' = Bytes \o word
    BY <1>3, <1>6, <1>7 DEF Bytes
<1>9. PICK m \in Nat : Frames(Bytes, m)
    BY DEF Inv, FramesInv
<1>10. Frames(Bytes \o word, m + 3) /\ Orders(Bytes \o word) = Orders(Bytes) \o target
    BY <1>2, <1>9, FramesJoined
<1>11. FramesInv'
    <2>1. (~baud => frame = << >> /\ line # << >>)'
        BY <1>3 DEF Inv, FramesInv
    <2>2. m + 3 \in Nat
        OBVIOUS
    <2>3. (\E n \in Nat : Frames(Bytes, n))'
        BY <1>8, <1>10, <2>2
    <2>. QED
        BY <2>1, <2>3 DEF FramesInv
<1>12. OrdersUnderway' = OrdersUnderway \o target
    <2>1. OrdersUnderway' = Orders(Bytes')
        BY <1>3 DEF OrdersUnderway, Orders, Bytes, Arriving
    <2>. QED
        BY <1>8, <1>10, <2>1, UnderwayAreOrders DEF Underway
<1>13. UNCHANGED Driven
    BY <1>3 DEF Driven
<1>. QED
    BY <1>5, <1>11, <1>12, <1>13 DEF Inv, Bank!Order, Driven, target

\* UART_write moves a byte; the orders and the motors are the same.
LEMMA ByteOut ==
    ASSUME Inv, WriteByte
    PROVE  Inv' /\ UNCHANGED <<OrdersUnderway, Driven>>
<1>1. /\ out # << >> /\ Len(line) < LineSize
      /\ line' = Append(line, Head(out)) /\ out' = Tail(out)
      /\ UNCHANGED <<baud, frame, running>>
    BY DEF WriteByte, LineHasRoom
<1>2. out \in Seq(Byte) /\ line \in Seq(Byte) /\ frame \in Seq(Byte) /\ Arriving \in Seq(Byte)
    BY ArrivingTyped DEF Inv, TypeOK
<1>3. /\ Head(out) \in Byte /\ Tail(out) \in Seq(Byte) /\ Len(Tail(out)) = Len(out) - 1
      /\ Append(line, Head(out)) \in Seq(Byte) /\ Len(Append(line, Head(out))) = Len(line) + 1
      /\ Append(line, Head(out)) # << >> /\ Len(line) \in Nat /\ Len(out) \in Nat
    <2>1. Head(out) \in Byte /\ Tail(out) \in Seq(Byte) /\ Len(Tail(out)) = Len(out) - 1
        BY <1>1, <1>2, HeadTailProperties
    <2>2. /\ Append(line, Head(out)) \in Seq(Byte) /\ Append(line, Head(out)) # << >>
          /\ Len(Append(line, Head(out))) = Len(line) + 1
        BY <1>2, <2>1, AppendProperties
    <2>3. Len(line) \in Nat /\ Len(out) \in Nat
        BY <1>2, LenProperties
    <2>. QED
        BY <2>1, <2>2, <2>3
<1>4. TypeOK'
    BY <1>1, <1>3, MotorAssumption DEF Inv, TypeOK
<1>5. Arriving' = Append(Arriving, Head(out))
    <2>1. ~baud => line # << >>
        BY DEF Inv, FramesInv
    <2>2. line # << >> => Tail(Append(line, Head(out))) = Append(Tail(line), Head(out))
        BY <1>2, <1>3, HeadTailAppend
    <2>. QED
        BY <1>1, <2>1, <2>2 DEF Arriving
<1>6. Bytes' = Bytes
    <2>1. frame \o Append(Arriving, Head(out)) \o Tail(out) = frame \o Arriving \o out
        BY <1>1, <1>2, ByteWritten, Zenon
    <2>. QED
        BY <1>1, <1>5, <2>1 DEF Bytes
<1>7. FramesInv'
    BY <1>1, <1>3, <1>6 DEF Inv, FramesInv
<1>8. UNCHANGED OrdersUnderway
    <2>1. OrdersUnderway' = Orders(Bytes')
        BY DEF OrdersUnderway, Orders, Bytes, Arriving
    <2>. QED
        BY <1>6, <2>1, UnderwayAreOrders DEF Underway
<1>9. UNCHANGED Driven
    BY <1>1 DEF Driven
<1>. QED
    BY <1>4, <1>7, <1>8, <1>9 DEF Inv

\* The byte for the baud rate is none of a frame.
LEMMA BaudIn ==
    ASSUME Inv, TakeBaud
    PROVE  Inv' /\ UNCHANGED <<OrdersUnderway, Driven>>
<1>1. /\ ~baud /\ line # << >> /\ baud' = TRUE /\ line' = Tail(line)
      /\ UNCHANGED <<out, frame, running>>
    BY DEF TakeBaud
<1>2. Tail(line) \in Seq(Byte) /\ Len(Tail(line)) = Len(line) - 1 /\ Len(line) \in Nat
    BY <1>1, HeadTailProperties, LenProperties DEF Inv, TypeOK
<1>3. TypeOK'
    <2>1. baud' \in BOOLEAN
        BY <1>1
    <2>2. line' \in Seq(Byte) /\ Len(line') <= LineSize
        BY <1>1, <1>2, MotorAssumption DEF Inv, TypeOK
    <2>. QED
        BY <1>1, <2>1, <2>2 DEF Inv, TypeOK
<1>4. Arriving' = Arriving
    BY <1>1 DEF Arriving
<1>5. Bytes' = Bytes
    BY <1>1, <1>4 DEF Bytes
<1>6. FramesInv'
    BY <1>1, <1>5 DEF Inv, FramesInv
<1>7. UNCHANGED OrdersUnderway
    <2>1. OrdersUnderway' = Orders(Bytes')
        BY DEF OrdersUnderway, Orders, Bytes, Arriving
    <2>. QED
        BY <1>5, <2>1, UnderwayAreOrders DEF Underway
<1>8. UNCHANGED Driven
    BY <1>1 DEF Driven
<1>. QED
    BY <1>3, <1>6, <1>7, <1>8 DEF Inv

\* The controllers take a byte: the frame grows, or its fourth byte carries out
\* the oldest order.
LEMMA ByteIn ==
    ASSUME Inv, ReceiveByte
    PROVE  Inv' /\ (Bank!CarryOut \/ UNCHANGED <<OrdersUnderway, Driven>>)
<1>. DEFINE h == Head(line)
            rest == Tail(line)
            f == Append(frame, h)
<1>1. baud /\ line # << >> /\ line' = rest /\ UNCHANGED <<out, baud>>
    BY DEF ReceiveByte
<1>2. out \in Seq(Byte) /\ line \in Seq(Byte) /\ frame \in Seq(Byte) /\ Len(frame) <= 3
    BY DEF Inv, TypeOK
<1>3. /\ h \in Byte /\ rest \in Seq(Byte) /\ Len(rest) = Len(line) - 1 /\ Len(line) \in Nat
      /\ f \in Seq(Byte) /\ Len(f) = Len(frame) + 1 /\ Len(frame) \in Nat
    BY <1>1, <1>2, HeadTailProperties, AppendProperties, LenProperties
<1>4. /\ frame' = IF Len(f) = 4 THEN << >> ELSE f
      /\ running' = IF Len(f) = 4 /\ Valid(f)
                      THEN [running EXCEPT ![f[1] - 127] = <<f[2], f[3]>>]
                      ELSE running
    BY DEF ReceiveByte
<1>5. /\ f \o rest \o out = frame \o line \o out
      /\ f \o (<< >> \o rest \o out) = frame \o line \o out
    BY <1>1, <1>2, ByteReceived, Zenon
<1>6. Bytes = frame \o line \o out /\ Bytes' = frame' \o rest \o out
    BY <1>1 DEF Bytes, Arriving
<1>. HIDE DEF h, rest, f
<1>7. PICK m \in Nat : Frames(Bytes, m)
    BY DEF Inv, FramesInv
<1>8. OrdersUnderway = Orders(Bytes) /\ OrdersUnderway' = Orders(Bytes')
    BY DEF OrdersUnderway, Orders, Bytes, Arriving
<1>9. line' \in Seq(Byte) /\ Len(line') <= LineSize
    BY <1>1, <1>3, MotorAssumption DEF Inv, TypeOK
<1>10. CASE Len(f) # 4
    <2>1. frame' = f /\ running' = running
        BY <1>4, <1>10
    <2>2. Bytes' = Bytes
        BY <1>5, <1>6, <2>1
    <2>3. TypeOK'
        <3>1. Len(f) <= 3
            BY <1>2, <1>3, <1>10
        <3>2. frame' \in Seq(Byte) /\ Len(frame') <= 3
            BY <1>3, <2>1, <3>1
        <3>. QED
            BY <1>1, <1>9, <2>1, <3>2 DEF Inv, TypeOK
    <2>4. FramesInv'
        BY <1>1, <1>7, <2>2 DEF FramesInv
    <2>5. UNCHANGED <<OrdersUnderway, Driven>>
        BY <1>8, <2>1, <2>2 DEF Driven
    <2>. QED
        BY <2>3, <2>4, <2>5 DEF Inv
<1>11. CASE Len(f) = 4
    <2>. DEFINE a == f[1]
                c == f[2]
                s == f[3]
                x == f[4]
                four == <<a, c, s, x>>
                t == Bytes'
    <2>1. a \in Byte /\ c \in Byte /\ s \in Byte /\ x \in Byte
        <3>1. {1, 2, 3, 4} \subseteq 1..Len(f)
            BY <1>11
        <3>2. \A i \in 1..Len(f) : f[i] \in Byte
            BY <1>3, ElementOfSeq
        <3>. QED
            BY <3>1, <3>2
    <2>2. f = four
        <3>1. four \in Seq(Byte) /\ Len(four) = 4
              /\ four[1] = a /\ four[2] = c /\ four[3] = s /\ four[4] = x
            BY <2>1, FourBytes
        <3>. HIDE DEF four
        <3>2. \A i \in 1..4 : i \in {1, 2, 3, 4}
            OBVIOUS
        <3>3. \A i \in 1..4 : four[i] = f[i]
            BY <3>1, <3>2
        <3>. QED
            BY <1>3, <1>11, <3>1, <3>3, SeqEqual
    <2>3. frame' = << >>
        BY <1>4, <1>11
    <2>4. Bytes = f \o t /\ t \in Seq(Byte)
        <3>1. << >> \o rest \in Seq(Byte)
            BY <1>3, ConcatEmptySeq
        <3>2. << >> \o rest \o out \in Seq(Byte)
            BY <1>2, <3>1, ConcatProperties
        <3>. QED
            BY <1>5, <1>6, <2>3, <3>2
    <2>5. Frames(four \o t, m)
        BY <1>7, <2>2, <2>4
    <2>. HIDE DEF a, c, s, x, t
    <2>6. /\ Frame(a, c, s, x) /\ m - 1 \in Nat /\ Frames(t, m - 1)
          /\ Orders(four \o t) # << >> /\ Head(Orders(four \o t)) = <<a - 127, Signed(c, s)>>
          /\ Tail(Orders(four \o t)) = Orders(t)
        <3>1. \A u \in Seq(Byte) : Frames(four \o u, m) =>
                  /\ Frame(a, c, s, x) /\ m - 1 \in Nat /\ Frames(u, m - 1)
                  /\ Orders(four \o u) # << >>
                  /\ Head(Orders(four \o u)) = <<a - 127, Signed(c, s)>>
                  /\ Tail(Orders(four \o u)) = Orders(u)
            BY <2>1, FrameDropped, SMTT(60)
        <3>. QED
            BY <2>4, <2>5, <3>1, Zenon
    <2>7. Valid(f)
        <3>1. a \in {Address(w) : w \in Wheels} /\ s < 128 /\ x = (a + c + s) % 128
            BY <2>6 DEF Frame, Address, Wheels
        <3>. QED
            BY <3>1 DEF Valid, a, c, s, x
    <2>8. running' = [running EXCEPT ![a - 127] = <<c, s>>]
        BY <1>4, <1>11, <2>7 DEF a, c, s
    <2>9. a - 127 \in Wheels /\ c \in {0, 1} /\ s \in 0..127
        BY <2>6 DEF Frame, Wheels
    <2>10. TypeOK'
        <3>1. running' \in [Wheels -> {0, 1} \X (0..127)]
            BY <2>8, <2>9 DEF Inv, TypeOK
        <3>2. frame' \in Seq(Byte) /\ Len(frame') <= 3
            BY <2>3
        <3>. QED
            BY <1>1, <1>9, <3>1, <3>2 DEF Inv, TypeOK
    <2>11. FramesInv'
        <3>1. (\E n \in Nat : Frames(Bytes, n))'
            BY <2>6 DEF t
        <3>. QED
            BY <1>1, <3>1 DEF FramesInv
    <2>12. /\ OrdersUnderway # << >> /\ Head(OrdersUnderway) = <<a - 127, Signed(c, s)>>
           /\ OrdersUnderway' = Tail(OrdersUnderway)
        BY <1>8, <2>2, <2>4, <2>6 DEF t
    <2>13. Driven' = [Driven EXCEPT ![a - 127] = Signed(c, s)]
        BY <2>8, <2>9 DEF Inv, TypeOK, Driven
    <2>14. Bank!CarryOut
        <3>1. Head(OrdersUnderway)[1] = a - 127 /\ Head(OrdersUnderway)[2] = Signed(c, s)
            BY <2>12
        <3>. QED
            BY <2>12, <2>13, <3>1 DEF Bank!CarryOut, Driven
    <2>. QED
        BY <2>10, <2>11, <2>14 DEF Inv
<1>. QED
    BY <1>10, <1>11

LEMMA NextKeeps ==
    Inv /\ [Next]_vars => Inv' /\ [Bank!BankNext]_(Bank!bankVars)
<1>. SUFFICES ASSUME Inv, [Next]_vars
              PROVE  Inv' /\ [Bank!BankNext]_(Bank!bankVars)
    OBVIOUS
<1>1. UNCHANGED <<OrdersUnderway, Driven>> => UNCHANGED Bank!bankVars
    BY DEF Bank!bankVars, Driven
<1>2. ASSUME NEW speeds \in SpeedTriples, TakeWord(Pack(speeds))
      PROVE  Inv' /\ Bank!BankNext
    BY <1>2, WordTaken DEF Bank!BankNext
<1>3. CASE WriteByte
    BY <1>1, <1>3, ByteOut
<1>4. CASE TakeBaud
    BY <1>1, <1>4, BaudIn
<1>5. CASE ReceiveByte
    BY <1>1, <1>5, ByteIn DEF Bank!BankNext
<1>6. CASE UNCHANGED vars
    <2>1. Inv'
        BY <1>6 DEF vars, Inv, TypeOK, FramesInv, Bytes, Arriving
    <2>2. UNCHANGED <<OrdersUnderway, Driven>>
        BY <1>6 DEF vars, OrdersUnderway, Driven
    <2>. QED
        BY <1>1, <2>1, <2>2
<1>. QED
    BY <1>2, <1>3, <1>4, <1>5, <1>6 DEF Next

LEMMA InvHolds == Spec => []Inv
<1>1. Init => Inv
    BY StartInv
<1>2. Inv /\ [Next]_vars => Inv'
    BY NextKeeps
<1>. QED
    BY <1>1, <1>2, PTL DEF Spec

-----------------------------------------------------------------------------
(***************************************************************************)
(* The theorems.                                                           *)
(***************************************************************************)

\* The writer and the motor controllers only ever hold bytes, at most a word of
\* them unwritten and three of a frame received, and each motor runs with a
\* command and a 7-bit speed.
THEOREM MotorTypeCorrect == Spec => []TypeOK
BY InvHolds, PTL DEF Inv

\* allMotorOperations and the motor controllers implement the bank of motors: for
\* every set of speed bytes and every size of the UART's buffer, the three wheels
\* get the speeds of every word, in order, and no frame is discarded.
THEOREM FramesImplementBank == Spec => ImplementsBank
<1>1. Init => Bank!BankInit
    BY StartInv
<1>2. Inv /\ [Next]_vars => [Bank!BankNext]_(Bank!bankVars)
    BY NextKeeps
<1>. QED
    BY <1>1, <1>2, InvHolds, PTL DEF Spec, ImplementsBank, Bank!BankSpec
=============================================================================
