------------------------ MODULE MotionControlProofs ------------------------
(***************************************************************************)
(* threadFxn0 for every set of encoder counts and every sequence of        *)
(* messages: type correctness and the five safety invariants of            *)
(* MotionControl.tla.                                                      *)
(*                                                                         *)
(* Each invariant is strengthened by what it leaves unsaid about the       *)
(* counters: ArmInv ties stop_counter to the leg, FreshInv says which      *)
(* wheels have been read after each of the three settling readings, and    *)
(* RestInv says that the regulator of a rover at rest remembers nothing,   *)
(* and after any command out of rest still does as long as its results go  *)
(* to the motors.  The last is what a command out of rest needs: each word *)
(* that is still owed to the motors repeats the speeds the regulator       *)
(* started from.                                                           *)
(***************************************************************************)
EXTENDS MotionControl, TLAPS, SequenceTheorems

ArmInv ==
    /\ ArmCalledOncePerLeg
    /\ stop_counter = IF direction = FORWARD THEN IF stopped THEN 777 ELSE 0
                                             ELSE IF stopped THEN 666 ELSE 1

Before(k) == IF k = 1 THEN 3 ELSE k - 1

FreshInv ==
    lastWifiVal \in {FORWARD, BACK} =>
        /\ enable_counter <= 2 => Before(counter) \in fresh
        /\ enable_counter <= 1 => Before(Before(counter)) \in fresh
        /\ enable_counter = 0  => fresh = Wheels

Forgotten == integral = AllWheels(0) /\ errorLast = AllWheels(0)

RestInv ==
    /\ lastWifiVal = STOP => Forgotten
    /\ lastWifiVal # STOP /\ fromRest /\ enable_counter > 0
         => Forgotten /\ speedA = RegulatedSpeed(lastWifiVal)

\* The inductive invariant of the thread.
IInv ==
    /\ TypeOK /\ StopHolds /\ ArmInv /\ FreshInv /\ RestInv
    /\ LegFromRestSteady /\ SpinFromRestSteady

-----------------------------------------------------------------------------
(***************************************************************************)
(* The operators.                                                          *)
(***************************************************************************)

\* Three bytes pack into a number.
LEMMA PackType ==
    ASSUME NEW speed \in [Wheels -> Byte]
    PROVE  Pack(speed) \in Nat
<1>1. speed[1] \in Byte /\ speed[2] \in Byte /\ speed[3] \in Byte
    BY DEF Wheels
<1>2. \A a, b, c \in Byte : (a * 256 + b) * 256 + c \in Nat
    BY SMT DEF Byte
<1>3. (speed[1] * 256 + speed[2]) * 256 + speed[3] \in Nat
    BY <1>1, <1>2, Zenon
<1>. QED
    BY <1>3, Zenon DEF Pack

\* Every command sets each wheel to a byte.
LEMMA CommandTypes ==
    ASSUME NEW c \in WifiVals
    PROVE  /\ CommandedSpeed(c) \in [Wheels -> Byte]
           /\ RegulatedSpeed(c) \in [Wheels -> Byte]
<1>1. ASSUME NEW x \in Byte PROVE AllWheels(x) \in [Wheels -> Byte]
    BY DEF AllWheels
<1>2. ASSUME NEW x \in Byte, NEW y \in Byte, NEW z \in Byte
      PROVE  Speeds(x, y, z) \in [Wheels -> Byte]
    BY DEF Speeds
<1>3. 67 \in Byte /\ 127 \in Byte /\ 187 \in Byte /\ 190 \in Byte
    BY DEF Byte
<1>4. /\ Speeds(127, 67, 190) \in [Wheels -> Byte]
      /\ Speeds(127, 67, 187) \in [Wheels -> Byte]
      /\ Speeds(127, 187, 67) \in [Wheels -> Byte]
      /\ AllWheels(127) \in [Wheels -> Byte]
      /\ AllWheels(187) \in [Wheels -> Byte]
      /\ AllWheels(67) \in [Wheels -> Byte]
    BY <1>1, <1>2, <1>3, Zenon
<1>5. /\ CommandedSpeed(FORWARD) = Speeds(127, 67, 190)
      /\ CommandedSpeed(STOP) = AllWheels(127)
      /\ CommandedSpeed(BACK) = Speeds(127, 187, 67)
      /\ CommandedSpeed(SPIN_LEFT) = AllWheels(187)
      /\ CommandedSpeed(SPIN_RIGHT) = AllWheels(67)
    BY DEF CommandedSpeed, StopSpeed, Still, FORWARD, STOP, BACK, SPIN_LEFT, SPIN_RIGHT
<1>6. CommandedSpeed(c) \in [Wheels -> Byte]
    BY <1>4, <1>5 DEF WifiVals
<1>. QED
    BY <1>4, <1>6 DEF RegulatedSpeed

\* The regulator's result is an int, whatever the doubles lose.
LEMMA ControlVarType ==
    ASSUME NEW e \in Int, NEW i \in Int, NEW d \in Int
    PROVE  ControlVar(e, i, d) \subseteq Int
<1>. DEFINE sum == 70 * e + 5 * i + 50 * d
<1>1. sum \in Int
    OBVIOUS
<1>2. ASSUME NEW n \in Int PROVE Truncate(n, 1000) \in Int
    BY DEF Truncate
<1>3. Truncate(sum, 1000) \in Int
    BY <1>1, <1>2
<1>4. \A u \in ControlVar(e, i, d) : \/ u = Truncate(sum, 1000)
                                    \/ u = Truncate(sum, 1000) - 1
                                    \/ u = Truncate(sum, 1000) + 1
    BY <1>1, <1>3 DEF ControlVar
<1>. QED
    BY <1>3, <1>4

\* A regulator without error, integral and derivative changes nothing.
LEMMA ControlVarZero == ControlVar(0, 0, 0) = {0}
<1>1. Truncate(0, 1000) = 0
    BY DEF Truncate
<1>. QED
    BY <1>1 DEF ControlVar

\* Clamping makes a byte of any int and leaves a byte as it is.
LEMMA ClampByte ==
    ASSUME NEW x \in Int
    PROVE  Clamp(x) \in Byte /\ (x \in Byte => Clamp(x) = x)
BY DEF Clamp, Byte

LEMMA RotateType ==
    ASSUME NEW k \in Wheels
    PROVE  Rotate(k) \in Wheels
BY DEF Rotate, Wheels

-----------------------------------------------------------------------------
(***************************************************************************)
(* Types.                                                                  *)
(***************************************************************************)

LEMMA InitTypes == Init => TypeOK
<1>. SUFFICES ASSUME Init PROVE TypeOK
    OBVIOUS
<1>1. Still \in [Wheels -> Byte] /\ AllWheels(0) \in [Wheels -> Int]
    BY DEF Still, AllWheels, Byte
<1>2. Pack(Still) \in Nat
    BY <1>1, PackType
<1>3. << >> \in Seq(Nat) /\ << >> \in Seq([type : 5..9, val : Int])
      /\ << >> \in Seq({CallUnload, CallLoad})
    BY EmptySeq
<1>4. /\ lastWifiVal \in WifiVals
      /\ counter \in Wheels /\ spicounter \in Wheels
      /\ enable_counter \in 0..3 /\ stop_counter \in {0, 1, 666, 777} /\ spiOP \in 0..3
      /\ direction \in {FORWARD, BACK} /\ fresh \subseteq Wheels
    BY DEF Init, WifiVals, Wheels
<1>5. stopped \in BOOLEAN /\ fromRest \in BOOLEAN
    BY DEF Init
<1>. QED
    BY <1>1, <1>2, <1>3, <1>4, <1>5 DEF Init, TypeOK

\* What the handlers of the commands share.
LEMMA SetSpeedsTypes ==
    ASSUME TypeOK, NEW c \in WifiVals, SetSpeeds(c)
    PROVE  /\ lastWifiVal' \in WifiVals
           /\ counter' \in Wheels /\ spicounter' \in Wheels
           /\ speedM' \in [Wheels -> Byte] /\ speedA' \in [Wheels -> Byte]
           /\ lastSPI' \in [Wheels -> Int]
           /\ sentQ2' \in Seq(Nat)
           /\ spiOP' \in 0..3
           /\ motors' \in Nat
<1>1. speedM' \in [Wheels -> Byte] /\ speedA' \in [Wheels -> Byte]
    BY CommandTypes DEF SetSpeeds
<1>2. Pack(speedM') \in Nat
    BY <1>1, PackType
<1>3. sentQ2' \in Seq(Nat)
    BY <1>2 DEF SetSpeeds
<1>. QED
    BY <1>1, <1>2, <1>3 DEF SetSpeeds, TypeOK

LEMMA NextTypes == TypeOK /\ [Next]_vars => TypeOK'
<1>. SUFFICES ASSUME TypeOK, [Next]_vars PROVE TypeOK'
    OBVIOUS
<1>. DEFINE Msg == [type : 5..9, val : Int]
<1>0. << >> \in Seq(Nat) /\ << >> \in Seq(Msg) /\ << >> \in Seq({CallUnload, CallLoad})
    BY EmptySeq
<1>1. ASSUME NEW spiVal \in Readings, CountWhileStopped(spiVal) PROVE TypeOK'
    BY <1>0, <1>1, RotateType DEF TypeOK, CountWhileStopped, pid, history
<1>2. ASSUME NEW spiVal \in Readings, CountWhileMoving(spiVal) PROVE TypeOK'
    <2>. DEFINE k == counter
                speed == spiVal - lastSPI[k]
                error == PidError(k, speed)
    <2>1. k \in Wheels /\ spiVal \in Int /\ lastSPI[k] \in Int /\ integral[k] \in Int
          /\ errorLast[k] \in Int /\ speedA[k] \in Int
        <3>1. k \in Wheels /\ spiVal \in Int
            BY ReadingsAssumption DEF TypeOK
        <3>2. speedA[k] \in Byte
            BY <3>1 DEF TypeOK
        <3>3. speedA[k] \in Int
            BY <3>2 DEF Byte
        <3>4. lastSPI[k] \in Int /\ integral[k] \in Int /\ errorLast[k] \in Int
            BY <3>1 DEF TypeOK
        <3>. QED
            BY <3>1, <3>3, <3>4
    <2>2. speed \in Int
        BY <2>1
    <2>3. error \in Int
        <3>1. motortospeedconv(speedM[k]) \in Int
            BY DEF motortospeedconv
        <3>. QED
            BY <2>2, <3>1 DEF PidError
    <2>. HIDE DEF error
    <2>4. integral[k] + error \in Int /\ error - errorLast[k] \in Int
        BY <2>1, <2>3
    <2>5. PICK u \in ControlVar(error, integral[k] + error, error - errorLast[k]) :
              speedA' = [speedA EXCEPT ![k] = Clamp(@ + u)]
        BY <1>2 DEF CountWhileMoving, error
    <2>6. Clamp(speedA[k] + u) \in Byte
        BY <2>1, <2>3, <2>4, ControlVarType, ClampByte
    <2>7. speedA' \in [Wheels -> Byte]
        BY <2>5, <2>6 DEF TypeOK
    <2>8. Pack(speedA') \in Nat
        BY <2>7, PackType
    <2>9. lastSPI' \in [Wheels -> Int] /\ integral' \in [Wheels -> Int]
          /\ errorLast' \in [Wheels -> Int]
        BY <1>2, <2>1, <2>3, <2>4 DEF CountWhileMoving, TypeOK, error
    <2>10. sentQ2' \in Seq(Nat) /\ motors' \in Nat /\ enable_counter' \in 0..3
        <3>1. CASE enable_counter > 0
            <4>1. sentQ2' = <<Pack(speedA')>> /\ motors' = Pack(speedA')
                  /\ enable_counter' = enable_counter - 1
                BY <1>2, <3>1 DEF CountWhileMoving
            <4>. QED
                BY <2>8, <3>1, <4>1 DEF TypeOK
        <3>2. CASE ~(enable_counter > 0)
            BY <1>0, <1>2, <3>2 DEF CountWhileMoving, TypeOK
        <3>. QED
            BY <3>1, <3>2
    <2>11. sentQ6' \in Seq(Msg)
        <3>1. Cloud(5, speed) \in Msg
            BY <2>2 DEF Cloud
        <3>2. sentQ6' = IF k = 2 THEN <<Cloud(5, speed)>> ELSE << >>
            BY <1>2 DEF CountWhileMoving
        <3>. HIDE DEF Msg, speed
        <3>. QED
            BY <1>0, <3>1, <3>2
    <2>12. counter' \in Wheels /\ fresh' \subseteq Wheels
        BY <1>2, <2>1, RotateType DEF CountWhileMoving, TypeOK
    <2>13. /\ lastWifiVal' \in WifiVals /\ spicounter' \in Wheels
           /\ stop_counter' \in {0, 1, 666, 777}
           /\ speedM' \in [Wheels -> Byte] /\ spiOP' \in 0..3
           /\ direction' \in {FORWARD, BACK}
           /\ stopped' \in BOOLEAN /\ fromRest' \in BOOLEAN
           /\ armCalls' \in Seq({CallUnload, CallLoad})
        BY <1>2 DEF CountWhileMoving, TypeOK
    <2>. QED
        BY <2>7, <2>9, <2>10, <2>11, <2>12, <2>13 DEF TypeOK
<1>3. ASSUME NEW c \in {FORWARD, BACK}, GoStraight(c) PROVE TypeOK'
    <2>1. c \in WifiVals /\ SetSpeeds(c)
        BY <1>3 DEF GoStraight, WifiVals
    <2>2. sentQ6' \in Seq(Msg)
        <3>1. Cloud(8, 0) \in Msg /\ Cloud(9, 0) \in Msg
            BY DEF Cloud
        <3>2. sentQ6' = <<Cloud(IF c = FORWARD THEN 8 ELSE 9, 0)>>
            BY <1>3 DEF GoStraight
        <3>. HIDE DEF Msg
        <3>. QED
            BY <3>1, <3>2
    <2>3. enable_counter' \in 0..3 /\ stop_counter' \in {0, 1, 666, 777}
          /\ fresh' \subseteq Wheels /\ direction' \in {FORWARD, BACK}
        BY <1>3 DEF GoStraight, SettlingReadings
    <2>4. /\ stopped' \in BOOLEAN /\ fromRest' \in BOOLEAN
          /\ armCalls' \in Seq({CallUnload, CallLoad})
          /\ integral' \in [Wheels -> Int] /\ errorLast' \in [Wheels -> Int]
        BY <1>0, <1>3 DEF GoStraight, TypeOK
    <2>. QED
        BY <2>1, <2>2, <2>3, <2>4, SetSpeedsTypes DEF TypeOK
<1>4. ASSUME NEW c \in {SPIN_LEFT, SPIN_RIGHT}, Spin(c) PROVE TypeOK'
    <2>1. c \in WifiVals /\ SetSpeeds(c)
        BY <1>4 DEF Spin, WifiVals
    <2>. QED
        BY <1>0, <1>4, <2>1, SetSpeedsTypes DEF Spin, TypeOK
<1>5. ASSUME Stop PROVE TypeOK'
    <2>1. STOP \in WifiVals /\ SetSpeeds(STOP)
        BY <1>5 DEF Stop, WifiVals
    <2>2. integral' \in [Wheels -> Int] /\ errorLast' \in [Wheels -> Int]
        BY <1>5 DEF Stop, AllWheels, ErrorLastAfterStop
    <2>3. stop_counter' \in {0, 1, 666, 777}
        BY <1>5 DEF Stop, StopCounterAfterCall, TypeOK
    <2>4. sentQ6' \in Seq(Msg) /\ sentQ6' \in Seq({CallUnload, CallLoad})
        <3>1. CallUnload \in Msg /\ CallLoad \in Msg
            BY DEF CallUnload, CallLoad, Cloud
        <3>2. \/ sentQ6' = <<CallUnload>> \/ sentQ6' = <<CallLoad>> \/ sentQ6' = << >>
            BY <1>5 DEF Stop
        <3>. HIDE DEF Msg
        <3>3. CASE sentQ6' = << >>
            BY <1>0, <3>3
        <3>4. CASE sentQ6' = <<CallUnload>>
            BY <3>1, <3>4
        <3>5. CASE sentQ6' = <<CallLoad>>
            BY <3>1, <3>5
        <3>. QED
            BY <3>2, <3>3, <3>4, <3>5
    <2>5. armCalls' \in Seq({CallUnload, CallLoad})
        <3>1. armCalls' = armCalls \o sentQ6' /\ armCalls \in Seq({CallUnload, CallLoad})
            BY <1>5 DEF Stop, TypeOK
        <3>. QED
            BY <2>4, <3>1, ConcatProperties
    <2>6. /\ enable_counter' \in 0..3 /\ direction' \in {FORWARD, BACK}
          /\ stopped' \in BOOLEAN /\ fromRest' \in BOOLEAN /\ fresh' \subseteq Wheels
        BY <1>5 DEF Stop, TypeOK
    <2>. QED
        BY <2>1, <2>2, <2>3, <2>4, <2>5, <2>6, SetSpeedsTypes DEF TypeOK
<1>6. ASSUME Tick PROVE TypeOK'
    BY <1>0, <1>6, RotateType DEF Tick, TypeOK, pid, history, Wheels
<1>7. CASE UNCHANGED vars
    BY <1>7 DEF vars, control, pid, output, history, TypeOK
<1>. QED
    BY <1>1, <1>2, <1>3, <1>4, <1>5, <1>6, <1>7 DEF Next

\* For every set of encoder counts: each variable keeps its type.  The regulated
\* speeds are bytes although the PID adds to them without limit, and the settling
\* counter never leaves 0..3.
THEOREM TypeCorrect == Spec => []TypeOK
<1>. QED
    BY InitTypes, NextTypes, PTL DEF Spec

-----------------------------------------------------------------------------
(***************************************************************************)
(* The safety invariants, one lemma for each part of IInv.                 *)
(***************************************************************************)

LEMMA InitInductive == Init => IInv
<1>. SUFFICES ASSUME Init PROVE IInv
    OBVIOUS
<1>1. StopHolds /\ ArmInv /\ FreshInv
    BY DEF Init, StopHolds, ArmInv, ArmCalledOncePerLeg, FreshInv, FORWARD, STOP, BACK
<1>2. RestInv /\ LegFromRestSteady /\ SpinFromRestSteady
    BY DEF Init, RestInv, LegFromRestSteady, SpinFromRestSteady, Forgotten,
           FORWARD, STOP, BACK, SPIN_LEFT, SPIN_RIGHT
<1>. QED
    BY <1>1, <1>2, InitTypes DEF IInv

LEMMA StopStep ==
    ASSUME StopHolds, [Next]_vars
    PROVE  StopHolds'
<1>. USE DEF StopHolds, FORWARD, STOP, BACK, SPIN_LEFT, SPIN_RIGHT
<1>1. ASSUME NEW spiVal \in Readings, CountWhileStopped(spiVal) PROVE StopHolds'
    BY <1>1 DEF CountWhileStopped, history
<1>2. ASSUME NEW spiVal \in Readings, CountWhileMoving(spiVal) PROVE StopHolds'
    BY <1>2 DEF CountWhileMoving, Moving
<1>3. ASSUME NEW c \in {FORWARD, BACK}, GoStraight(c) PROVE StopHolds'
    BY <1>3 DEF GoStraight, SetSpeeds
<1>4. ASSUME NEW c \in {SPIN_LEFT, SPIN_RIGHT}, Spin(c) PROVE StopHolds'
    BY <1>4 DEF Spin, SetSpeeds
<1>5. ASSUME Stop PROVE StopHolds'
    <2>1. CommandedSpeed(STOP) = Still
        BY DEF CommandedSpeed, StopSpeed
    <2>. QED
        BY <1>5, <2>1 DEF Stop, SetSpeeds
<1>6. CASE Tick \/ UNCHANGED vars
    BY <1>6 DEF Tick, vars, control, history
<1>. QED
    BY <1>1, <1>2, <1>3, <1>4, <1>5, <1>6 DEF Next

\* stop_counter is 0 or 1 exactly on a leg that no STOP has ended yet.
LEMMA ArmStep ==
    ASSUME TypeOK, ArmInv, [Next]_vars
    PROVE  ArmInv'
<1>. USE DEF ArmInv, ArmCalledOncePerLeg
<1>1. CASE \/ \E spiVal \in Readings : CountWhileStopped(spiVal) \/ CountWhileMoving(spiVal)
           \/ \E c \in {SPIN_LEFT, SPIN_RIGHT} : Spin(c)
           \/ Tick
           \/ UNCHANGED vars
    <2>1. UNCHANGED <<stop_counter, direction, stopped, armCalls>>
        BY <1>1 DEF CountWhileStopped, CountWhileMoving, Spin, Tick, vars, control, history
    <2>. QED
        BY <2>1
<1>2. ASSUME NEW c \in {FORWARD, BACK}, GoStraight(c) PROVE ArmInv'
    BY <1>2 DEF GoStraight, FORWARD, BACK
<1>3. ASSUME Stop PROVE ArmInv'
    <2>. USE DEF Stop
    <2>1. direction' = direction /\ stopped' = TRUE /\ armCalls' = armCalls \o sentQ6'
        BY <1>3
    <2>2. CASE stopped
        <3>1. stop_counter' = stop_counter /\ sentQ6' = << >>
            BY <1>3, <2>2 DEF StopCounterAfterCall
        <3>2. armCalls' = armCalls
            BY <2>1, <3>1, ConcatEmptySeq DEF TypeOK
        <3>. QED
            BY <2>1, <2>2, <3>1, <3>2
    <2>3. CASE ~stopped /\ direction = FORWARD
        <3>1. stop_counter' = 777 /\ sentQ6' = <<CallUnload>> /\ armCalls = << >>
            BY <1>3, <2>3 DEF StopCounterAfterCall
        <3>2. <<CallUnload>> \in Seq({CallUnload, CallLoad})
            OBVIOUS
        <3>3. armCalls' = <<CallUnload>>
            BY <2>1, <3>1, <3>2, ConcatEmptySeq
        <3>. QED
            BY <2>1, <2>3, <3>1, <3>3
    <2>4. CASE ~stopped /\ direction # FORWARD
        <3>1. stop_counter' = 666 /\ sentQ6' = <<CallLoad>> /\ armCalls = << >>
            BY <1>3, <2>4 DEF StopCounterAfterCall
        <3>2. <<CallLoad>> \in Seq({CallUnload, CallLoad})
            OBVIOUS
        <3>3. armCalls' = <<CallLoad>>
            BY <2>1, <3>1, <3>2, ConcatEmptySeq
        <3>. QED
            BY <2>1, <2>4, <3>1, <3>3
    <2>. QED
        BY <2>2, <2>3, <2>4
<1>. QED
    BY <1>1, <1>2, <1>3 DEF Next

\* After n settling readings the n wheels before the turn have been read.
LEMMA FreshStep ==
    ASSUME TypeOK, FreshInv, [Next]_vars
    PROVE  FreshInv'
<1>. USE DEF FreshInv, FORWARD, STOP, BACK, SPIN_LEFT, SPIN_RIGHT
<1>1. ASSUME NEW spiVal \in Readings, CountWhileStopped(spiVal) PROVE FreshInv'
    BY <1>1 DEF CountWhileStopped, Moving
<1>2. ASSUME NEW spiVal \in Readings, CountWhileMoving(spiVal) PROVE FreshInv'
    <2>1. /\ lastWifiVal' = lastWifiVal
          /\ fresh' = fresh \cup {counter}
          /\ counter' = Rotate(counter)
          /\ enable_counter' = IF enable_counter > 0 THEN enable_counter - 1
                                                     ELSE enable_counter
        BY <1>2 DEF CountWhileMoving
    <2>2. counter \in 1..3 /\ enable_counter \in 0..3 /\ fresh \subseteq 1..3
        BY DEF TypeOK, Wheels
    <2>3. Before(counter') = counter /\ Before(Before(counter')) = Before(counter)
        BY <2>1, <2>2 DEF Before, Rotate
    <2>4. {Before(Before(counter)), Before(counter), counter} = 1..3
        BY <2>2 DEF Before
    <2>5. fresh' \subseteq 1..3 /\ counter \in fresh' /\ fresh \subseteq fresh'
        BY <2>1, <2>2
    <2>6. CASE enable_counter = 0
        BY <2>1, <2>3, <2>5, <2>6 DEF Wheels, Before
    <2>7. CASE enable_counter = 1
        <3>. SUFFICES ASSUME lastWifiVal \in {FORWARD, BACK}
                      PROVE  fresh' = Wheels /\ FreshInv'
            BY <2>1
        <3>1. Before(counter) \in fresh' /\ Before(Before(counter)) \in fresh'
            <4>1. enable_counter <= 2 /\ enable_counter <= 1
                BY <2>7
            <4>2. Before(counter) \in fresh /\ Before(Before(counter)) \in fresh
                BY <4>1
            <4>. QED
                BY <2>5, <4>2
        <3>2. fresh' = 1..3
            BY <2>4, <2>5, <3>1
        <3>. QED
            BY <2>1, <2>3, <2>5, <2>7, <3>1, <3>2 DEF Wheels
    <2>8. CASE enable_counter = 2
        BY <2>1, <2>3, <2>5, <2>8
    <2>9. CASE enable_counter = 3
        BY <2>1, <2>3, <2>5, <2>9
    <2>. QED
        BY <2>2, <2>6, <2>7, <2>8, <2>9
<1>3. ASSUME NEW c \in {FORWARD, BACK}, GoStraight(c) PROVE FreshInv'
    BY <1>3 DEF GoStraight, SettlingReadings
<1>4. ASSUME NEW c \in {SPIN_LEFT, SPIN_RIGHT}, Spin(c) PROVE FreshInv'
    BY <1>4 DEF Spin, SetSpeeds
<1>5. ASSUME Stop PROVE FreshInv'
    BY <1>5 DEF Stop, SetSpeeds
<1>6. CASE Tick \/ UNCHANGED vars
    BY <1>6 DEF Tick, vars, control, history
<1>. QED
    BY <1>1, <1>2, <1>3, <1>4, <1>5, <1>6 DEF Next

\* A settling reading of a regulator that remembers nothing feeds it nothing but
\* zeros, and the speeds stay as they are.
LEMMA SettlingReading ==
    ASSUME TypeOK, NEW spiVal \in Readings, CountWhileMoving(spiVal),
           enable_counter > 0, Forgotten
    PROVE  Forgotten' /\ speedA' = speedA
<1>. DEFINE k == counter
<1>1. k \in Wheels /\ integral[k] = 0 /\ errorLast[k] = 0
    BY DEF TypeOK, Forgotten, AllWheels
<1>2. PidError(k, spiVal - lastSPI[k]) = 0
    BY DEF PidError, TypeOK
<1>3. integral' = [integral EXCEPT ![k] = @ + 0] /\ errorLast' = [errorLast EXCEPT ![k] = 0]
    BY <1>2 DEF CountWhileMoving
<1>4. Forgotten'
    BY <1>1, <1>3 DEF Forgotten, AllWheels
<1>5. \E u \in ControlVar(0, 0, 0) : speedA' = [speedA EXCEPT ![k] = Clamp(@ + u)]
    <2>1. integral[k] + 0 = 0 /\ 0 - errorLast[k] = 0
        BY <1>1
    <2>. QED
        BY <1>2, <2>1 DEF CountWhileMoving
<1>6. speedA[k] \in Byte /\ speedA[k] \in Int
    <2>1. speedA[k] \in Byte
        BY <1>1 DEF TypeOK
    <2>. QED
        BY <2>1 DEF Byte
<1>7. Clamp(speedA[k] + 0) = speedA[k]
    BY <1>6, ClampByte
<1>8. speedA' = speedA
    BY <1>1, <1>5, <1>7, ControlVarZero DEF TypeOK
<1>. QED
    BY <1>4, <1>8

LEMMA RestStep ==
    ASSUME TypeOK, RestInv, [Next]_vars
    PROVE  RestInv'
<1>. USE DEF RestInv, FORWARD, STOP, BACK, SPIN_LEFT, SPIN_RIGHT
<1>1. ASSUME NEW spiVal \in Readings, CountWhileStopped(spiVal) PROVE RestInv'
    BY <1>1 DEF CountWhileStopped, Moving, pid, Forgotten
<1>2. ASSUME NEW spiVal \in Readings, CountWhileMoving(spiVal) PROVE RestInv'
    <2>. SUFFICES ASSUME lastWifiVal' # STOP, fromRest', enable_counter' > 0
                  PROVE  Forgotten' /\ speedA' = RegulatedSpeed(lastWifiVal)'
        BY <1>2 DEF CountWhileMoving, Moving
    <2>1. lastWifiVal' = lastWifiVal /\ fromRest' = fromRest /\ enable_counter > 0
        <3>1. CASE enable_counter > 0
            BY <1>2, <3>1 DEF CountWhileMoving
        <3>2. CASE ~(enable_counter > 0)
            BY <1>2, <3>2 DEF CountWhileMoving
        <3>. QED
            BY <3>1, <3>2
    <2>2. Forgotten /\ speedA = RegulatedSpeed(lastWifiVal)
        BY <2>1
    <2>3. Forgotten' /\ speedA' = speedA
        BY <1>2, <2>1, <2>2, SettlingReading
    <2>4. RegulatedSpeed(lastWifiVal)' = RegulatedSpeed(lastWifiVal)
        BY <1>2 DEF CountWhileMoving, RegulatedSpeed, CommandedSpeed, StopSpeed
    <2>. QED
        BY <2>2, <2>3, <2>4
<1>3. ASSUME NEW c \in {FORWARD, BACK}, GoStraight(c) PROVE RestInv'
    <2>1. lastWifiVal' = c /\ speedA' = RegulatedSpeed(c) /\ UNCHANGED <<integral, errorLast>>
        BY <1>3 DEF GoStraight, SetSpeeds
    <2>2. RegulatedSpeed(lastWifiVal)' = RegulatedSpeed(c)
        BY <1>3, <2>1 DEF RegulatedSpeed, CommandedSpeed, StopSpeed
    <2>. QED
        BY <1>3, <2>1, <2>2 DEF GoStraight, Forgotten
<1>4. ASSUME NEW c \in {SPIN_LEFT, SPIN_RIGHT}, Spin(c) PROVE RestInv'
    <2>1. lastWifiVal' = c /\ speedA' = RegulatedSpeed(c) /\ UNCHANGED <<integral, errorLast>>
        BY <1>4 DEF Spin, SetSpeeds
    <2>2. RegulatedSpeed(lastWifiVal)' = RegulatedSpeed(c)
        BY <1>4, <2>1 DEF RegulatedSpeed, CommandedSpeed, StopSpeed
    <2>. QED
        BY <1>4, <2>1, <2>2 DEF Spin, Forgotten
<1>5. ASSUME Stop PROVE RestInv'
    BY <1>5 DEF Stop, SetSpeeds, Forgotten, ErrorLastAfterStop
<1>6. CASE Tick \/ UNCHANGED vars
    BY <1>6 DEF Tick, vars, control, pid, history, Forgotten
<1>. QED
    BY <1>1, <1>2, <1>3, <1>4, <1>5, <1>6 DEF Next

\* A result sent on a straight leg out of rest is the word the regulator started
\* from, and the first one follows the commanded word.
LEMMA LegStep ==
    ASSUME TypeOK, RestInv, LegFromRestSteady, [Next]_vars
    PROVE  LegFromRestSteady'
<1>. USE DEF LegFromRestSteady, FORWARD, STOP, BACK, SPIN_LEFT, SPIN_RIGHT
<1>1. CASE Tick \/ UNCHANGED vars \/ \E spiVal \in Readings : CountWhileStopped(spiVal)
    <2>1. UNCHANGED <<lastWifiVal, fromRest, enable_counter, motors>>
        BY <1>1 DEF Tick, CountWhileStopped, vars, control, history
    <2>. QED
        BY <2>1 DEF CommandedSpeed, RegulatedSpeed, SettlingReadings
<1>2. ASSUME NEW spiVal \in Readings, CountWhileMoving(spiVal) PROVE LegFromRestSteady'
    <2>. SUFFICES ASSUME lastWifiVal' \in {FORWARD, BACK}, fromRest'
                  PROVE  /\ enable_counter' # SettlingReadings
                         /\ motors' = Pack(RegulatedSpeed(lastWifiVal'))
        BY DEF SettlingReadings
    <2>1. lastWifiVal' = lastWifiVal /\ fromRest' = fromRest /\ enable_counter \in 0..3
        BY <1>2 DEF CountWhileMoving, TypeOK
    <2>2. CASE enable_counter > 0
        <3>1. Forgotten /\ speedA = RegulatedSpeed(lastWifiVal)
            BY <2>1, <2>2 DEF RestInv
        <3>2. speedA' = RegulatedSpeed(lastWifiVal)
            BY <1>2, <2>2, <3>1, SettlingReading
        <3>3. motors' = Pack(speedA') /\ enable_counter' = enable_counter - 1
            BY <1>2, <2>2 DEF CountWhileMoving
        <3>4. enable_counter' # SettlingReadings
            BY <2>1, <3>3 DEF SettlingReadings
        <3>. QED
            BY <2>1, <3>2, <3>3, <3>4
    <2>3. CASE ~(enable_counter > 0)
        <3>1. motors' = motors /\ enable_counter' = enable_counter
            BY <1>2, <2>3 DEF CountWhileMoving
        <3>2. enable_counter # SettlingReadings
            BY <2>3 DEF SettlingReadings
        <3>. QED
            BY <2>1, <3>1, <3>2
    <2>. QED
        BY <2>2, <2>3
<1>3. ASSUME NEW c \in {FORWARD, BACK}, GoStraight(c) PROVE LegFromRestSteady'
    <2>1. /\ lastWifiVal' = c /\ motors' = Pack(CommandedSpeed(c))
          /\ enable_counter' = SettlingReadings
        BY <1>3 DEF GoStraight, SetSpeeds
    <2>2. SettlingReadings' = SettlingReadings
        BY DEF SettlingReadings
    <2>. QED
        BY <1>3, <2>1, <2>2
<1>4. ASSUME NEW c \in {SPIN_LEFT, SPIN_RIGHT}, Spin(c) PROVE LegFromRestSteady'
    BY <1>4 DEF Spin, SetSpeeds
<1>5. ASSUME Stop PROVE LegFromRestSteady'
    BY <1>5 DEF Stop, SetSpeeds
<1>. QED
    BY <1>1, <1>2, <1>3, <1>4, <1>5 DEF Next

\* A result sent in the middle of a SPIN out of rest is the SPIN's own word.
LEMMA SpinStep ==
    ASSUME TypeOK, RestInv, SpinFromRestSteady, [Next]_vars
    PROVE  SpinFromRestSteady'
<1>. USE DEF SpinFromRestSteady, FORWARD, STOP, BACK, SPIN_LEFT, SPIN_RIGHT
<1>1. CASE Tick \/ UNCHANGED vars \/ \E spiVal \in Readings : CountWhileStopped(spiVal)
    <2>1. UNCHANGED <<lastWifiVal, fromRest, motors>>
        BY <1>1 DEF Tick, CountWhileStopped, vars, control, history
    <2>. QED
        BY <2>1 DEF CommandedSpeed
<1>2. ASSUME NEW spiVal \in Readings, CountWhileMoving(spiVal) PROVE SpinFromRestSteady'
    <2>. SUFFICES ASSUME lastWifiVal' \in {SPIN_LEFT, SPIN_RIGHT}, fromRest'
                  PROVE  motors' = Pack(CommandedSpeed(lastWifiVal'))
        OBVIOUS
    <2>1. lastWifiVal' = lastWifiVal /\ fromRest' = fromRest
        BY <1>2 DEF CountWhileMoving
    <2>2. CASE enable_counter > 0
        <3>1. Forgotten /\ speedA = RegulatedSpeed(lastWifiVal)
            BY <2>1, <2>2 DEF RestInv
        <3>2. RegulatedSpeed(lastWifiVal) = CommandedSpeed(lastWifiVal)
            BY <2>1 DEF RegulatedSpeed
        <3>3. speedA' = CommandedSpeed(lastWifiVal)
            BY <1>2, <2>2, <3>1, <3>2, SettlingReading
        <3>4. motors' = Pack(speedA')
            BY <1>2, <2>2 DEF CountWhileMoving
        <3>. QED
            BY <2>1, <3>3, <3>4
    <2>3. CASE ~(enable_counter > 0)
        <3>1. motors' = motors
            BY <1>2, <2>3 DEF CountWhileMoving
        <3>. QED
            BY <2>1, <3>1
    <2>. QED
        BY <2>2, <2>3
<1>3. ASSUME NEW c \in {FORWARD, BACK}, GoStraight(c) PROVE SpinFromRestSteady'
    BY <1>3 DEF GoStraight, SetSpeeds
<1>4. ASSUME NEW c \in {SPIN_LEFT, SPIN_RIGHT}, Spin(c) PROVE SpinFromRestSteady'
    <2>1. lastWifiVal' = c /\ motors' = Pack(CommandedSpeed(c))
        BY <1>4 DEF Spin, SetSpeeds
    <2>. QED
        BY <1>4, <2>1
<1>5. ASSUME Stop PROVE SpinFromRestSteady'
    BY <1>5 DEF Stop, SetSpeeds
<1>. QED
    BY <1>1, <1>2, <1>3, <1>4, <1>5 DEF Next

LEMMA Inductive == Spec => []IInv
<1>1. IInv /\ [Next]_vars => IInv'
    BY NextTypes, StopStep, ArmStep, FreshStep, RestStep, LegStep, SpinStep DEF IInv
<1>. QED
    BY InitInductive, <1>1, PTL DEF Spec

-----------------------------------------------------------------------------
(***************************************************************************)
(* What the thread guarantees.                                             *)
(***************************************************************************)

\* After a STOP the motors are told nothing but to rest until the next command,
\* for every sequence of encoder counts and timer ticks.
THEOREM StopIsFinal == Spec => []StopHolds
<1>1. IInv => StopHolds
    BY DEF IInv
<1>. QED
    BY Inductive, <1>1, PTL

\* In every sequence of commands each leg calls its arm exactly once.
THEOREM ArmCalls == Spec => []ArmCalledOncePerLeg
<1>1. IInv => ArmCalledOncePerLeg
    BY DEF IInv, ArmInv
<1>. QED
    BY Inductive, <1>1, PTL

\* For every encoder behaviour and every history of legs before: a straight leg begun
\* at rest sends the motors its commanded speeds, then with each of its three PID
\* results the speeds the regulator starts from, and nothing else.
THEOREM CleanStart == Spec => []LegFromRestSteady
<1>1. IInv => LegFromRestSteady
    BY DEF IInv
<1>. QED
    BY Inductive, <1>1, PTL

\* On every straight leg the errors of the PID are differences of two counts of
\* that leg.
THEOREM BaselineIsFresh == Spec => []FreshBaseline
<1>1. IInv => FreshBaseline
    BY DEF IInv, FreshInv, FreshBaseline
<1>. QED
    BY Inductive, <1>1, PTL

\* For every number of results still owed to the motors and every encoder count:
\* the word the motors have after a SPIN out of rest is the SPIN's.
THEOREM SpinHolds == Spec => []SpinFromRestSteady
<1>1. IInv => SpinFromRestSteady
    BY DEF IInv
<1>. QED
    BY Inductive, <1>1, PTL
=============================================================================
