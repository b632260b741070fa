--------------------------- MODULE MotionControl ---------------------------
(***************************************************************************)
(* The controller thread of the rover: threadFxn0 of adcsinglechannel.c.   *)
(*                                                                         *)
(* The thread takes one message at a time out of queue 1 and handles it to *)
(* the end: a direction command sets the speeds of the wheels and sends    *)
(* them to the motor thread (queue 2); an encoder count is fed to the PID  *)
(* regulator of the wheel whose turn it is; a timer tick starts the        *)
(* reading of the next encoder.  A handler is one action here: all its     *)
(* state is local to the thread.  The messages it sends are in sentQ2 and  *)
(* sentQ6, the encoder it asks for in spiOP.                               *)
(*                                                                         *)
(* The PID works on doubles whose sums are exact multiples of 1/1000; the  *)
(* module computes in thousandths.                                         *)
(***************************************************************************)
EXTENDS MotorUart

CONSTANT Readings       \* the encoder counts, as the int the thread makes of them

ASSUME ReadingsAssumption == Readings \subseteq Int

FORWARD    == "forward"
STOP       == "stop"
BACK       == "back"
SPIN_LEFT  == "spin left"
SPIN_RIGHT == "spin right"

WifiVals == {FORWARD, STOP, BACK, SPIN_LEFT, SPIN_RIGHT}

VARIABLES
    lastWifiVal,    \* the last direction command
    counter,        \* the wheel the next encoder count is taken to belong to
    spicounter,     \* the encoder the next timer tick reads
    enable_counter, \* how many more PID results go to the motors
    stop_counter,   \* which arm, if any, the next STOP calls
    speedM,         \* the commanded speed byte of each wheel
    speedA,         \* the regulated speed byte of each wheel
    lastSPI,        \* the previous count of each wheel
    integral,       \* the regulator's state for each wheel
    errorLast,
    sentQ2,         \* the words the last handler sent to queue 2
    sentQ6,         \* the messages the last handler sent to queue 6
    spiOP           \* the encoder the last handler asked for, 0 if none

control == <<lastWifiVal, counter, spicounter, enable_counter, stop_counter>>
pid     == <<speedM, speedA, lastSPI, integral, errorLast>>
output  == <<sentQ2, sentQ6, spiOP>>

(***************************************************************************)
(* What the properties remember of the past; no handler reads it.          *)
(***************************************************************************)
VARIABLES
    motors,         \* the last word sent to queue 2
    direction,      \* FORWARD or BACK, whichever was commanded last
    stopped,        \* a STOP has been handled since then
    armCalls,       \* the messages for the arms sent since then
    fromRest,       \* the last command but STOP was given to a stopped rover
    fresh           \* the wheels read since the last FORWARD or BACK

history == <<motors, direction, stopped, armCalls, fromRest, fresh>>

vars == <<control, pid, output, history>>

-----------------------------------------------------------------------------
(***************************************************************************)
(* The speeds.                                                             *)
(***************************************************************************)

AllWheels(x) == [w \in Wheels |-> x]

Speeds(s1, s2, s3) == [w \in Wheels |-> IF w = 1 THEN s1 ELSE IF w = 2 THEN s2 ELSE s3]

Still == AllWheels(127)

\* A message for the MqttClient thread.
Cloud(type, val) == [type |-> type, val |-> val]

CallUnload == Cloud(6, 0)   \* becomes "unload" for ARM2
CallLoad   == Cloud(7, 0)   \* becomes "load" for ARM1

\* Fault: the branch of STOP leaves the speeds as they are.
StopSpeed_Kept == speedM

StopSpeed == Still

\* What each command sends to the motors.
CommandedSpeed(c) ==
    CASE c = FORWARD    -> Speeds(127, 67, 190)
      [] c = STOP       -> StopSpeed
      [] c = BACK       -> Speeds(127, 187, 67)
      [] c = SPIN_LEFT  -> AllWheels(187)
      [] c = SPIN_RIGHT -> AllWheels(67)

\* Where the regulator starts from after each command.
RegulatedSpeed(c) == IF c = FORWARD THEN Speeds(127, 67, 187) ELSE CommandedSpeed(c)

\* The encoder counts per reading that a speed byte stands for.
motortospeedconv(motor) ==
    CASE motor = 187 -> 348
      [] motor = 67  -> -348
      [] OTHER       -> 0

-----------------------------------------------------------------------------
(***************************************************************************)
(* The regulator.                                                          *)
(***************************************************************************)

\* (int) of a quotient: C rounds towards zero.
Truncate(n, d) == IF n >= 0 THEN n \div d ELSE -((-n) \div d)

(***************************************************************************)
(* (0.07 * error) + (0.005 * integral) + (0.05 * derivative), as an int.   *)
(* The factors have no exact double: where the exact sum is an integer the *)
(* computed one may be just short of it, and then loses one more.          *)
(***************************************************************************)
ControlVar(error, int, derivative) ==
    LET sum == 70 * error + 5 * int + 50 * derivative
        u   == Truncate(sum, 1000)
    IN  CASE u * 1000 # sum \/ sum = 0 -> {u}
          [] sum > 0 -> {u, u - 1}
          [] sum < 0 -> {u, u + 1}

\* Fault: only the lower end is tested.
Clamp_LowerOnly(speed) == IF speed < 0 THEN 0 ELSE speed

Clamp(speed) == IF speed > 255 THEN 255 ELSE IF speed < 0 THEN 0 ELSE speed

Rotate(k) == IF k = 3 THEN 1 ELSE k + 1

-----------------------------------------------------------------------------
Init ==
    /\ lastWifiVal = STOP
    /\ counter = 1
    /\ spicounter = 1
    /\ enable_counter = 0
    /\ stop_counter = 0
    /\ speedM = Still
    /\ speedA = Still
    /\ lastSPI = AllWheels(0)
    /\ integral = AllWheels(0)
    /\ errorLast = AllWheels(0)
    /\ sentQ2 = << >>
    /\ sentQ6 = << >>
    /\ spiOP = 0
    /\ motors = Pack(Still)
    /\ direction = FORWARD
    /\ stopped = FALSE
    /\ armCalls = << >>
    /\ fromRest = TRUE
    /\ fresh = {}

(***************************************************************************)
(* An encoder count.  Its wheel is the one whose turn it is: the count     *)
(* itself does not say.  While the rover is stopped only the turn passes.  *)
(***************************************************************************)

Moving == lastWifiVal # STOP

CountWhileStopped(spiVal) ==
    /\ ~Moving
    /\ counter' = Rotate(counter)
    /\ sentQ2' = << >> /\ sentQ6' = << >> /\ spiOP' = 0
    /\ UNCHANGED <<lastWifiVal, spicounter, enable_counter, stop_counter, pid, history>>

\* Fault: the error counts while the wheels are still getting up to speed.
PidError_Always(k, speed) == motortospeedconv(speedM[k]) - speed

\* No error is counted for the first readings after FORWARD and BACK.
PidError(k, speed) ==
    IF enable_counter = 0 THEN motortospeedconv(speedM[k]) - speed ELSE 0

CountWhileMoving(spiVal) ==
    LET k     == counter
        speed == spiVal - lastSPI[k]
        error == PidError(k, speed)
    IN  /\ Moving
        /\ lastSPI' = [lastSPI EXCEPT ![k] = spiVal]
        /\ integral' = [integral EXCEPT ![k] = @ + error]
        /\ \E u \in ControlVar(error, integral[k] + error, error - errorLast[k]) :
             speedA' = [speedA EXCEPT ![k] = Clamp(@ + u)]
        /\ errorLast' = [errorLast EXCEPT ![k] = error]
        /\ IF enable_counter > 0
             THEN /\ sentQ2' = <<Pack(speedA')>>
                  /\ motors' = Pack(speedA')
                  /\ enable_counter' = enable_counter - 1
             ELSE /\ sentQ2' = << >>
                  /\ UNCHANGED <<motors, enable_counter>>
        /\ sentQ6' = IF k = 2 THEN <<Cloud(5, speed)>> ELSE << >>
        /\ spiOP' = 0
        /\ counter' = Rotate(counter)
        /\ fresh' = fresh \cup {k}
        /\ UNCHANGED <<lastWifiVal, spicounter, stop_counter, speedM>>
        /\ UNCHANGED <<direction, stopped, armCalls, fromRest>>

-----------------------------------------------------------------------------
(***************************************************************************)
(* A direction command.                                                    *)
(***************************************************************************)

\* What every command does: its speeds become the commanded ones, the
\* regulator starts from them and they go to the motors.
SetSpeeds(c) ==
    /\ lastWifiVal' = c
    /\ speedM' = CommandedSpeed(c)
    /\ speedA' = RegulatedSpeed(c)
    /\ sentQ2' = <<Pack(speedM')>>
    /\ motors' = Pack(speedM')
    /\ spiOP' = 0
    /\ UNCHANGED <<counter, spicounter, lastSPI>>

\* Fault: one reading too few, and a wheel keeps the count from before the stop.
SettlingReadings_TwoOnly == 2

\* The readings after FORWARD and BACK that only take new counts.
SettlingReadings == 3

\* FORWARD and BACK: a new leg of the rover's trip begins.
GoStraight(c) ==
    /\ SetSpeeds(c)
    /\ enable_counter' = SettlingReadings
    /\ sentQ6' = <<Cloud(IF c = FORWARD THEN 8 ELSE 9, 0)>>
    /\ stop_counter' = IF c = FORWARD THEN 0 ELSE 1
    /\ UNCHANGED <<integral, errorLast>>
    /\ direction' = c
    /\ stopped' = FALSE
    /\ armCalls' = << >>
    /\ fromRest' = (lastWifiVal = STOP)
    /\ fresh' = {}

Spin(c) ==
    /\ SetSpeeds(c)
    /\ sentQ6' = << >>
    /\ UNCHANGED <<enable_counter, stop_counter, integral, errorLast>>
    /\ fromRest' = (lastWifiVal = STOP)
    /\ UNCHANGED <<direction, stopped, armCalls, fresh>>

\* Fault: the derivative starts from the last error before the stop.
ErrorLastAfterStop_Kept == errorLast

ErrorLastAfterStop == AllWheels(0)

\* Fault: the call to the second arm is not ticked off.
StopCounterAfterCall_Kept(s) == IF s = 1 THEN 666 ELSE s

\* An arm is called once; 777 and 666 call nobody.
StopCounterAfterCall(s) ==
    CASE s = 0 -> 777 [] s = 1 -> 666 [] OTHER -> s

\* STOP: the regulator forgets everything and the arm at the end of the leg is
\* called, the second one to unload after FORWARD, the first one to load after
\* BACK.
Stop ==
    /\ SetSpeeds(STOP)
    /\ integral' = AllWheels(0)
    /\ errorLast' = ErrorLastAfterStop
    /\ sentQ6' = CASE stop_counter = 0 -> <<CallUnload>>
                   [] stop_counter = 1 -> <<CallLoad>>
                   [] OTHER            -> << >>
    /\ stop_counter' = StopCounterAfterCall(stop_counter)
    /\ UNCHANGED enable_counter
    /\ stopped' = TRUE
    /\ armCalls' = armCalls \o sentQ6'
    /\ UNCHANGED <<direction, fromRest, fresh>>

-----------------------------------------------------------------------------
\* A timer tick: the encoders are read in turn.
Tick ==
    /\ spiOP' = spicounter
    /\ spicounter' = Rotate(spicounter)
    /\ sentQ2' = << >> /\ sentQ6' = << >>
    /\ UNCHANGED <<lastWifiVal, counter, enable_counter, stop_counter, pid, history>>

Next ==
    \/ \E spiVal \in Readings : CountWhileStopped(spiVal) \/ CountWhileMoving(spiVal)
    \/ \E c \in {FORWARD, BACK} : GoStraight(c)
    \/ \E c \in {SPIN_LEFT, SPIN_RIGHT} : Spin(c)
    \/ Stop
    \/ Tick

Spec == Init /\ [][Next]_vars

-----------------------------------------------------------------------------
(***************************************************************************)
(* Properties.                                                             *)
(***************************************************************************)

TypeOK ==
    /\ lastWifiVal \in WifiVals
    /\ counter \in Wheels /\ spicounter \in Wheels
    /\ enable_counter \in 0..3
    /\ stop_counter \in {0, 1, 666, 777}
    /\ speedM \in [Wheels -> Byte] /\ speedA \in [Wheels -> Byte]
    /\ lastSPI \in [Wheels -> Int]
    /\ integral \in [Wheels -> Int] /\ errorLast \in [Wheels -> Int]
    /\ sentQ2 \in Seq(Nat) /\ sentQ6 \in Seq([type : 5..9, val : Int])
    /\ spiOP \in 0..3
    /\ motors \in Nat
    /\ direction \in {FORWARD, BACK}
    /\ stopped \in BOOLEAN /\ fromRest \in BOOLEAN
    /\ armCalls \in Seq({CallUnload, CallLoad})
    /\ fresh \subseteq Wheels

\* A stopped rover stays stopped: whatever encoder counts arrive between a STOP
\* and the next command, however many results the PID still owes the motors from
\* the leg before (STOP does not clear enable_counter), the last speeds that
\* threadFxn0 sent are the three bytes of rest.
StopHolds == lastWifiVal = STOP => motors = Pack(Still)

\* The arms take part in every leg exactly once: the first STOP after FORWARD
\* calls the second arm to unload, the first STOP after BACK calls the first arm
\* to load, and further STOPs and SPINs of the same leg call nobody.  The module
\* counts the time before the first command as a leg forward, as the thread's
\* initial stop_counter does.
ArmCalledOncePerLeg ==
    armCalls = IF stopped THEN <<IF direction = FORWARD THEN CallUnload ELSE CallLoad>>
                          ELSE << >>

\* A straight leg that begins at rest keeps two speeds only: the commanded one until
\* its first encoder count, and from then on the one the regulator starts from.  None
\* of the three PID results that go to the motors carries an error, an integral or a
\* derivative over from the leg before, and no later one goes to them.  The two speeds
\* differ for FORWARD: wheel 3 is commanded with 190 and goes to 187 with the first
\* result, without any error having been counted.
LegFromRestSteady ==
    lastWifiVal \in {FORWARD, BACK} /\ fromRest
        => motors = Pack(IF enable_counter = SettlingReadings
                           THEN CommandedSpeed(lastWifiVal)
                           ELSE RegulatedSpeed(lastWifiVal))

\* A SPIN out of rest turns the rover at its commanded speed until the next command,
\* although SPIN clears nothing: the PID results that FORWARD or BACK before the STOP
\* still owes the motors are computed for the SPIN and sent in the middle of it.
SpinFromRestSteady ==
    lastWifiVal \in {SPIN_LEFT, SPIN_RIGHT} /\ fromRest
        => motors = Pack(CommandedSpeed(lastWifiVal))

\* On a straight leg the PID never takes the distance a wheel was pushed before
\* the leg began for speed: by the time errors count, each of the three wheels
\* has been read since the command, so every difference is between two counts of
\* this leg.
FreshBaseline ==
    lastWifiVal \in {FORWARD, BACK} /\ enable_counter = 0 => fresh = Wheels

\* What the README says of the regulator: it corrects the wheels at all times.
\* Every change it makes to the speed of a wheel of a moving rover is sent to the
\* motors.
CorrectionsReachMotors ==
    [][\A spiVal \in Readings :
         CountWhileMoving(spiVal) /\ speedA' # speedA => sentQ2' = <<Pack(speedA')>>]_vars
=============================================================================
