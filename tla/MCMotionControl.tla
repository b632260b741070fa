-------------------------- MODULE MCMotionControl --------------------------
(***************************************************************************)
(* threadFxn0 for its first MaxHandled messages, with the encoder counts   *)
(* Readings: consecutive counts then differ by nothing, or by one          *)
(* reading's worth of full speed in either direction.                      *)
(***************************************************************************)
EXTENDS MotionControl

CONSTANT MaxHandled

VARIABLE handled

MCInit == Init /\ handled = 0

Handle == handled < MaxHandled /\ handled' = handled + 1

Done == handled = MaxHandled /\ UNCHANGED <<vars, handled>>

MCNext ==
    \/ \E spiVal \in Readings :
         \/ Handle /\ CountWhileStopped(spiVal)
         \/ Handle /\ CountWhileMoving(spiVal)
    \/ \E c \in {FORWARD, BACK} : Handle /\ GoStraight(c)
    \/ \E c \in {SPIN_LEFT, SPIN_RIGHT} : Handle /\ Spin(c)
    \/ Handle /\ Stop
    \/ Handle /\ Tick
    \/ Done

MCSpec == MCInit /\ [][MCNext]_<<vars, handled>>
=============================================================================
