--------------------------- MODULE CommandChannel ---------------------------
(***************************************************************************)
(* What the rover's threads and queues promise between the MQTT callback   *)
(* and the controller: a direction command that the callback accepts is    *)
(* delivered to the controller, in the order of acceptance, each command   *)
(* once and none lost on the way.                                          *)
(***************************************************************************)
EXTENDS Sequences

CONSTANTS
    Direction,      \* the direction commands
    AtRest          \* the one the controller starts with

VARIABLES
    pending,        \* accepted and not yet delivered
    heading         \* the last one delivered

channelVars == <<pending, heading>>

ChannelInit == pending = << >> /\ heading = AtRest

Accept(c) ==
    /\ pending' = Append(pending, c)
    /\ UNCHANGED heading

Deliver ==
    /\ pending # << >>
    /\ heading' = Head(pending)
    /\ pending' = Tail(pending)

ChannelNext == (\E c \in Direction : Accept(c)) \/ Deliver

ChannelSpec == ChannelInit /\ [][ChannelNext]_channelVars
=============================================================================
