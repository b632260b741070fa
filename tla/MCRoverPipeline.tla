-------------------------- MODULE MCRoverPipeline --------------------------
(***************************************************************************)
(* The pipeline with a bound on the interrupts of the timers, so that      *)
(* queues of more than one word can be explored in full.                   *)
(***************************************************************************)
EXTENDS RoverPipeline

CONSTANT MaxExpired     \* how often the two timers expire, together

VARIABLE expired

MCInit == Init /\ expired = 0

Expire ==
    /\ expired < MaxExpired
    /\ expired' = expired + 1
    /\ SpiTimer \/ StatsTimer

Others ==
    /\ UNCHANGED expired
    /\ \/ \E body \in Bodies : Receive(body)
       \/ Rx \/ T0 \/ T1 \/ T2 \/ Mc
       \/ SpiDone

MCNext == Expire \/ Others

MCSpec == MCInit /\ [][MCNext]_<<vars, expired>>

MCFairSpec == MCSpec /\ Fairness
=============================================================================
