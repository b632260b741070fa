------------------------------ MODULE MCSpiBus ------------------------------
(***************************************************************************)
(* The SPI bus with the two threads of the rover that use it.              *)
(***************************************************************************)
EXTENDS SpiBus

CONSTANTS threadFxn0, threadFxn2

MCThreads == {threadFxn0, threadFxn2}
=============================================================================
