---------------------------- MODULE MCCloudLink ----------------------------
(***************************************************************************)
(* The start-up is explored in full.  What fills queue 6 does not look at  *)
(* how the WLAN was reached, so it is explored after the smoothest start-  *)
(* ups only: the first access point within the first second, or a driver   *)
(* that cannot be configured.  After the others, MqttClient starts, loses  *)
(* its session and ends with nobody else using the queue.                  *)
(***************************************************************************)
EXTENDS CloudLink

Smooth ==
    /\ events = << >> /\ losses = 0 /\ ~late /\ g_usConnectIndex = 0
    /\ \/ netpc = "done" /\ attempt = 1
       \/ netpc = "failed" /\ attempt = 0

OnlyTheGreeting ==
    /\ UNCHANGED <<stream, received>>
    /\ Len(queue6') > Len(queue6) => rxpc' # rxpc

MCNext == CloudNext /\ (Smooth \/ OnlyTheGreeting)

MCSpec == CloudInit /\ [][MCNext]_cloudVars /\ NetFairness
=============================================================================
