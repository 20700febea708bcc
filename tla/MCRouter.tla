------------------------------ MODULE MCRouter ------------------------------
(* The router, its tier judgment, its streams, its video side and its      *)
(* telemetry share no state here: a behaviour is one of one of them.       *)
(* Telemetry comes in three scenes: one reporter whose batches are smaller *)
(* than its queue, one whose queue overflows first, or two in the hub's    *)
(* process whose hub restarts and boots.                                   *)
EXTENDS MCRouterFailover, MCTier, StreamTranslation, VideoRouter, Telemetry

CONSTANTS s1, s2, b1, b2

VARIABLE part

Batches == s1 :> 2 @@ s2 :> 3 @@ b1 :> 1 @@ b2 :> 1
Queues  == s1 :> 3 @@ s2 :> 1 @@ b1 :> 1 @@ b2 :> 1

Earlier == <<[source |-> b1, nr |-> 1, at |-> -1], [source |-> b1, nr |-> 2, at |-> 0]>>

Streams == {"streams"}

Scenes == {{s1}, {s2}, {b1, b2}}

RouterInit ==
  /\ part \in {{}, Videos, Askers, Streams} \cup Scenes
  /\ Init
  /\ TierInit
  /\ StreamInit
  /\ VideoInit
  /\ TelemetryInit
  /\ part # {} => kind = [r \in Requests |-> "chat"]
  /\ part # Streams => upstream = "whole" /\ endpoint = "messages"
  /\ part # Videos => want = [v \in Videos |-> "queue"]

Telemetered ==
  /\ TelemetryNext
  /\ \A s \in Sources \ part : made'[s] = made[s]
  /\ IF part = {b1, b2}
     THEN life' = life /\ made'[b1] <= 3 /\ made'[b2] <= 1
     ELSE boot' = boot /\ restarts' = restarts /\ clk' = clk

RouterNext ==
  /\ UNCHANGED part
  /\ \/ part = {} /\ Next /\ UNCHANGED <<tierVars, streamVars, videoVars, telemetryVars>>
     \/ part = Askers /\ TierNext /\ UNCHANGED <<vars, streamVars, videoVars, telemetryVars>>
     \/ part = Streams /\ StreamNext /\ UNCHANGED <<vars, tierVars, videoVars, telemetryVars>>
     \/ part = Videos /\ VideoNext /\ UNCHANGED <<vars, tierVars, streamVars, telemetryVars>>
     \/ part \in Scenes /\ Telemetered /\ UNCHANGED <<vars, tierVars, streamVars, videoVars>>

RouterSpec ==
  RouterInit /\ [][RouterNext]_<<vars, tierVars, streamVars, videoVars, telemetryVars, part>>
=============================================================================
