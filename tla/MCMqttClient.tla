---------------------------- MODULE MCMqttClient ----------------------------
(* Instances of MqttClient for TLC: two calls to one kit, one or two server *)
(* RPC requests.                                                           *)
EXTENDS MqttClient, TLC

CONSTANTS c1, c2, k1, q1

TwoCalls == c1 :> k1 @@ c2 :> k1
OneCall == c1 :> k1
=============================================================================
