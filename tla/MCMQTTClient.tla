----------------------------- MODULE MCMQTTClient -----------------------------
(***************************************************************************)
(* MQTTClient for TLC: three reports and two losses of the link let a      *)
(* report be queued across a loss and one be missed between two others.    *)
(***************************************************************************)
EXTENDS MQTTClient
===============================================================================
