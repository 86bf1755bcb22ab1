------------------------------- MODULE MCRelay -------------------------------
(* Instances of Relay for TLC: channels, queues and goroutines are numbers, *)
(* taken in order, so that renaming them gives no state twice.              *)
EXTENDS Relay
=============================================================================
