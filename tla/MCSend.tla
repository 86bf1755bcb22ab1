------------------------------- MODULE MCSend -------------------------------
(* The way of what is said: messages of SessionSend, and the frames that Relay
   carries to browsers on another replica. They share no state, so that one run
   checks them side by side: part says which of them moves.

   Starts of SessionSend: two messages in an idle or running conversation, one with
   a lost connection, one with a switch to the other conversation and back-to-back
   turns, one with an image and one that is the /compact command. Channels, queues
   and goroutines of Relay are numbers, taken in order, so that renaming them gives
   no state twice.                                                            *)
EXTENDS SessionSend, Relay

VARIABLE part

mcVars == <<part, sendVars, vars>>

From(visits, drops, msgs, running) ==
    [conv |-> "A", running |-> running, visits |-> visits, drops |-> drops, msgs |-> msgs]

MCBudgets ==
    {From(0, 0, {"m1", "m2"}, {}), From(0, 0, {"m1", "m2"}, {"A"}), From(0, 1, {"m1"}, {"A"}),
     From(1, 0, {"m1"}, {"A"}), From(1, 0, {"m1"}, {"B"}), From(0, 0, {"image"}, {"A"}),
     From(0, 1, {"compact"}, {})}

In(p) == part = p /\ UNCHANGED part

Some(S) == CHOOSE s \in S : TRUE

MCInit ==
    /\ part \in {"send", "relay"}
    /\ SendInit /\ Init
    /\ part # "send" => view.left = Some(Budgets)
    /\ part # "relay" => far = Some(Placements)

MCNext ==
    \/ In("send") /\ SendNext /\ UNCHANGED vars
    \/ In("relay") /\ Next /\ UNCHANGED sendVars

MCSpec == MCInit /\ [][MCNext]_mcVars
=============================================================================
