----------------------------- MODULE MCTransport -----------------------------
(* Instances of the four modules of the browser's transport. They share no state,
   so that one run checks them side by side: part says which of them moves. The pool
   has two: a page and two calls on one target, and a page of two targets.       *)
EXTENDS RelayLink, SessionStream, ClientPool, AccountChannel

CONSTANT SpareTarget     \* one of the two instances of the pool has no use for it

VARIABLE part

mcVars == <<part, linkVars, streamVars, poolVars, chanVars>>
MCKindsOf == [v \in Viewers |-> IF v = "v1" THEN {"k1"} ELSE {"k1", "k2"}]

In(p) == part = p /\ UNCHANGED part

MCInit ==
    /\ part \in {"link", "stream", "calls", "targets", "channel"}
    /\ LinkInit /\ StreamInit /\ PoolInit /\ ChannelInit
    /\ part # "stream" => base = 0
    /\ part # "channel" => visible

MCNext ==
    \/ In("link") /\ LinkNext /\ UNCHANGED <<streamVars, poolVars, chanVars>>
    \/ In("stream") /\ StreamNext /\ UNCHANGED <<linkVars, poolVars, chanVars>>
    \/ /\ In("calls") /\ PoolNext /\ UNCHANGED <<linkVars, streamVars, chanVars>>
       /\ \A u \in Users : user'[u].at # "idle" => user'[u].target # SpareTarget
    \/ /\ In("targets") /\ PoolNext /\ UNCHANGED <<linkVars, streamVars, chanVars>>
       /\ \A u \in Calls : user'[u] = user[u]
    \/ In("channel") /\ ChannelNext /\ UNCHANGED <<linkVars, streamVars, poolVars>>

\* The fairness of the modules, for the part that moves.
MCFair ==
    /\ \A i \in Sockets : WF_linkVars(In("link") /\ (SocketOpens(i) \/ SocketFails(i)))
    /\ \A d \in Dialers : /\ WF_linkVars(In("link") /\ RedialFires(d))
                          /\ WF_linkVars(In("link") /\ TicketArrives(d))
    /\ \A ch \in Channels :
        /\ WF_linkVars(In("link") /\ HandshakeRetryFires(ch))
        /\ WF_linkVars(In("link") /\ ReopenFires(ch))
        /\ \A h \in Handshakes : /\ WF_linkVars(In("link") /\ CredentialArrives(ch, h))
                                 /\ WF_linkVars(In("link") /\ Authenticated(ch, h))
    /\ WF_streamVars(In("stream") /\ (ReceiveLive \/ ReceiveAttach \/ ReceivePage))
    /\ WF_streamVars(In("stream") /\ \E b \in BOOLEAN : AnswerAttach(b))
    /\ WF_streamVars(In("stream") /\ \E f \in {0, oldest} : AnswerPull(f))
    /\ WF_streamVars(In("stream") /\ Reconnected)
    /\ WF_chanVars(In("channel") /\ \E leaving \in SUBSET Viewers : WindowFires(leaving))
    /\ WF_chanVars(In("channel") /\ \E leaving \in SUBSET Viewers : PollFires(leaving))
    /\ \A k \in Kinds :
        WF_chanVars(In("channel") /\ \E leaving \in SUBSET Viewers : SignalArrives(k, leaving))

MCSpec == MCInit /\ [][MCNext]_mcVars /\ MCFair

(* After the last fault the socket, the handshake, the frames behind a gap
   and the account's stale data all come back. *)
TransportRecovers ==
    /\ SocketReturns
    /\ HandshakeRetried
    /\ GapHealed
    /\ StaleIsPulled
=============================================================================
