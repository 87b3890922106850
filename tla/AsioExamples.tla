--------------------------- MODULE AsioExamples ---------------------------
(***************************************************************************)
(* The examples of net/example: echo over TCP or over UDP, daytime,        *)
(* multicast, and timers and functions on an io_context. One of them is    *)
(* run at a time.                                                          *)
(***************************************************************************)
EXTENDS TcpEcho, UdpEcho, Daytime, Multicast, IoContext

vars == <<tcpVars, udpVars, daytimeVars, multicastVars, ioVars>>

TcpRuns == \A c \in TcpClients : cpc[c] # "none"

Init ==
  /\ TcpInit /\ UdpInit /\ DaytimeInit /\ MulticastInit /\ IoInit
  /\ Quantify({1, 2, 3, 4, 5},
              LAMBDA n : <<TcpRuns, kind # "none", daytime # "none", mpc # "none",
                           program # "none">>[n]) = 1

Next ==
  \/ TcpNext /\ UNCHANGED <<udpVars, daytimeVars, multicastVars, ioVars>>
  \/ UdpNext /\ UNCHANGED <<tcpVars, daytimeVars, multicastVars, ioVars>>
  \/ DaytimeNext /\ UNCHANGED <<tcpVars, udpVars, multicastVars, ioVars>>
  \/ MulticastNext /\ UNCHANGED <<tcpVars, udpVars, daytimeVars, ioVars>>
  \/ IoNext /\ UNCHANGED <<tcpVars, udpVars, daytimeVars, multicastVars>>

Spec == Init /\ [][Next]_vars

FairSpec ==
  /\ Spec
  /\ TcpFairness /\ UdpFairness /\ DaytimeFairness /\ MulticastFairness /\ IoFairness

-----------------------------------------------------------------------------
(* Properties. NoCountLost is in IoContext.                                *)

\* The type of every variable.
TypeOK ==
  TcpTypeOK /\ UdpTypeOK /\ DaytimeTypeOK /\ MulticastTypeOK /\ IoTypeOK

\* On the way through two sockets and the session no byte is lost, doubled,
\* overtaken or mixed with those of another client; when the connection
\* breaks, the client has a beginning of what it sent.
BytesInOrder ==
  \A c \in TcpClients :
    LET all == [b \in 1..sent[c] |-> b]
    IN  /\ IsPrefix(got[c], all)
        /\ ~Broken(c) => got[c] \o down[c] \o data_[c] \o up[c] \o to_send[c] = all

\* A client over UDP gets replies to its own requests only, none early, and
\* as long as no datagram was doubled the k-th reply answers the k-th request:
\* the client takes whatever comes, but it has one request at a time, and the
\* server does not receive before it has replied.
AnswersInTurn ==
  \A c \in UdpClients : \A k \in DOMAIN replies[c] :
    IF kind # "async" THEN replies[c][k] = Acknowledgement
    ELSE /\ replies[c][k].from = c
         /\ replies[c][k].number <= k
         /\ copies = 0 => replies[c][k].number = k

\* What comes back is what was sent, and what comes from a server of daytime
\* or from the sender of a group is what it has to say.
RepliesMatchRequests ==
  TypeOK /\ BytesInOrder /\ AnswersInTurn /\ TimesAreWhole /\ MessagesOnce

\* Whatever of a client's bytes is outstanding comes back, unless the
\* connection breaks, if it is no more than certainly fits into the sockets and
\* the session: a client that writes more may wait for the session, which
\* waits for the client to read. And a datagram is answered unless one is lost.
EchoCompletes ==
  /\ \A c \in TcpClients :
       /\ cpc[c] \in {"write", "read"}
       /\ Outstanding(c) \in 1..2 * SocketBuffer + 1
       ~> cpc[c] \in {"input", "done"} \/ Broken(c)
  /\ \A c \in UdpClients :
       ucpc[c] = "wait" ~> ucpc[c] \in {"input", "done"} \/ losses > 0

\* And the others come to an end: whoever asks for the time over TCP gets it
\* or an error, the sender stops, and the threads of an io_context return.
ExamplesComplete ==
  /\ EchoCompletes
  /\ EveryoneIsServed
  /\ mpc = "send" ~> mpc = "stopped"
  /\ program # "none" ~> AllReturned
=============================================================================
