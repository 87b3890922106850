------------------------------ MODULE UdpEcho ------------------------------
(***************************************************************************)
(* net/example/echo: sync_udp_echo_client.cc, and the two servers it can   *)
(* be pointed at, async_udp_echo_server.cc, which sends back what it gets, *)
(* and sync_udp_echo_server.cc, which sends one text to everybody; and     *)
(* net/example/daytime, where the client sends one datagram and the server *)
(* of sync_udp_daytime_server.cc replies with the time. The network loses, *)
(* doubles and reorders datagrams; none of them is empty.                  *)
(***************************************************************************)
EXTENDS Integers, Sequences, Bags

CONSTANTS
  UdpClients, UdpServer,
  MaxRequests,           \* bound: lines typed at each client
  MaxLosses, MaxCopies   \* bounds: datagrams lost and doubled

ASSUME UdpAssumption ==
  /\ UdpServer \notin UdpClients
  /\ MaxRequests \in Nat /\ MaxLosses \in Nat /\ MaxCopies \in Nat

VARIABLES
  kind,              \* the server that runs: async | sync | daytime; none: no UDP
  ucpc,              \* where each client is
  requests,          \* how many each has sent
  replies,           \* what each has received
  net,               \* the datagrams on their way
  upc,               \* where the server is
  message,           \* what it received: data_ or recv_buf
  sender_endpoint_,  \* and from whom
  losses, copies     \* so far

udpClientVars == <<ucpc, requests, replies>>
udpServerVars == <<upc, message, sender_endpoint_>>
udpVars == <<kind, udpClientVars, net, udpServerVars, losses, copies>>

Text(c, n) == [from |-> c, number |-> n]
Acknowledgement == Text(UdpServer, 0)   \* "I receive a message", or the time

UdpInit ==
  /\ kind \in {"none", "async", "sync", "daytime"}
  /\ ucpc = [c \in UdpClients |-> IF kind = "none" THEN "none" ELSE "input"]
  /\ requests = [c \in UdpClients |-> 0]
  /\ replies = [c \in UdpClients |-> <<>>]
  /\ net = EmptyBag
  /\ upc = "receive"
  /\ message = Acknowledgement /\ sender_endpoint_ = UdpServer
  /\ losses = 0 /\ copies = 0

Datagram(to, from, text) == SetToBag({[to |-> to, from |-> from, text |-> text]})

InFlight(to) == { d \in BagToSet(net) : d.to = to }

-----------------------------------------------------------------------------
(* The client asks, and waits for whatever comes, from whomever, without a *)
(* limit of time.                                                          *)

Ask(c) ==
  /\ ucpc[c] = "input"
  /\ requests[c] < MaxRequests
  /\ requests' = [requests EXCEPT ![c] = @ + 1]
  /\ net' = net (+) Datagram(UdpServer, c, Text(c, requests'[c]))
  /\ ucpc' = [ucpc EXCEPT ![c] = "wait"]
  /\ UNCHANGED <<kind, replies, udpServerVars, losses, copies>>

GetReply(c) ==
  /\ ucpc[c] = "wait"
  /\ \E d \in InFlight(c) :
       /\ net' = net (-) SetToBag({d})
       /\ replies' = [replies EXCEPT ![c] = Append(@, d.text)]
  /\ ucpc' = [ucpc EXCEPT ![c] = IF kind = "daytime" THEN "done" ELSE "input"]
  /\ UNCHANGED <<kind, requests, udpServerVars, losses, copies>>

-----------------------------------------------------------------------------
(* The servers have one buffer and one endpoint, and receive again when    *)
(* the reply is sent.                                                      *)

\* do_receive, receive_from
ReceiveRequest ==
  /\ upc = "receive"
  /\ \E d \in InFlight(UdpServer) :
       /\ net' = net (-) SetToBag({d})
       /\ message' = d.text
       /\ sender_endpoint_' = d.from
  /\ upc' = "send"
  /\ UNCHANGED <<kind, udpClientVars, losses, copies>>

\* do_send, send_to
SendReply ==
  /\ upc = "send"
  /\ net' = net (+) Datagram(sender_endpoint_, UdpServer,
                      IF kind = "async" THEN message ELSE Acknowledgement)
  /\ upc' = "receive"
  /\ UNCHANGED <<kind, udpClientVars, message, sender_endpoint_, losses, copies>>

\* The asynchronous server and that of daytime do not look at the error and
\* receive again; in the synchronous echo server an exception ends the loop.
SendFails ==
  /\ upc = "send"
  /\ losses < MaxLosses
  /\ losses' = losses + 1
  /\ upc' = IF kind = "sync" THEN "stopped" ELSE "receive"
  /\ UNCHANGED <<kind, udpClientVars, net, message, sender_endpoint_, copies>>

-----------------------------------------------------------------------------
(* The network.                                                            *)

Lose ==
  /\ losses < MaxLosses
  /\ \E d \in BagToSet(net) : net' = net (-) SetToBag({d})
  /\ losses' = losses + 1
  /\ UNCHANGED <<kind, udpClientVars, udpServerVars, copies>>

Copy ==
  /\ copies < MaxCopies
  /\ \E d \in BagToSet(net) : net' = net (+) SetToBag({d})
  /\ copies' = copies + 1
  /\ UNCHANGED <<kind, udpClientVars, udpServerVars, losses>>

UdpServerStep == ReceiveRequest \/ SendReply

UdpNext ==
  \/ \E c \in UdpClients : Ask(c) \/ GetReply(c)
  \/ UdpServerStep \/ SendFails
  \/ Lose \/ Copy

\* What is not lost arrives, and the programs run.
UdpFairness ==
  /\ \A c \in UdpClients : WF_udpVars(GetReply(c))
  /\ WF_udpVars(ReceiveRequest) /\ WF_udpVars(SendReply)

-----------------------------------------------------------------------------

Texts == [from : UdpClients \cup {UdpServer}, number : Nat]
Datagrams == [to : UdpClients \cup {UdpServer}, from : UdpClients \cup {UdpServer},
              text : Texts]

\* The type of every variable.
UdpTypeOK ==
  /\ kind \in {"none", "async", "sync", "daytime"}
  /\ ucpc \in [UdpClients -> {"none", "input", "wait", "done"}]
  /\ requests \in [UdpClients -> 0..MaxRequests]
  /\ replies \in [UdpClients -> Seq(Texts)]
  /\ IsABag(net) /\ BagToSet(net) \subseteq Datagrams
  /\ upc \in {"receive", "send", "stopped"}
  /\ sender_endpoint_ \in UdpClients \cup {UdpServer}
  /\ message \in Texts
  /\ losses \in 0..MaxLosses /\ copies \in 0..MaxCopies
=============================================================================
