------------------------------ MODULE Daytime ------------------------------
(***************************************************************************)
(* The daytime examples over TCP in net/example: sync_tcp_client.cc and    *)
(* the two servers it can be pointed at, async_tcp_server.cc and           *)
(* sync_tcp_server.cc. (Those over UDP are in UdpEcho.)                    *)
(*                                                                         *)
(* The text of a time is DayLength bytes, each of which shows the time:    *)
(* the number of connections accepted so far. A connection that is         *)
(* offered, by connect, waits for the server to accept it.                 *)
(***************************************************************************)
EXTENDS Integers, Sequences

CONSTANTS
  Viewers,      \* the clients
  DayLength,    \* of the text: 25
  DayBuffer,    \* bytes in flight
  MaxFaults     \* bound: connections that break, accepts that fail

ASSUME DaytimeAssumption ==
  DayLength \in Nat /\ DayBuffer \in Nat \ {0} /\ MaxFaults \in Nat

VARIABLES
  daytime,     \* the server that runs: async | sync; ended; none: no daytime
  vpc,         \* where each client is: connect | read | done | failed
  connection,  \* each: none | offered | open | closed by the server | reset
  message_,    \* what the server has still to write to each
  stream,      \* bytes in flight to each
  seen,        \* what each client has printed
  accepted,    \* connections accepted so far
  faults       \* so far

daytimeVars == <<daytime, vpc, connection, message_, stream, seen, accepted, faults>>

DaytimeInit ==
  /\ daytime \in {"none", "async", "sync"}
  /\ vpc = [c \in Viewers |-> IF daytime = "none" THEN "none" ELSE "connect"]
  /\ connection = [c \in Viewers |-> "none"]
  /\ message_ = [c \in Viewers |-> <<>>]
  /\ stream = [c \in Viewers |-> <<>>]
  /\ seen = [c \in Viewers |-> <<>>]
  /\ accepted = 0 /\ faults = 0

make_daytime_string(now) == [b \in 1..DayLength |-> now]

-----------------------------------------------------------------------------
(* The client reads until the end of the file. Any other error is thrown.  *)

Offer(c) ==
  /\ vpc[c] = "connect"
  /\ IF daytime = "ended"
     THEN /\ vpc' = [vpc EXCEPT ![c] = "failed"]
          /\ UNCHANGED connection
     ELSE /\ connection' = [connection EXCEPT ![c] = "offered"]
          /\ vpc' = [vpc EXCEPT ![c] = "read"]
  /\ UNCHANGED <<daytime, message_, stream, seen, accepted, faults>>

View(c) ==
  /\ vpc[c] = "read"
  /\ \E n \in 1..Len(stream[c]) :
       /\ seen' = [seen EXCEPT ![c] = @ \o SubSeq(stream[c], 1, n)]
       /\ stream' = [stream EXCEPT ![c] = SubSeq(@, n + 1, Len(@))]
  /\ UNCHANGED <<daytime, vpc, connection, message_, accepted, faults>>

EndView(c) ==
  /\ vpc[c] = "read" /\ stream[c] = <<>>
  /\ connection[c] \in {"closed", "reset"}
  /\ vpc' = [vpc EXCEPT ![c] = IF connection[c] = "closed" THEN "done" ELSE "failed"]
  /\ UNCHANGED <<daytime, connection, message_, stream, seen, accepted, faults>>

-----------------------------------------------------------------------------
(* The servers.                                                            *)

\* The synchronous one accepts when the connection before has been dealt
\* with.
Writing(c) == connection[c] = "open"
MayAccept == daytime = "async" \/ (daytime = "sync" /\ \A c \in Viewers : ~Writing(c))

\* handle_accept and start
AcceptViewer(c) ==
  /\ MayAccept /\ connection[c] = "offered"
  /\ accepted' = accepted + 1
  /\ message_' = [message_ EXCEPT ![c] = make_daytime_string(accepted')]
  /\ connection' = [connection EXCEPT ![c] = "open"]
  /\ UNCHANGED <<daytime, vpc, stream, seen, faults>>

\* An error is passed over by start_accept; accept throws, and the program
\* ends, and with it the connections that it has not accepted.
AcceptError ==
  /\ MayAccept /\ faults < MaxFaults
  /\ faults' = faults + 1
  /\ IF daytime = "async" THEN UNCHANGED <<daytime, connection>>
     ELSE /\ daytime' = "ended"
          /\ connection' = [c \in Viewers |-> IF connection[c] = "offered" THEN "reset"
                                              ELSE connection[c]]
  /\ UNCHANGED <<vpc, message_, stream, seen, accepted>>

SendSome(c) ==
  /\ Writing(c)
  /\ \E n \in 1..Len(message_[c]) :
       /\ Len(stream[c]) + n <= DayBuffer
       /\ stream' = [stream EXCEPT ![c] = @ \o SubSeq(message_[c], 1, n)]
       /\ message_' = [message_ EXCEPT ![c] = SubSeq(@, n + 1, Len(@))]
  /\ UNCHANGED <<daytime, vpc, connection, seen, accepted, faults>>

\* The last pointer to a tcp_connection is that of its handler, which goes
\* with the end of the write; not the code: the server holds it too.
KeptForever(rest) == FALSE
Released(rest) == rest = <<>>

\* handle_write, and the end of the scope of socket
CloseViewer(c) ==
  /\ Writing(c) /\ Released(message_[c])
  /\ connection' = [connection EXCEPT ![c] = "closed"]
  /\ UNCHANGED <<daytime, vpc, message_, stream, seen, accepted, faults>>

-----------------------------------------------------------------------------
\* The network breaks a connection; the write of a server fails, which it
\* does not look at.
BreakConnection(c) ==
  /\ connection[c] \in {"offered", "open", "closed"} /\ vpc[c] = "read" /\ faults < MaxFaults
  /\ connection' = [connection EXCEPT ![c] = "reset"]
  /\ stream' = [stream EXCEPT ![c] = <<>>] /\ message_' = [message_ EXCEPT ![c] = <<>>]
  /\ faults' = faults + 1
  /\ UNCHANGED <<daytime, vpc, seen, accepted>>

\* Each of these brings the end nearer.
DaytimeProgress(c) ==
  View(c) \/ EndView(c) \/ AcceptViewer(c) \/ SendSome(c) \/ CloseViewer(c)

DaytimeNext ==
  \/ \E c \in Viewers : Offer(c) \/ DaytimeProgress(c) \/ BreakConnection(c)
  \/ AcceptError

\* Programs run and sockets move bytes; nobody need connect.
DaytimeFairness == WF_daytimeVars(\E c \in Viewers : DaytimeProgress(c))

-----------------------------------------------------------------------------

\* The type of every variable.
DaytimeTypeOK ==
  /\ daytime \in {"none", "async", "sync", "ended"}
  /\ vpc \in [Viewers -> {"none", "connect", "read", "done", "failed"}]
  /\ connection \in [Viewers -> {"none", "offered", "open", "closed", "reset"}]
  /\ { message_, stream, seen } \subseteq [Viewers -> Seq(Nat)]
  /\ \A c \in Viewers : Len(stream[c]) <= DayBuffer
  /\ accepted \in Nat /\ faults \in 0..MaxFaults

\* Each client gets the time at which it was accepted and no other, and a
\* client that comes to the end of the file has all of it.
TimesAreWhole ==
  \A c \in Viewers :
    /\ \A i, j \in DOMAIN seen[c] : seen[c][i] = seen[c][j]
    /\ \A d \in Viewers \ {c} : \A i \in DOMAIN seen[c], j \in DOMAIN seen[d] :
         seen[c][i] # seen[d][j]
    /\ vpc[c] = "done" => Len(seen[c]) = DayLength

\* Whoever connects gets to the end, one way or the other.
EveryoneIsServed ==
  \A c \in Viewers : vpc[c] = "read" ~> vpc[c] \in {"done", "failed"}
=============================================================================
