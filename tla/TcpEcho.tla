------------------------------ MODULE TcpEcho ------------------------------
(***************************************************************************)
(* net/example/echo: async_tcp_echo_server.cc with its sessions, and the   *)
(* clients async_tcp_echo_client.cc and blocking_tcp_echo_client.cc. The   *)
(* server runs its handlers on one thread; a step of it is one completion. *)
(*                                                                         *)
(* The bytes a client sends are numbered from 1 on. A connection is two    *)
(* queues of at most SocketBuffer bytes, of which a read or a write takes  *)
(* as many as it likes. The connection that the constructor of the         *)
(* asynchronous client makes before async_connect replaces it is left out: *)
(* its session reads an end of file and is gone.                           *)
(***************************************************************************)
EXTENDS Integers, Sequences, SequencesExt, FiniteSetsExt

CONSTANTS
  AsyncClients, BlockingClients,
  MessageLengths,   \* of the lines that a user types
  MaxLength,        \* max_length, the size of data_ and of recv_buffer_: 1024
  SocketBuffer,     \* bytes in flight in one direction
  MaxLines,         \* bound: lines typed at each client
  MaxResets         \* bound: connections that break

TcpClients == AsyncClients \cup BlockingClients

ASSUME TcpAssumption ==
  /\ AsyncClients \cap BlockingClients = {}
  /\ MessageLengths \subseteq Nat
  /\ MaxLength \in Nat \ {0} /\ SocketBuffer \in Nat \ {0}
  /\ MaxLines \in Nat /\ MaxResets \in Nat

VARIABLES
  cpc,       \* where each client is; none: TCP is not used
  to_send,   \* what async_write or write has not handed over yet
  sent,      \* bytes of all lines so far
  got,       \* what each client has read
  lines,     \* lines typed
  link,      \* each connection: none | open | reset | closed by the client
  up, down,  \* bytes in flight to the server and back
  spc,       \* each session: none | read | write | gone
  data_,     \* what the session has still to write back
  server     \* running | stopped

clientVars == <<cpc, to_send, sent, got, lines>>
sessionVars == <<spc, data_, server>>
tcpVars == <<clientVars, link, up, down, sessionVars>>

TcpInit ==
  /\ \E at \in {"none", "connect"} : cpc = [c \in TcpClients |-> at]
  /\ to_send = [c \in TcpClients |-> <<>>]
  /\ sent = [c \in TcpClients |-> 0]
  /\ got = [c \in TcpClients |-> <<>>]
  /\ lines = [c \in TcpClients |-> 0]
  /\ link = [c \in TcpClients |-> "none"]
  /\ up = [c \in TcpClients |-> <<>>] /\ down = [c \in TcpClients |-> <<>>]
  /\ spc = [c \in TcpClients |-> "none"]
  /\ data_ = [c \in TcpClients |-> <<>>]
  /\ server = "running"

Broken(c) == link[c] = "reset"

\* How many of n bytes may be written to a queue of the socket.
Writable(n, queue) == 1..Min({n, SocketBuffer - Len(queue)})

\* How many bytes a read of at most n may get from it.
Readable(n, queue) == 1..Min({n, Len(queue)})

Taken(n, bytes) == SubSeq(bytes, 1, n)
Left(n, bytes) == SubSeq(bytes, n + 1, Len(bytes))

-----------------------------------------------------------------------------
(* The clients.                                                            *)

\* The asynchronous client does not look at the result of async_connect, but
\* the connect before that throws as the one of the blocking client does.
Connect(c) ==
  /\ cpc[c] = "connect"
  /\ \/ /\ server = "running"
        /\ link' = [link EXCEPT ![c] = "open"]
        /\ cpc' = [cpc EXCEPT ![c] = "input"]
     \/ /\ cpc' = [cpc EXCEPT ![c] = "closed"]
        /\ UNCHANGED link
  /\ UNCHANGED <<to_send, sent, got, lines, up, down, sessionVars>>

\* The blocking client takes max_length - 1 characters of a line.
RequestLength(c, n) ==
  IF c \in BlockingClients THEN Min({n, MaxLength - 1}) ELSE n

Input(c) ==
  /\ cpc[c] = "input"
  /\ lines[c] < MaxLines
  /\ \E n \in { RequestLength(c, m) : m \in MessageLengths } :
       /\ to_send' = [to_send EXCEPT ![c] = [b \in 1..n |-> sent[c] + b]]
       /\ sent' = [sent EXCEPT ![c] = @ + n]
  /\ lines' = [lines EXCEPT ![c] = @ + 1]
  /\ cpc' = [cpc EXCEPT ![c] = "write"]
  /\ UNCHANGED <<got, link, up, down, sessionVars>>

\* The write is over when the socket has taken every byte; an empty line is
\* over at once.
Write(c) ==
  /\ cpc[c] = "write" /\ ~Broken(c)
  /\ \/ /\ to_send[c] = <<>>
        /\ cpc' = [cpc EXCEPT ![c] = "read"]
        /\ UNCHANGED <<to_send, up>>
     \/ \E n \in Writable(Len(to_send[c]), up[c]) :
          /\ up' = [up EXCEPT ![c] = @ \o Taken(n, to_send[c])]
          /\ to_send' = [to_send EXCEPT ![c] = Left(n, @)]
          /\ cpc' = IF to_send'[c] = <<>> THEN [cpc EXCEPT ![c] = "read"] ELSE cpc
  /\ UNCHANGED <<sent, got, lines, link, down, sessionVars>>

\* One read of whatever is there, and then the next line.
AsyncRead(c) ==
  /\ c \in AsyncClients
  /\ cpc[c] = "read" /\ ~Broken(c)
  /\ \E n \in Readable(MaxLength, down[c]) :
       /\ got' = [got EXCEPT ![c] = @ \o Taken(n, down[c])]
       /\ down' = [down EXCEPT ![c] = Left(n, @)]
  /\ cpc' = [cpc EXCEPT ![c] = "input"]
  /\ UNCHANGED <<to_send, sent, lines, link, up, sessionVars>>

Outstanding(c) == sent[c] - Len(got[c])

\* Reads until the reply is as long as the request.
BlockingRead(c) ==
  /\ c \in BlockingClients
  /\ cpc[c] = "read" /\ ~Broken(c)
  /\ Outstanding(c) > 0
  /\ \E n \in Readable(Outstanding(c), down[c]) :
       /\ got' = [got EXCEPT ![c] = @ \o Taken(n, down[c])]
       /\ down' = [down EXCEPT ![c] = Left(n, @)]
  /\ UNCHANGED <<cpc, to_send, sent, lines, link, up, sessionVars>>

Leave(c) ==
  /\ c \in BlockingClients
  /\ cpc[c] = "read"
  /\ Outstanding(c) = 0
  /\ cpc' = [cpc EXCEPT ![c] = "done"]
  /\ link' = [link EXCEPT ![c] = "closed"]
  /\ UNCHANGED <<to_send, sent, got, lines, up, down, sessionVars>>

\* A read or a write fails: the socket is closed.
ClientFails(c) ==
  /\ cpc[c] \in {"write", "read"} /\ Broken(c)
  /\ cpc' = [cpc EXCEPT ![c] = "closed"]
  /\ UNCHANGED <<to_send, sent, got, lines, link, up, down, sessionVars>>

-----------------------------------------------------------------------------
(* The server.                                                             *)

Accept(c) ==
  /\ server = "running"
  /\ link[c] = "open"
  /\ spc[c] = "none"
  /\ spc' = [spc EXCEPT ![c] = "read"]
  /\ UNCHANGED <<clientVars, link, up, down, data_, server>>

\* remote_endpoint() throws for a connection that broke before it was
\* accepted; nothing catches it before main(), and the server ends with all
\* its sessions.
AcceptThrows(c) ==
  /\ server = "running"
  /\ Broken(c)
  /\ spc[c] = "none"
  /\ server' = "stopped"
  /\ spc' = [d \in TcpClients |-> "gone"]
  /\ link' = [d \in TcpClients |-> IF link[d] = "open" THEN "reset" ELSE link[d]]
  /\ UNCHANGED <<clientVars, up, down, data_>>

\* Where the system reports a broken connection to async_accept, the session
\* is not made, and the server accepts again.
AcceptFails(c) ==
  /\ server = "running"
  /\ Broken(c)
  /\ spc[c] = "none"
  /\ spc' = [spc EXCEPT ![c] = "gone"]
  /\ UNCHANGED <<clientVars, link, up, down, data_, server>>

\* What do_read asks for; not the code: one byte more than data_ holds.
OneTooMany == MaxLength + 1
ReadLimit == MaxLength

\* do_read
SessionRead(c) ==
  /\ spc[c] = "read"
  /\ link[c] # "reset"
  /\ \E n \in Readable(ReadLimit, up[c]) :
       /\ data_' = [data_ EXCEPT ![c] = Taken(n, up[c])]
       /\ up' = [up EXCEPT ![c] = Left(n, @)]
  /\ spc' = [spc EXCEPT ![c] = "write"]
  /\ UNCHANGED <<clientVars, link, down, server>>

\* async_write comes back when every byte is written, and the session reads
\* on; not the code: a write that comes back after some, a session that
\* does not read again.
AfterWriteSome(rest) == "read"
AfterLastWrite(rest) == IF rest = <<>> THEN "gone" ELSE "write"
AfterWrite(rest) == IF rest = <<>> THEN "read" ELSE "write"

\* do_write
SessionWrite(c) ==
  /\ spc[c] = "write"
  /\ link[c] = "open"
  /\ \E n \in Writable(Len(data_[c]), down[c]) :
       /\ down' = [down EXCEPT ![c] = @ \o Taken(n, data_[c])]
       /\ data_' = [data_ EXCEPT ![c] = Left(n, @)]
  /\ spc' = [spc EXCEPT ![c] = AfterWrite(data_'[c])]
  /\ UNCHANGED <<clientVars, link, up, server>>

\* A read or a write fails or comes to the end of the file: no handler is
\* left to hold the session.
SessionEnds(c) ==
  /\ \/ spc[c] = "read" /\ link[c] = "closed" /\ up[c] = <<>>
     \/ spc[c] = "write" /\ link[c] = "closed"
     \/ spc[c] \in {"read", "write"} /\ link[c] = "reset"
  /\ spc' = [spc EXCEPT ![c] = "gone"]
  /\ UNCHANGED <<clientVars, link, up, down, data_, server>>

-----------------------------------------------------------------------------

\* The network breaks a connection, and what is in flight is lost.
Reset(c) ==
  /\ link[c] = "open"
  /\ Quantify(TcpClients, LAMBDA d : link[d] = "reset") < MaxResets
  /\ link' = [link EXCEPT ![c] = "reset"]
  /\ up' = [up EXCEPT ![c] = <<>>] /\ down' = [down EXCEPT ![c] = <<>>]
  /\ UNCHANGED <<clientVars, sessionVars>>

ClientStep(c) ==
  Write(c) \/ AsyncRead(c) \/ BlockingRead(c) \/ Leave(c) \/ ClientFails(c)

SessionStep(c) == Accept(c) \/ SessionRead(c) \/ SessionWrite(c) \/ SessionEnds(c)

TcpNext ==
  \E c \in TcpClients :
    \/ Connect(c) \/ Input(c) \/ ClientStep(c)
    \/ SessionStep(c) \/ AcceptThrows(c) \/ AcceptFails(c)
    \/ Reset(c)

\* Programs run and sockets move bytes; nobody need connect or type.
TcpFairness ==
  \A c \in TcpClients :
    WF_tcpVars(ClientStep(c)) /\ WF_tcpVars(SessionStep(c))

-----------------------------------------------------------------------------

\* The type of every variable.
TcpTypeOK ==
  /\ cpc \in [TcpClients -> {"none", "connect", "input", "write", "read",
                             "done", "closed"}]
  /\ sent \in [TcpClients -> Nat]
  /\ lines \in [TcpClients -> 0..MaxLines]
  /\ link \in [TcpClients -> {"none", "open", "reset", "closed"}]
  /\ spc \in [TcpClients -> {"none", "read", "write", "gone"}]
  /\ server \in {"running", "stopped"}
  /\ { to_send, got, up, down, data_ } \subseteq [TcpClients -> Seq(Nat)]
  /\ \A c \in TcpClients :
       /\ Len(up[c]) <= SocketBuffer /\ Len(down[c]) <= SocketBuffer
       /\ Len(data_[c]) <= MaxLength
=============================================================================
