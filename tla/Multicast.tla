----------------------------- MODULE Multicast -----------------------------
(***************************************************************************)
(* net/example/multicast: sender.cpp and receivers, receiver.cpp, that     *)
(* have joined the group. A message is its number; the network loses,      *)
(* doubles and reorders datagrams.                                         *)
(***************************************************************************)
EXTENDS Integers, Sequences

CONSTANTS
  Receivers,
  max_message_count,  \* 10
  MaxDoubled          \* bound: datagrams that arrive again

ASSUME MulticastAssumption == max_message_count \in Nat \ {0} /\ MaxDoubled \in Nat

VARIABLES
  mpc,             \* the sender: send | wait | stopped; none: no multicast
  message_count_,
  air,             \* the messages on their way to each receiver
  rpc,             \* each receiver: receive | stopped
  heard,           \* what each has printed
  doubled,         \* datagrams that arrived again
  errors           \* of operations so far: at most one of each program

multicastVars == <<mpc, message_count_, air, rpc, heard, doubled, errors>>

MulticastInit ==
  /\ mpc \in {"none", "send"}
  /\ message_count_ = IF mpc = "none" THEN 0 ELSE 1
  /\ air = [r \in Receivers |-> {}]
  /\ rpc = [r \in Receivers |-> IF mpc = "none" THEN "none" ELSE "receive"]
  /\ heard = [r \in Receivers |-> <<>>]
  /\ doubled = 0 /\ errors = 0

\* What message_ holds since do_send.
Message == message_count_ - 1

\* async_send_to sends what message_ holds, and its handler ends it or waits.
Sent ==
  /\ mpc = "send"
  /\ \E reached \in SUBSET Receivers :
       air' = [r \in Receivers |-> IF r \in reached THEN air[r] \cup {Message} ELSE air[r]]
  /\ mpc' = IF message_count_ < max_message_count THEN "wait" ELSE "stopped"
  /\ UNCHANGED <<message_count_, rpc, heard, doubled, errors>>

SendError ==
  /\ mpc = "send"
  /\ mpc' = "stopped" /\ errors' = errors + 1
  /\ UNCHANGED <<message_count_, air, rpc, heard, doubled>>

\* do_timeout and do_send
Timeout ==
  /\ mpc = "wait"
  /\ message_count_' = message_count_ + 1
  /\ mpc' = "send"
  /\ UNCHANGED <<air, rpc, heard, doubled, errors>>

\* do_receive
Receive(r) ==
  /\ rpc[r] = "receive"
  /\ \E n \in air[r] :
       /\ heard' = [heard EXCEPT ![r] = Append(@, n)]
       /\ \/ air' = [air EXCEPT ![r] = @ \ {n}] /\ UNCHANGED doubled
          \/ doubled < MaxDoubled /\ doubled' = doubled + 1 /\ UNCHANGED air
  /\ UNCHANGED <<mpc, message_count_, rpc, errors>>

\* After an error nothing is received any more.
ReceiveError(r) ==
  /\ rpc[r] = "receive"
  /\ rpc' = [rpc EXCEPT ![r] = "stopped"] /\ errors' = errors + 1
  /\ UNCHANGED <<mpc, message_count_, air, heard, doubled>>

MulticastNext ==
  \/ Sent \/ SendError \/ Timeout
  \/ \E r \in Receivers : Receive(r) \/ ReceiveError(r)

\* The timer expires, and what is started comes to an end.
MulticastFairness == WF_multicastVars(Sent \/ Timeout)

-----------------------------------------------------------------------------

\* The type of every variable.
MulticastTypeOK ==
  /\ mpc \in {"none", "send", "wait", "stopped"}
  /\ message_count_ \in 0..max_message_count
  /\ air \in [Receivers -> SUBSET Nat]
  /\ rpc \in [Receivers -> {"none", "receive", "stopped"}]
  /\ heard \in [Receivers -> Seq(Nat)]
  /\ doubled \in 0..MaxDoubled /\ errors \in Nat

\* No receiver prints a message that was not sent, or prints one twice that
\* the network has not doubled: there are max_message_count of them, and fewer
\* after an error only.
MessagesOnce ==
  /\ \A r \in Receivers :
       /\ doubled = 0 =>
            \A i, j \in DOMAIN heard[r] : heard[r][i] = heard[r][j] => i = j
       /\ \A i \in DOMAIN heard[r] : heard[r][i] \in 0..max_message_count - 1
  /\ mpc = "stopped" /\ errors = 0 => message_count_ = max_message_count
=============================================================================
