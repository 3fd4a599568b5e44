-------------------------- MODULE MCControlServer --------------------------
(* Instances of ControlServer for TLC: the requests clients send. *)
EXTENDS ControlServer

Req(cmd, arg) == [cmd |-> cmd, arg |-> arg, good |-> TRUE]
BadPacket     == [cmd |-> "ping", arg |-> 0, good |-> FALSE]

\* Every command, frequencies on both sides of the range, an unknown command
\* and a packet without the magic.
AllRequests ==
  {Req(cmd, 0) : cmd \in Commands \ {"set_freq"}}
    \cup {Req("set_freq", hz) : hz \in {-1, 3, 9}}
    \cup {Req("bogus", 0), BadPacket}

\* What the sockets and the threads can tell apart.
FewRequests == {Req("ping", 0), BadPacket}
\* Answerable or not, known or not.
MixedRequests == FewRequests \cup {Req("bogus", 0)}

\* manifest.env with and without the DDS entries.
AnyConfig  == [base : BOOLEAN, clk : BOOLEAN]
Configured == {[base |-> TRUE, clk |-> TRUE]}
=============================================================================
