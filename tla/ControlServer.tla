--------------------------- MODULE ControlServer ---------------------------
(***************************************************************************)
(* The TCP control server (project/src/control_server.cpp): start() and    *)
(* stop() on the main thread, accept_loop() and handle_client() on the     *)
(* server's thread, and what the clients and the kernel's sockets do to    *)
(* them.  The forge it drives is reduced to the two registers the protocol *)
(* reaches: the enable bit and the frequency word.                         *)
(*                                                                         *)
(* A packet travels in Parts pieces, so that recv() may return a part of   *)
(* it.  Frequencies count half steps of the frequency word.                *)
(***************************************************************************)
EXTENDS Integers, Sequences, FiniteSets

CONSTANTS Client,
          Requests,    \* the requests clients send: [cmd, arg, good]
          MaxReq,      \* bound: requests a client begins
          Parts,       \* pieces a packet may arrive in
          FtwMod,      \* the frequency word wraps here (2^24 in the PL)
          Configs,     \* [base, clk]: is DDS_CTRL_GPIO_BASE configured, and are
                       \* DDS_CLK_HZ and the frequency register
          HwFails,     \* a register access may fail
          Interactive, \* stdin is a terminal: the menu runs and can be left
          Nobody       \* no client

Commands == {"ping", "set_freq", "get_freq", "enable", "disable", "get_enabled"}

ASSUME RequestsAssumption ==
  \A r \in Requests : /\ DOMAIN r = {"cmd", "arg", "good"}
                      /\ r.arg \in Int /\ r.good \in BOOLEAN
ASSUME BoundsAssumption ==
  /\ MaxReq \in Nat /\ Parts \in Nat \ {0} /\ FtwMod \in Nat \ {0}
  /\ {HwFails, Interactive} \subseteq BOOLEAN
  /\ Configs \subseteq [base : BOOLEAN, clk : BOOLEAN]
  /\ Nobody \notin Client

VARIABLES
  mpc,      \* the main thread: start, spawn, menu, stop, shut, close, join, gone
  alive,    \* the process has not been ended by a signal
  running,  \* m_running
  mfd,      \* m_listen_fd is not -1
  sock,     \* the listening socket: "none", "listening", "shut"
  fdOpen,   \* its descriptor is open
  backlog,  \* connections the kernel has completed and nobody accepted
  spc,      \* the server's thread
  conn,     \* client_fd: the client being served
  have,     \* pieces of the current packet in `raw'
  resp,     \* the response being sent
  peer,     \* peer[c]: "new", "up", "fin" (closed), "rst" (reset), "pipe" (closed,
            \* and reset by an answer), "over"
  reqs,     \* reqs[c]: the requests c has begun to send
  sent,     \* sent[c]: pieces c has sent
  got,      \* got[c]: pieces recv() has returned
  resps,    \* resps[c]: responses that reached c
  en, ftw,  \* the enable bit and the frequency word
  conf,     \* the configuration the process was started with
  acked     \* history: what the last answers promise of en and ftw

mainVars   == <<mpc, running, mfd, sock, fdOpen>>
clientVars == <<peer, reqs, sent, backlog>>
forgeVars  == <<en, ftw, acked, conf>>
servVars   == <<spc, conn, have, resp, got, resps>>
vars == <<mainVars, alive, clientVars, servVars, forgeVars>>

Codes    == {"ack", "nack", "nack_unknown_command"}
NoResp   == [id |-> 0, code |-> "ack", arg |-> 0, cause |-> "none"]
Response == [id : 0..MaxReq, code : Codes, arg : Int,
             cause : {"none", "hw", "config", "arg", "cmd"}]

\* Every state variable has its type: a packet never has more pieces than it should.
TypeOK ==
  /\ mpc \in {"start", "spawn", "menu", "stop", "shut", "close", "join", "gone"}
  /\ {alive, running, mfd, fdOpen, en} \subseteq BOOLEAN
  /\ sock \in {"none", "listening", "shut"}
  /\ backlog \in Seq(Client)
  /\ spc \in {"none", "loop", "accept", "blocked", "serve", "recv", "handle",
              "send", "close", "ended"}
  /\ conn \in Client \cup {Nobody}
  /\ have \in 0..Parts
  /\ resp \in Response
  /\ peer \in [Client -> {"new", "up", "fin", "rst", "pipe", "over"}]
  /\ reqs \in [Client -> Seq(Requests)]
  /\ got \in [Client -> Nat] /\ sent \in [Client -> 0..(Parts * MaxReq)]
  /\ \A c \in Client : got[c] <= sent[c]
  /\ resps \in [Client -> Seq(Response)]
  /\ ftw \in 0..(FtwMod - 1) /\ conf \in Configs
  /\ acked \in [en : {"on", "off", "any"}, freq : Int]

Init ==
  /\ mpc = "start" /\ alive = TRUE
  /\ running = FALSE /\ mfd = FALSE /\ sock = "none" /\ fdOpen = FALSE
  /\ backlog = <<>> /\ spc = "none" /\ conn = Nobody /\ have = 0 /\ resp = NoResp
  /\ peer = [c \in Client |-> "new"]
  /\ reqs = [c \in Client |-> <<>>] /\ resps = [c \in Client |-> <<>>]
  /\ sent = [c \in Client |-> 0] /\ got = [c \in Client |-> 0]
  /\ en = FALSE /\ ftw = 0 /\ conf \in Configs
  /\ acked = [en |-> "any", freq |-> -1]

-----------------------------------------------------------------------------
(* The main thread. *)

\* start(): socket(), bind() and listen().  A failure closes the descriptor,
\* and main() carries on without network control.
Start ==
  /\ mpc = "start"
  /\ \/ /\ mpc' = "spawn" /\ mfd' = TRUE /\ sock' = "listening" /\ fdOpen' = TRUE
     \/ /\ mpc' = "menu" /\ UNCHANGED <<mfd, sock, fdOpen>>
  /\ UNCHANGED <<running, alive, clientVars, servVars, forgeVars>>

Spawn ==
  /\ mpc = "spawn"
  /\ mpc' = "menu" /\ running' = TRUE /\ spc' = "loop"
  /\ UNCHANGED <<mfd, sock, fdOpen, alive, clientVars, conn, have, resp, got,
                 resps, forgeVars>>

\* The user leaves the menu; without a terminal main() pauses for ever.
Exit ==
  /\ mpc = "menu" /\ Interactive
  /\ mpc' = "stop"
  /\ UNCHANGED <<running, mfd, sock, fdOpen, alive, clientVars, servVars, forgeVars>>

\* stop(): a server that never started has nothing to stop.
StopFlag ==
  /\ mpc = "stop"
  /\ running' = FALSE
  /\ mpc' = IF running THEN "shut" ELSE "gone"
  /\ UNCHANGED <<mfd, sock, fdOpen, alive, clientVars, servVars, forgeVars>>

\* Mutant: no shutdown() before the close().
Shut_none ==
  /\ mpc = "shut"
  /\ mpc' = "close"
  /\ UNCHANGED <<running, mfd, sock, fdOpen, alive, clientVars, servVars, forgeVars>>

\* shutdown() wakes a thread inside accept() and resets the backlog.
Shut ==
  /\ mpc = "shut"
  /\ mpc' = "close" /\ sock' = "shut" /\ backlog' = <<>>
  /\ peer' = [c \in Client |-> IF \E i \in DOMAIN backlog : backlog[i] = c
                                 THEN "over" ELSE peer[c]]
  /\ UNCHANGED <<running, mfd, fdOpen, alive, reqs, sent, servVars, forgeVars>>

CloseListener ==
  /\ mpc = "close"
  /\ mpc' = "join" /\ fdOpen' = FALSE /\ mfd' = FALSE
  /\ UNCHANGED <<running, sock, alive, clientVars, servVars, forgeVars>>

\* Mutant: the thread is detached instead of joined.
Join_detached ==
  /\ mpc = "join"
  /\ mpc' = "gone"
  /\ UNCHANGED <<running, mfd, sock, fdOpen, alive, clientVars, servVars, forgeVars>>

Join ==
  /\ mpc = "join" /\ spc = "ended"
  /\ mpc' = "gone"
  /\ UNCHANGED <<running, mfd, sock, fdOpen, alive, clientVars, servVars, forgeVars>>

MainStep == alive /\ (Start \/ Spawn \/ StopFlag \/ Shut \/ CloseListener \/ Join)
Main == MainStep \/ (alive /\ Exit)

-----------------------------------------------------------------------------
(* Clients. *)

\* listen(fd, 1): the kernel completes at most two connections ahead of accept().
Connect(c) ==
  /\ peer[c] = "new" /\ sock = "listening" /\ Len(backlog) < 2
  /\ peer' = [peer EXCEPT ![c] = "up"]
  /\ backlog' = Append(backlog, c)
  /\ UNCHANGED <<mainVars, alive, reqs, sent, servVars, forgeVars>>

\* c sends the next piece of a request, or the first piece of a new one.
Send(c) ==
  /\ peer[c] = "up"
  /\ sent' = [sent EXCEPT ![c] = @ + 1]
  /\ IF sent[c] % Parts = 0
       THEN /\ Len(reqs[c]) < MaxReq
            /\ \E r \in Requests : reqs' = [reqs EXCEPT ![c] = Append(@, r)]
       ELSE UNCHANGED reqs
  /\ UNCHANGED <<mainVars, alive, peer, backlog, servVars, forgeVars>>

\* c closes its socket; it resets the connection if it leaves responses unread.
Leave(c) ==
  /\ peer[c] = "up"
  /\ \E how \in {"fin", "rst"} : peer' = [peer EXCEPT ![c] = how]
  /\ UNCHANGED <<mainVars, alive, reqs, sent, backlog, servVars, forgeVars>>

ClientStep == alive /\ \E c \in Client : Connect(c) \/ Send(c) \/ Leave(c)

-----------------------------------------------------------------------------
(* The server's thread: accept_loop() and handle_client(). *)

LoopTest ==
  /\ spc = "loop"
  /\ spc' = IF running THEN "accept" ELSE "ended"
  /\ UNCHANGED <<conn, have, resp, got, resps, clientVars, forgeVars>>

\* accept() on a closed descriptor or on -1 returns at once, and so does a
\* transient error; otherwise the thread sleeps in the kernel.
CallAccept ==
  /\ spc = "accept"
  /\ spc' = IF mfd /\ fdOpen THEN "blocked" ELSE "loop"
  /\ UNCHANGED <<conn, have, resp, got, resps, clientVars, forgeVars>>

\* A shut-down listener, or (HwFails) any transient error, ends the accept().
AcceptFails ==
  /\ spc = "blocked"
  /\ sock = "shut" \/ HwFails
  /\ spc' = "loop"
  /\ UNCHANGED <<conn, have, resp, got, resps, clientVars, forgeVars>>

Accept ==
  /\ spc = "blocked" /\ backlog # <<>>
  /\ conn' = Head(backlog) /\ backlog' = Tail(backlog)
  /\ spc' = "serve"
  /\ UNCHANGED <<have, resp, got, resps, peer, reqs, sent, forgeVars>>

ServeTest ==
  /\ spc = "serve"
  /\ spc' = IF running THEN "recv" ELSE "close"
  /\ have' = 0
  /\ UNCHANGED <<conn, resp, got, resps, clientVars, forgeVars>>

\* Mutant: recv() is asked for a whole packet at raw + have.
Recv_overrun ==
  /\ spc = "recv" /\ got[conn] < sent[conn]
  /\ \E n \in 1..Parts :
       /\ n <= sent[conn] - got[conn]
       /\ have' = have + n
       /\ got' = [got EXCEPT ![conn] = @ + n]
       /\ spc' = IF have + n >= Parts THEN "handle" ELSE "recv"
  /\ UNCHANGED <<conn, resp, resps, clientVars, forgeVars>>

\* recv() returns some of what has arrived, up to the rest of the packet.
Recv ==
  /\ spc = "recv" /\ got[conn] < sent[conn]
  /\ \E n \in 1..(Parts - have) :
       /\ n <= sent[conn] - got[conn]
       /\ have' = have + n
       /\ got' = [got EXCEPT ![conn] = @ + n]
       /\ spc' = IF have + n = Parts THEN "handle" ELSE "recv"
  /\ UNCHANGED <<conn, resp, resps, clientVars, forgeVars>>

\* recv() returns 0 after the data of a closed peer, or an error after a reset.
RecvEnds ==
  /\ spc = "recv"
  /\ \/ peer[conn] \in {"fin", "pipe"} /\ got[conn] = sent[conn]
     \/ peer[conn] = "rst"
  /\ spc' = "close"
  /\ UNCHANGED <<conn, have, resp, got, resps, clientVars, forgeVars>>

\* The packet in `raw'.
Current == reqs[conn][got[conn] \div Parts]
Answer(code, arg, cause) ==
  [id |-> got[conn] \div Parts, code |-> code, arg |-> arg, cause |-> cause]
Replies(code, arg, cause) == resp' = Answer(code, arg, cause) /\ spc' = "send"

\* A packet without the magic ends the connection with no response.
BadMagic ==
  /\ spc = "handle" /\ ~ Current.good
  /\ spc' = "close"
  /\ UNCHANGED <<conn, have, resp, got, resps, clientVars, forgeVars>>

Handling(cmds) == spc = "handle" /\ Current.good /\ Current.cmd \in cmds

HandlePing ==
  /\ Handling({"ping"})
  /\ Replies("ack", 0, "none")
  /\ UNCHANGED forgeVars

\* hz * 2^24 / rate + 0.5, truncated; the register keeps the low bits.
Ftw(hz) == ((hz + 1) \div 2) % FtwMod

\* Mutant: a failed read-back is reported as a failed command.
HandleSetFreq_nacksReadback ==
  /\ Handling({"set_freq"})
  /\ LET hz == Current.arg
     IN \/ /\ conf.clk /\ hz >= 0
           /\ ftw' = Ftw(hz)
           /\ \/ /\ Replies("ack", 2 * Ftw(hz), "none")
                 /\ acked' = [acked EXCEPT !.freq = 2 * Ftw(hz)]
              \/ HwFails /\ Replies("nack", 0, "hw") /\ UNCHANGED acked
        \/ ~(conf.clk /\ hz >= 0) /\ Replies("nack", 0, "arg") /\ UNCHANGED <<ftw, acked>>
  /\ UNCHANGED <<en, conf>>

\* set_dds_frequency_hz(), then the answer reads the frequency back; if that
\* fails it repeats what was asked for.
HandleSetFreq ==
  /\ Handling({"set_freq"})
  /\ LET hz == Current.arg
     IN \/ /\ conf.clk /\ hz >= 0
           /\ ftw' = Ftw(hz)
           /\ acked' = [acked EXCEPT !.freq = 2 * Ftw(hz)]
           /\ \/ Replies("ack", 2 * Ftw(hz), "none")
              \/ HwFails /\ Replies("ack", hz, "none")
        \/ conf.clk /\ hz >= 0 /\ HwFails /\ Replies("nack", 0, "hw")
                                        /\ UNCHANGED <<ftw, acked>>
        \/ conf.clk /\ hz < 0 /\ Replies("nack", 0, "arg") /\ UNCHANGED <<ftw, acked>>
        \/ ~ conf.clk /\ Replies("nack", 0, "config") /\ UNCHANGED <<ftw, acked>>
  /\ UNCHANGED <<en, conf>>

HandleGetFreq ==
  /\ Handling({"get_freq"})
  /\ \/ conf.clk /\ Replies("ack", 2 * ftw, "none")
     \/ conf.clk /\ HwFails /\ Replies("nack", 0, "hw")
     \/ ~ conf.clk /\ Replies("nack", 0, "config")
  /\ UNCHANGED forgeVars

\* set_dds_enabled() reports success when there is no DDS register.
HandleEnable ==
  /\ Handling({"enable", "disable"})
  /\ \/ /\ Replies("ack", 0, "none")
        /\ en' = IF conf.base THEN Current.cmd = "enable" ELSE en
        /\ acked' = [acked EXCEPT !.en = IF ~ conf.base THEN "any"
                                         ELSE IF Current.cmd = "enable" THEN "on"
                                         ELSE "off"]
     \/ conf.base /\ HwFails /\ Replies("nack", 0, "hw") /\ UNCHANGED <<en, acked>>
  /\ UNCHANGED <<ftw, conf>>

HandleGetEnabled ==
  /\ Handling({"get_enabled"})
  /\ \/ conf.base /\ Replies("ack", IF en THEN 1 ELSE 0, "none")
     \/ conf.base /\ HwFails /\ Replies("nack", 0, "hw")
     \/ ~ conf.base /\ Replies("nack", 0, "config")
  /\ UNCHANGED forgeVars

\* Mutants: the response of an unknown command has no query_id; it has none.
HandleUnknown_noId ==
  /\ spc = "handle" /\ Current.good /\ Current.cmd \notin Commands
  /\ resp' = [NoResp EXCEPT !.code = "nack_unknown_command"] /\ spc' = "send"
  /\ UNCHANGED forgeVars

HandleUnknown_silent ==
  /\ spc = "handle" /\ Current.good /\ Current.cmd \notin Commands
  /\ spc' = "serve"
  /\ UNCHANGED <<resp, forgeVars>>

HandleUnknown ==
  /\ spc = "handle" /\ Current.good /\ Current.cmd \notin Commands
  /\ Replies("nack_unknown_command", 0, "cmd")
  /\ UNCHANGED forgeVars

HandleRequest ==
  /\ \/ HandlePing \/ HandleSetFreq \/ HandleGetFreq \/ HandleEnable
     \/ HandleGetEnabled \/ HandleUnknown
  /\ UNCHANGED <<conn, have, got, resps, clientVars>>

\* send() to a peer that is there.
SendResponse ==
  /\ spc = "send" /\ peer[conn] = "up"
  /\ resps' = [resps EXCEPT ![conn] = Append(@, resp)]
  /\ spc' = "serve"
  /\ UNCHANGED <<conn, have, resp, got, clientVars, forgeVars>>

\* send() to a peer that has closed: the kernel takes the bytes, the peer's
\* answer resets the connection, sooner or later.
SendToClosed ==
  /\ spc = "send" /\ peer[conn] = "fin"
  /\ \E to \in {"fin", "pipe"} : peer' = [peer EXCEPT ![conn] = to]
  /\ spc' = "serve"
  /\ UNCHANGED <<conn, have, resp, got, resps, reqs, sent, backlog, forgeVars>>

\* The first send() after a reset returns the connection's error.
SendFails ==
  /\ spc = "send" /\ peer[conn] = "rst"
  /\ spc' = "close"
  /\ UNCHANGED <<conn, have, resp, got, resps, clientVars, forgeVars>>

\* Mutant: accept_loop() ends after its first client.
CloseClient_ends ==
  /\ spc = "close"
  /\ peer' = [peer EXCEPT ![conn] = "over"]
  /\ conn' = Nobody /\ spc' = "ended"
  /\ UNCHANGED <<have, resp, got, resps, reqs, sent, backlog, forgeVars>>

CloseClient ==
  /\ spc = "close"
  /\ peer' = [peer EXCEPT ![conn] = "over"]
  /\ conn' = Nobody /\ spc' = "loop"
  /\ UNCHANGED <<have, resp, got, resps, reqs, sent, backlog, forgeVars>>

ServerStep ==
  \/ LoopTest \/ CallAccept \/ AcceptFails \/ Accept \/ ServeTest \/ Recv
  \/ RecvEnds \/ BadMagic \/ HandleRequest \/ SendResponse \/ SendToClosed
  \/ SendFails \/ CloseClient

\* send() to a connection the peer closed and then reset is EPIPE and raises
\* SIGPIPE, whose default action ends the process: there is no MSG_NOSIGNAL and
\* no handler.
SigPipe ==
  /\ spc = "send" /\ peer[conn] = "pipe"
  /\ alive' = FALSE
  /\ UNCHANGED <<mainVars, clientVars, servVars, forgeVars>>

Server == alive /\ \/ ServerStep /\ UNCHANGED <<mainVars, alive>>
                   \/ SigPipe

Next == Main \/ ClientStep \/ Server

Spec == Init /\ [][Next]_vars

\* The threads run when they can; a user need not leave the menu, nor a client
\* send or leave.
Threads == WF_vars(Server) /\ WF_vars(MainStep)
FairSpec == Spec /\ Threads

-----------------------------------------------------------------------------
(* Properties. *)

\* Responses reach a client in the order of its requests, one each, with the
\* request's own query_id and none for a packet without the magic
\* (handle_client, handle_request).
InOrder ==
  \A c \in Client :
    \A i \in DOMAIN resps[c] :
      /\ resps[c][i].id = i
      /\ i * Parts <= got[c] /\ reqs[c][i].good

\* A server that waits for the next packet of a client that is still there has
\* answered every packet it has taken from it.
AllAnswered ==
  spc = "recv" /\ peer[conn] = "up" /\ have = 0 =>
    Len(resps[conn]) * Parts = got[conn]

\* What was answered is what the registers hold: a nack changed nothing, an ack
\* did what it says, whichever client asked (handle_request, set_dds_...).
AckedIsApplied ==
  /\ acked.en # "any" => (en <=> acked.en = "on")
  /\ acked.freq # -1 => 2 * ftw = acked.freq

\* The protocol as a client sees it (control_server.cpp:140-236).
Answered == InOrder /\ AllAnswered /\ AckedIsApplied

\* Once stop() has returned, the thread no longer runs and the listening
\* descriptor is closed: main() may destroy the forge.
StoppedIsStopped ==
  mpc = "gone" => spc \in {"none", "ended"} /\ ~ fdOpen /\ ~ mfd

\* stop() returns (control_server.h: it "joins its thread").
StopReturns == (mpc = "stop") ~> (mpc = "gone" \/ ~ alive)

\* It does if no client stays connected for ever.
ClientsLeave == \A c \in Client : []<>(peer[c] # "up")
StopReturnsOnceAlone == ClientsLeave => StopReturns

\* A client the kernel has connected is accepted in the end, or turned away by
\* a stop, if none of those before it stays for ever.
Waiting(c) == \E i \in DOMAIN backlog : backlog[i] = c
EveryClientServed ==
  \A c \in Client : (\A d \in Client \ {c} : []<>(peer[d] # "up"))
                       => (Waiting(c) ~> (~ Waiting(c) \/ ~ alive))

\* A complete request of a client that stays is answered, unless an earlier
\* packet had no magic or the server is told to stop.
RequestsAnswered ==
  \A c \in Client : \A n \in 1..MaxReq :
    (conn = c /\ sent[c] >= n * Parts)
      ~> \/ Len(resps[c]) >= n
         \/ peer[c] # "up" \/ mpc # "menu" \/ ~ alive
         \/ \E i \in DOMAIN reqs[c] : i <= n /\ ~ reqs[c][i].good

\* A client that goes away ends its connection, not the process.
DisconnectIsHarmless == alive
=============================================================================
