------------------------ MODULE ControlServerProofs ------------------------
(***************************************************************************)
(* What ControlServer guarantees for any number of clients and requests,   *)
(* any packet size and any configuration: each request of a client gets    *)
(* its own answer, in order, whatever pieces it arrives in and whenever    *)
(* clients leave; what is answered is what the registers hold; and stop()  *)
(* leaves nothing running.                                                 *)
(***************************************************************************)
EXTENDS ControlServer, Arithmetic, SequenceTheorems, TLAPS

(***************************************************************************)
(* The inductive invariant.                                                *)
(***************************************************************************)

\* The states of the server's thread in which it holds a client's connection.
Holding == {"serve", "recv", "handle", "send", "close"}

\* The client can still be told something.
Reachable(c) == peer[c] = "up"

\* The last request c has begun is the one its last piece belongs to.
Pieces ==
  \A c \in Client : /\ Len(reqs[c]) <= MaxReq
                    /\ sent[c] <= Parts * Len(reqs[c])
                    /\ Parts * Len(reqs[c]) < sent[c] + Parts

\* handle_client() has a client exactly while it runs, and the packet in `raw' is
\* one it has read.
Serving ==
  /\ spc \in Holding <=> conn \in Client
  /\ spc = "recv" => have < Parts /\ have <= got[conn]
  /\ spc \in {"handle", "send"} => Parts <= got[conn]

\* A connection is in one place: not made, in the backlog, or the thread's; and
\* nothing is read from it before it is accepted.
Fresh(c) == got[c] = 0 /\ resps[c] = <<>> /\ conn # c
Queue ==
  /\ \A i \in DOMAIN backlog : peer[backlog[i]] # "new" /\ Fresh(backlog[i])
  /\ \A i, j \in DOMAIN backlog : backlog[i] = backlog[j] => i = j
  /\ \A c \in Client : peer[c] = "new" => Fresh(c)

\* What has been read of a client that can be told, and not been answered yet.
Unanswered ==
  IF spc = "serve" THEN 0 ELSE IF spc = "recv" THEN have ELSE Parts

\* The thread has answered all it has read but the packet at hand.
Step ==
  /\ spc \in {"serve", "recv", "handle", "send"} /\ Reachable(conn) =>
       got[conn] = Parts * Len(resps[conn]) + Unanswered
  /\ spc = "send" /\ Reachable(conn) =>
       resp.id = Len(resps[conn]) + 1 /\ reqs[conn][resp.id].good

\* A server that never started has no thread and no descriptor; stop() takes the
\* descriptor away before it waits for the thread.
Stopping ==
  /\ mpc \in {"start", "spawn"} => spc = "none"
  /\ mpc = "start" => ~ mfd /\ ~ fdOpen
  /\ mpc \in {"menu", "stop"} => running \/ (spc = "none" /\ ~ mfd /\ ~ fdOpen)
  /\ mpc = "join" => ~ mfd /\ ~ fdOpen
  /\ StoppedIsStopped

Protocol == Pieces /\ Serving /\ Queue /\ Step /\ InOrder
IInv == TypeOK /\ Stopping /\ Protocol

(***************************************************************************)
(* The protocol.                                                           *)
(***************************************************************************)

\* Nothing has been sent or read at the start.
LEMMA ProtocolInit == Init => IInv
<1> SUFFICES ASSUME Init PROVE IInv
  OBVIOUS
<1> USE BoundsAssumption DEF Init
<1>1. \A c \in Client : reqs[c] = <<>> /\ resps[c] = <<>> /\ sent[c] = 0 /\ got[c] = 0
  OBVIOUS
<1>2. TypeOK
  <2>1. reqs \in [Client -> Seq(Requests)] /\ resps \in [Client -> Seq(Response)]
          /\ backlog \in Seq(Client)
    OBVIOUS
  <2>2. resp \in Response
    BY DEF NoResp, Response, Codes
  <2>3. 0 <= Parts * MaxReq
    OBVIOUS
  <2>4. sent \in [Client -> 0..(Parts * MaxReq)] /\ got \in [Client -> Nat]
    BY <2>3
  <2>5. {alive, running, mfd, fdOpen, en} \subseteq BOOLEAN
    OBVIOUS
  <2>6. ftw \in 0..(FtwMod - 1) /\ have \in 0..Parts
    OBVIOUS
  <2>7. acked \in [en : {"on", "off", "any"}, freq : Int]
          /\ peer \in [Client -> {"new", "up", "fin", "rst", "pipe", "over"}]
    OBVIOUS
  <2>8. \A c \in Client : got[c] <= sent[c]
    BY <1>1
  <2>9. QED
    BY <2>1, <2>2, <2>4, <2>5, <2>6, <2>7, <2>8 DEF TypeOK
<1>3. Pieces /\ InOrder
  BY <1>1 DEF Pieces, InOrder
<1>4. Serving /\ Queue /\ Step
  BY <1>1 DEF Serving, Queue, Fresh, Step, Holding
<1>5. Stopping
  BY DEF Stopping, StoppedIsStopped
<1>6. QED
  BY <1>2, <1>3, <1>4, <1>5 DEF IInv, Protocol

\* No step starts a thread after stop(), or leaves the descriptor open.
LEMMA StoppingKept == ASSUME TypeOK, Stopping, [Next]_vars PROVE Stopping'
<1> USE DEF Stopping, StoppedIsStopped
<1>1. CASE Main
  BY <1>1 DEF Main, MainStep, Start, Spawn, Exit, StopFlag, Shut, CloseListener, Join,
       servVars, TypeOK
<1>2. CASE ClientStep
  <2>1. PICK c \in Client : Connect(c) \/ Send(c) \/ Leave(c)
    BY <1>2 DEF ClientStep
  <2>2. UNCHANGED <<mainVars, servVars>>
    BY <2>1 DEF Connect, Send, Leave
  <2>3. QED
    BY <2>2 DEF mainVars, servVars
<1>3. CASE Server
  <2>1. UNCHANGED mainVars
    BY <1>3 DEF Server, SigPipe
  <2>2. spc' = spc \/ (spc \notin {"none", "ended"} /\ spc' # "none")
    <3>1. CASE SigPipe
      BY <3>1 DEF SigPipe, servVars
    <3>2. CASE ServerStep
      BY <3>2 DEF ServerStep, LoopTest, CallAccept, AcceptFails, Accept, ServeTest, Recv,
           RecvEnds, BadMagic, HandleRequest, HandlePing, HandleSetFreq, HandleGetFreq,
           HandleEnable, HandleGetEnabled, HandleUnknown, Handling, Replies,
           SendResponse, SendToClosed, SendFails, CloseClient
    <3>3. QED
      BY <1>3, <3>1, <3>2 DEF Server
  <2>3. QED
    BY <2>1, <2>2 DEF mainVars
<1>4. CASE UNCHANGED vars
  BY <1>4 DEF vars, mainVars, servVars
<1>5. QED
  BY <1>1, <1>2, <1>3, <1>4 DEF Next

\* The main thread touches no connection but those it resets in the backlog.
LEMMA ProtocolMain == ASSUME IInv, Main PROVE TypeOK' /\ Protocol'
<1>1. CASE Shut
  <2>1. UNCHANGED <<running, mfd, fdOpen, alive, reqs, sent, servVars, forgeVars>>
          /\ backlog' = <<>> /\ mpc' = "close" /\ sock' = "shut"
    BY <1>1 DEF Shut
  <2>2. peer' \in [Client -> {"new", "up", "fin", "rst", "pipe", "over"}]
    BY <1>1 DEF Shut, IInv, TypeOK
  <2>3. TypeOK'
    BY <2>1, <2>2 DEF IInv, TypeOK, servVars, forgeVars
  <2>4. Pieces' /\ Serving' /\ InOrder'
    BY <2>1 DEF IInv, Protocol, Pieces, Serving, InOrder, servVars
  <2>5. \A c \in Client : peer'[c] = peer[c] \/ peer'[c] = "over"
    BY <1>1 DEF Shut
  <2>6. Queue'
    BY <2>1, <2>5 DEF IInv, Protocol, Queue, Fresh, servVars
  <2>7. Step'
    <3>1. spc \in {"serve", "recv", "handle", "send"} => conn \in Client
      BY DEF IInv, Protocol, Serving, Holding
    <3>2. QED
      BY <2>1, <2>5, <3>1 DEF IInv, Protocol, Step, Reachable, Unanswered, servVars
  <2>8. QED
    BY <2>3, <2>4, <2>6, <2>7 DEF Protocol
<1>2. CASE Start \/ Exit \/ StopFlag \/ CloseListener \/ Join
  <2>1. UNCHANGED <<clientVars, servVars, forgeVars, alive>>
          /\ mpc' \in {"start", "spawn", "menu", "stop", "shut", "close", "join", "gone"}
          /\ {running', mfd', fdOpen'} \subseteq BOOLEAN
          /\ sock' \in {"none", "listening", "shut"}
    BY <1>2 DEF Start, Exit, StopFlag, CloseListener, Join, IInv, TypeOK
  <2>2. TypeOK'
    BY <2>1 DEF IInv, TypeOK, clientVars, servVars, forgeVars
  <2>3. Protocol'
    BY <2>1 DEF IInv, Protocol, Pieces, Serving, Queue, Fresh, Step, Reachable,
         Unanswered, InOrder, clientVars, servVars, forgeVars
  <2>4. QED
    BY <2>2, <2>3
<1>3. CASE Spawn
  <2>1. spc = "none" /\ spc' = "loop" /\ running' = TRUE /\ mpc' = "menu"
          /\ UNCHANGED <<mfd, sock, fdOpen, alive, clientVars, conn, have, resp, got,
                         resps, forgeVars>>
    BY <1>3 DEF Spawn, IInv, Stopping
  <2>2. TypeOK'
    BY <2>1 DEF IInv, TypeOK, clientVars, forgeVars
  <2>3. Pieces' /\ Serving' /\ Queue' /\ Step' /\ InOrder'
    BY <2>1 DEF IInv, Protocol, Pieces, Serving, Holding, Queue, Fresh, Step, InOrder,
         clientVars
  <2>4. QED
    BY <2>2, <2>3 DEF Protocol
<1>4. QED
  BY <1>1, <1>2, <1>3 DEF Main, MainStep

\* A new connection joins the backlog; nothing of it has been read.
LEMMA ProtocolConnect ==
  ASSUME IInv, NEW c \in Client, Connect(c) PROVE TypeOK' /\ Protocol'
<1>1. UNCHANGED <<mainVars, alive, reqs, sent, servVars, forgeVars>> /\ peer[c] = "new"
        /\ peer' = [peer EXCEPT ![c] = "up"] /\ backlog' = Append(backlog, c)
  BY DEF Connect
<1>2. TypeOK'
  <2>1. backlog' \in Seq(Client)
          /\ peer' \in [Client -> {"new", "up", "fin", "rst", "pipe", "over"}]
    BY <1>1 DEF IInv, TypeOK
  <2>2. QED
    BY <1>1, <2>1 DEF IInv, TypeOK, mainVars, servVars, forgeVars
<1>3. Pieces' /\ Serving' /\ InOrder'
  BY <1>1 DEF IInv, Protocol, Pieces, Serving, InOrder, servVars
<1>4. Fresh(c)
  BY <1>1 DEF IInv, Protocol, Queue
<1>5. peer'[c] = "up" /\ \A d \in Client \ {c} : peer'[d] = peer[d]
  BY <1>1 DEF IInv, TypeOK
<1>6. Step'
  <2>1. conn # c
    BY <1>4 DEF Fresh
  <2>2. spc \in {"serve", "recv", "handle", "send"} => conn \in Client
    BY DEF IInv, Protocol, Serving, Holding
  <2>3. QED
    BY <1>1, <1>5, <2>1, <2>2 DEF IInv, Protocol, Step, Reachable, Unanswered, servVars
<1>7. Queue'
  <2>1. backlog \in Seq(Client)
    BY DEF IInv, TypeOK
  <2>2. \A i \in DOMAIN backlog : backlog[i] \in Client /\ backlog[i] # c
    BY <1>1, <2>1 DEF IInv, Protocol, Queue
  <2>3. DOMAIN backlog' = DOMAIN backlog \cup {Len(backlog) + 1}
          /\ backlog'[Len(backlog) + 1] = c
          /\ \A i \in DOMAIN backlog : backlog'[i] = backlog[i]
    BY <1>1, <2>1
  <2>4. \A d \in Client : Fresh(d)' <=> Fresh(d)
    BY <1>1 DEF Fresh, servVars
  <2>5. QED
    BY <1>4, <1>5, <2>2, <2>3, <2>4 DEF IInv, Protocol, Queue
<1>8. QED
  BY <1>2, <1>3, <1>6, <1>7 DEF Protocol

\* A request is appended when the last one is complete, and no other is touched.
LEMMA ProtocolSend ==
  ASSUME IInv, NEW c \in Client, Send(c) PROVE TypeOK' /\ Protocol'
<1>1. UNCHANGED <<mainVars, alive, peer, backlog, servVars, forgeVars>>
        /\ sent' = [sent EXCEPT ![c] = @ + 1]
  BY DEF Send
<1>2. Parts \in Nat \ {0} /\ MaxReq \in Nat
  BY BoundsAssumption
<1>3. /\ reqs \in [Client -> Seq(Requests)] /\ sent \in [Client -> Nat]
      /\ got \in [Client -> Nat] /\ resps \in [Client -> Seq(Response)]
  BY <1>2 DEF IInv, TypeOK
<1> DEFINE Grown ==
             /\ reqs' \in [Client -> Seq(Requests)]
             /\ \A d \in Client \ {c} : reqs'[d] = reqs[d] /\ sent'[d] = sent[d]
             /\ \A i \in DOMAIN reqs[c] :
                  i \in DOMAIN reqs'[c] /\ reqs'[c][i] = reqs[c][i]
             /\ sent'[c] = sent[c] + 1
<1>4. Grown
  <2>1. CASE UNCHANGED reqs
    BY <1>1, <1>3, <2>1
  <2>2. ASSUME NEW r \in Requests, reqs' = [reqs EXCEPT ![c] = Append(@, r)]
        PROVE  Grown
    BY <1>1, <1>3, <2>2
  <2>3. QED
    BY <2>1, <2>2 DEF Send
<1>5. /\ Len(reqs'[c]) <= MaxReq /\ sent'[c] <= Parts * Len(reqs'[c])
      /\ Parts * Len(reqs'[c]) < sent'[c] + Parts
  <2>1. PICK k \in Nat : k = Len(reqs[c])
    BY <1>3
  <2>2. PICK n \in Nat : n = sent[c]
    BY <1>3
  <2>3. k <= MaxReq /\ n <= Parts * k /\ Parts * k < n + Parts
    BY <2>1, <2>2 DEF IInv, Protocol, Pieces
  <2>4. Len(reqs'[c]) = IF n % Parts = 0 THEN k + 1 ELSE k
    BY <1>3, <2>1, <2>2 DEF Send
  <2>5. n % Parts = 0 => k < MaxReq
    BY <2>1, <2>2 DEF Send
  <2>6. Len(reqs'[c]) <= MaxReq
    BY <1>2, <2>3, <2>4, <2>5
  <2>7. QED
    BY <1>2, <1>4, <2>2, <2>3, <2>4, <2>6, OneMore
<1>6. Pieces'
  BY <1>4, <1>5 DEF IInv, Protocol, Pieces
<1>7. TypeOK'
  <2>1. \A d \in Client : sent'[d] \in 0..(Parts * MaxReq) /\ got[d] <= sent'[d]
    <3>1. PICK k \in Nat : k = Len(reqs'[c])
      BY <1>4
    <3>2. Parts * k <= Parts * MaxReq
      BY <1>2, <1>5, <3>1, Times
    <3>3. PICK top \in Nat : top = Parts * MaxReq
      BY <1>2
    <3>4. PICK here \in Nat : here = Parts * k
      BY <1>2
    <3>5. sent'[c] <= top
      BY <1>3, <1>4, <1>5, <3>1, <3>2, <3>3, <3>4
    <3>6. \A d \in Client : sent[d] \in 0..top /\ got[d] <= sent[d]
      BY <3>3 DEF IInv, TypeOK
    <3>7. \A d \in Client : sent'[d] \in 0..top /\ got[d] <= sent'[d]
      BY <1>3, <1>4, <3>5, <3>6
    <3>8. QED
      BY <3>3, <3>7
  <2>2. sent' \in [Client -> 0..(Parts * MaxReq)]
    BY <1>1, <1>3, <2>1
  <2>3. QED
    BY <1>1, <1>4, <2>1, <2>2 DEF IInv, TypeOK, mainVars, servVars, forgeVars
<1>8. \A d \in Client : \A i \in Nat \ {0} : Parts * i <= got[d] =>
        i \in DOMAIN reqs[d] /\ reqs'[d][i] = reqs[d][i]
  <2>1. SUFFICES ASSUME NEW d \in Client, NEW i \in Nat \ {0}, Parts * i <= got[d]
                 PROVE  i \in DOMAIN reqs[d]
    BY <1>4
  <2>2. got[d] <= Parts * Len(reqs[d])
    BY <1>2, <1>3 DEF IInv, TypeOK, Protocol, Pieces
  <2>3. Len(reqs[d]) \in Nat /\ got[d] \in Nat
    BY <1>3
  <2>4. i <= Len(reqs[d])
    BY <1>2, <2>1, <2>2, <2>3, Within
  <2>5. QED
    BY <1>3, <2>4
<1>9. InOrder'
  <2>1. SUFFICES ASSUME NEW d \in Client, NEW i \in DOMAIN resps[d]
                 PROVE  resps[d][i].id = i /\ i * Parts <= got[d] /\ reqs'[d][i].good
    BY <1>1 DEF InOrder, servVars
  <2>2. resps[d][i].id = i /\ i * Parts <= got[d] /\ reqs[d][i].good
    BY DEF IInv, Protocol, InOrder
  <2>3. i \in Nat \ {0} /\ i * Parts = Parts * i
    BY <1>2, <1>3
  <2>4. QED
    BY <1>8, <2>2, <2>3
<1>10. Step'
  <2>1. spc = "send" /\ Reachable(conn) => reqs'[conn][resp.id].good
    <3>1. SUFFICES ASSUME spc = "send", Reachable(conn) PROVE reqs'[conn][resp.id].good
      OBVIOUS
    <3>2. conn \in Client
      BY <3>1 DEF IInv, Protocol, Serving, Holding
    <3>3. /\ got[conn] = Parts * Len(resps[conn]) + Parts
          /\ resp.id = Len(resps[conn]) + 1 /\ reqs[conn][resp.id].good
      BY <3>1 DEF IInv, Protocol, Step, Unanswered
    <3>4. Parts * resp.id <= got[conn] /\ resp.id \in Nat \ {0}
      BY <1>2, <1>3, <3>2, <3>3
    <3>5. QED
      BY <1>8, <3>2, <3>3, <3>4
  <2>2. QED
    BY <1>1, <2>1 DEF IInv, Protocol, Step, Reachable, Unanswered, servVars
<1>11. Serving' /\ Queue'
  BY <1>1 DEF IInv, Protocol, Serving, Queue, Fresh, servVars
<1>12. QED
  BY <1>6, <1>7, <1>9, <1>10, <1>11 DEF Protocol

\* A client that goes can only become one that is told nothing.
LEMMA ProtocolLeave ==
  ASSUME IInv, NEW c \in Client, Leave(c) PROVE TypeOK' /\ Protocol'
<1>1. UNCHANGED <<mainVars, alive, reqs, sent, backlog, servVars, forgeVars>>
        /\ peer[c] = "up"
        /\ \E how \in {"fin", "rst"} : peer' = [peer EXCEPT ![c] = how]
  BY DEF Leave
<1>2. peer' \in [Client -> {"new", "up", "fin", "rst", "pipe", "over"}]
        /\ \A d \in Client : (peer'[d] = "new" <=> peer[d] = "new")
                             /\ (peer'[d] \in {"up", "fin"} => peer[d] \in {"up", "fin"})
  BY <1>1 DEF IInv, TypeOK
<1>3. TypeOK'
  BY <1>1, <1>2 DEF IInv, TypeOK, mainVars, servVars, forgeVars
<1>4. Pieces' /\ Serving' /\ InOrder'
  BY <1>1 DEF IInv, Protocol, Pieces, Serving, InOrder, servVars
<1>5. Queue'
  <2>1. \A i \in DOMAIN backlog : backlog[i] \in Client
    BY DEF IInv, TypeOK
  <2>2. \A d \in Client : Fresh(d)' <=> Fresh(d)
    BY <1>1 DEF Fresh, servVars
  <2>3. QED
    BY <1>1, <1>2, <2>1, <2>2 DEF IInv, Protocol, Queue
<1>6. Step'
  <2>1. spc \in {"serve", "recv", "handle", "send"} => conn \in Client
    BY DEF IInv, Protocol, Serving, Holding
  <2>2. QED
    BY <1>1, <1>2, <2>1 DEF IInv, Protocol, Step, Reachable, Unanswered, servVars
<1>7. QED
  BY <1>3, <1>4, <1>5, <1>6 DEF Protocol

\* The thread outside of a connection, and at its start.
LEMMA ProtocolLoop ==
  ASSUME IInv, LoopTest \/ CallAccept \/ AcceptFails \/ ServeTest, UNCHANGED <<mainVars, alive>>
  PROVE  TypeOK' /\ Protocol'
<1>1. UNCHANGED <<mainVars, alive, clientVars, forgeVars, conn, resp, got, resps>>
        /\ \/ spc \in {"loop", "accept", "blocked"} /\ have' = have
              /\ spc' \in {"loop", "accept", "blocked", "ended"}
           \/ spc = "serve" /\ have' = 0 /\ spc' \in {"recv", "close"}
  BY DEF LoopTest, CallAccept, AcceptFails, ServeTest
<1>2. TypeOK'
  BY <1>1, BoundsAssumption DEF IInv, TypeOK, mainVars, clientVars, forgeVars
<1>3. Pieces' /\ Queue' /\ InOrder'
  BY <1>1 DEF IInv, Protocol, Pieces, Queue, Fresh, InOrder, clientVars
<1>4. Serving' /\ Step'
  <2>1. spc = "serve" => conn \in Client
    BY DEF IInv, Protocol, Serving, Holding
  <2>2. Parts \in Nat \ {0} /\ (conn \in Client => got[conn] \in Nat)
    BY BoundsAssumption DEF IInv, TypeOK
  <2>3. Serving'
    BY <1>1, <2>1, <2>2 DEF IInv, Protocol, Serving, Holding
  <2>4. Step'
    BY <1>1 DEF IInv, Protocol, Step, Reachable, Unanswered, clientVars
  <2>5. QED
    BY <2>3, <2>4
<1>5. QED
  BY <1>2, <1>3, <1>4 DEF Protocol

\* The connection accepted is a new one, which nothing has been read from.
LEMMA ProtocolAccept ==
  ASSUME IInv, Accept, UNCHANGED <<mainVars, alive>>
  PROVE  TypeOK' /\ Protocol'
<1>1. /\ UNCHANGED <<mainVars, alive, have, resp, got, resps, peer, reqs, sent, forgeVars>>
      /\ spc = "blocked" /\ spc' = "serve" /\ backlog # <<>>
      /\ conn' = Head(backlog) /\ backlog' = Tail(backlog)
  BY DEF Accept
<1>2. backlog \in Seq(Client)
  BY DEF IInv, TypeOK
<1>3. /\ conn' = backlog[1] /\ 1 \in DOMAIN backlog /\ conn' \in Client
      /\ backlog' \in Seq(Client)
      /\ \A i \in DOMAIN backlog' :
           i + 1 \in DOMAIN backlog /\ backlog'[i] = backlog[i + 1] /\ i + 1 # 1
  BY <1>1, <1>2
<1>4. TypeOK'
  BY <1>1, <1>3 DEF IInv, TypeOK, mainVars, forgeVars
<1>5. Pieces' /\ InOrder' /\ Serving'
  BY <1>1, <1>3 DEF IInv, Protocol, Pieces, InOrder, Serving, Holding
<1>6. got[conn'] = 0 /\ resps[conn'] = <<>> /\ peer[conn'] # "new"
  BY <1>3 DEF IInv, Protocol, Queue, Fresh
<1>7. Queue'
  <2>1. \A i \in DOMAIN backlog' :
          peer[backlog'[i]] # "new" /\ got[backlog'[i]] = 0
            /\ resps[backlog'[i]] = <<>> /\ conn' # backlog'[i]
    BY <1>3 DEF IInv, Protocol, Queue, Fresh
  <2>2. \A i, j \in DOMAIN backlog' : backlog'[i] = backlog'[j] => i = j
    <3>1. SUFFICES ASSUME NEW i \in DOMAIN backlog', NEW j \in DOMAIN backlog',
                          backlog'[i] = backlog'[j]
                   PROVE  i = j
      OBVIOUS
    <3>2. i + 1 = j + 1
      BY <1>3, <3>1 DEF IInv, Protocol, Queue
    <3>3. i \in Nat /\ j \in Nat
      BY <1>3
    <3>4. QED
      BY <3>2, <3>3
  <2>3. \A c \in Client : peer[c] = "new" => got[c] = 0 /\ resps[c] = <<>> /\ conn' # c
    BY <1>6 DEF IInv, Protocol, Queue, Fresh
  <2>4. QED
    BY <1>1, <2>1, <2>2, <2>3 DEF Queue, Fresh
<1>8. Step'
  <2>1. Len(resps[conn']) = 0 /\ Parts * 0 + 0 = 0
    BY <1>6, BoundsAssumption
  <2>2. QED
    BY <1>1, <1>6, <2>1 DEF Step, Unanswered
<1>9. QED
  BY <1>4, <1>5, <1>7, <1>8 DEF Protocol

\* A piece read is a piece of the packet at hand.
LEMMA ProtocolRecv ==
  ASSUME IInv, Recv, UNCHANGED <<mainVars, alive>>
  PROVE  TypeOK' /\ Protocol'
<1>1. PICK n \in 1..(Parts - have) :
        /\ spc = "recv" /\ n <= sent[conn] - got[conn]
        /\ have' = have + n /\ got' = [got EXCEPT ![conn] = @ + n]
        /\ spc' = IF have + n = Parts THEN "handle" ELSE "recv"
  BY DEF Recv
<1>2. UNCHANGED <<mainVars, alive, conn, resp, resps, clientVars, forgeVars>>
  BY DEF Recv
<1>3. Parts \in Nat \ {0} /\ have \in Nat /\ have < Parts
  BY <1>1, BoundsAssumption DEF IInv, TypeOK, Protocol, Serving
<1>4. conn \in Client
  BY <1>1 DEF IInv, Protocol, Serving, Holding
<1>5. got \in [Client -> Nat] /\ \A c \in Client : sent[c] \in Nat
  BY BoundsAssumption DEF IInv, TypeOK
<1>6. /\ got' \in [Client -> Nat] /\ got'[conn] = got[conn] + n
      /\ got'[conn] <= sent[conn] /\ n \in Nat \ {0} /\ have + n <= Parts
      /\ \A c \in Client \ {conn} : got'[c] = got[c]
  BY <1>1, <1>3, <1>4, <1>5
<1>7. TypeOK'
  <2>1. have' \in 0..Parts /\ spc' \in {"handle", "recv"}
    BY <1>1, <1>3, <1>6
  <2>2. \A c \in Client : got'[c] <= sent[c]
    BY <1>6 DEF IInv, TypeOK
  <2>3. QED
    BY <1>2, <1>6, <2>1, <2>2 DEF IInv, TypeOK, mainVars, clientVars, forgeVars
<1>8. Pieces'
  BY <1>2 DEF IInv, Protocol, Pieces, clientVars
<1>9. Serving'
  <2>1. have <= got[conn]
    BY <1>1 DEF IInv, Protocol, Serving
  <2>2. have + n <= got'[conn]
    BY <1>3, <1>4, <1>5, <1>6, <2>1
  <2>3. QED
    BY <1>1, <1>2, <1>3, <1>4, <1>6, <2>2 DEF Serving, Holding
<1>10. Queue'
  <2>1. \A c \in Client : Fresh(c) => Fresh(c)'
    BY <1>2, <1>6 DEF Fresh
  <2>2. \A i \in DOMAIN backlog : backlog[i] \in Client
    BY DEF IInv, TypeOK
  <2>3. QED
    BY <1>2, <2>1, <2>2 DEF IInv, Protocol, Queue, clientVars
<1>11. InOrder'
  <2>1. SUFFICES ASSUME NEW c \in Client, NEW i \in DOMAIN resps[c]
                 PROVE  resps[c][i].id = i /\ i * Parts <= got'[c] /\ reqs[c][i].good
    BY <1>2 DEF InOrder, clientVars
  <2>2. resps[c][i].id = i /\ i * Parts <= got[c] /\ reqs[c][i].good
    BY DEF IInv, Protocol, InOrder
  <2>3. resps[c] \in Seq(Response)
    BY DEF IInv, TypeOK
  <2>4. PICK m \in Nat : m = i * Parts
    BY <1>3, <2>3
  <2>5. m <= got'[c]
    BY <1>5, <1>6, <2>2, <2>4
  <2>6. QED
    BY <2>2, <2>4, <2>5
<1>12. Step'
  <2>1. SUFFICES ASSUME Reachable(conn)
                 PROVE  got'[conn] = Parts * Len(resps[conn]) + (have + n)
    BY <1>1, <1>2, <1>3 DEF Step, Reachable, Unanswered, clientVars
  <2>2. got[conn] = Parts * Len(resps[conn]) + have
    BY <1>1, <2>1 DEF IInv, Protocol, Step, Unanswered
  <2>3. PICK m \in Nat : m = Parts * Len(resps[conn])
    <3>1. Len(resps[conn]) \in Nat
      BY <1>4 DEF IInv, TypeOK
    <3>2. QED
      BY <1>3, <3>1
  <2>4. got[conn] = m + have
    BY <2>2, <2>3
  <2>5. got'[conn] = m + (have + n)
    BY <1>3, <1>6, <2>4
  <2>6. QED
    BY <2>3, <2>5
<1>13. QED
  BY <1>7, <1>8, <1>9, <1>10, <1>11, <1>12 DEF Protocol

\* The thread gives the connection up; a handshake that fails is not answered.
LEMMA ProtocolEnds ==
  ASSUME IInv, RecvEnds \/ BadMagic \/ SendFails, UNCHANGED <<mainVars, alive>>
  PROVE  TypeOK' /\ Protocol'
<1>1. UNCHANGED <<mainVars, alive, conn, have, resp, got, resps, clientVars, forgeVars>>
        /\ spc \in {"recv", "handle", "send"} /\ spc' = "close"
  BY DEF RecvEnds, BadMagic, SendFails
<1>2. TypeOK'
  BY <1>1 DEF IInv, TypeOK, mainVars, clientVars, forgeVars
<1>3. Pieces' /\ Queue' /\ InOrder' /\ Serving'
  BY <1>1 DEF IInv, Protocol, Pieces, Queue, Fresh, InOrder, Serving, Holding, clientVars
<1>4. Step'
  BY <1>1 DEF Step
<1>5. QED
  BY <1>2, <1>3, <1>4 DEF Protocol

\* The packet in `raw' is one the client sent, and the first it has no answer to.
LEMMA AtHand ==
  ASSUME IInv, spc = "handle"
  PROVE  /\ conn \in Client /\ Current \in Requests
         /\ got[conn] \div Parts \in 1..Len(reqs[conn])
         /\ got[conn] \div Parts \in 1..MaxReq
         /\ Reachable(conn) => got[conn] \div Parts = Len(resps[conn]) + 1
<1>1. conn \in Client
  BY DEF IInv, Protocol, Serving, Holding
<1>2. Parts \in Nat \ {0} /\ MaxReq \in Nat
  BY BoundsAssumption
<1>3. reqs[conn] \in Seq(Requests) /\ Len(reqs[conn]) \in Nat /\ Len(reqs[conn]) <= MaxReq
  BY <1>1 DEF IInv, TypeOK, Protocol, Pieces
<1>4. PICK n \in Nat : n = got[conn]
  BY <1>1 DEF IInv, TypeOK
<1>5. PICK k \in Nat : k = Len(reqs[conn])
  BY <1>3
<1>6. Parts <= n
  BY <1>4 DEF IInv, Protocol, Serving
<1>7. n <= Parts * k
  <2>1. n <= sent[conn] /\ sent[conn] <= Parts * k /\ sent[conn] \in Nat
    BY <1>1, <1>2, <1>4, <1>5 DEF IInv, TypeOK, Protocol, Pieces
  <2>2. QED
    BY <1>2, <2>1
<1>8. n \div Parts \in 1..k
  BY <1>2, <1>6, <1>7, DivWithin
<1>9. Current \in Requests
  BY <1>3, <1>4, <1>5, <1>8 DEF Current
<1>10. Reachable(conn) => n \div Parts = Len(resps[conn]) + 1
  <2>1. SUFFICES ASSUME Reachable(conn) PROVE n \div Parts = Len(resps[conn]) + 1
    OBVIOUS
  <2>2. PICK m \in Nat : m = Len(resps[conn])
    BY <1>1 DEF IInv, TypeOK
  <2>3. n = Parts * m + Parts
    BY <1>4, <2>1, <2>2 DEF IInv, Protocol, Step, Unanswered
  <2>4. n = Parts * (m + 1)
    BY <1>2, <2>3
  <2>5. n \div Parts = m + 1
    BY <1>2, <2>4, DivOf
  <2>6. QED
    BY <2>2, <2>5
<1>11. n \div Parts \in 1..MaxReq
  <2>1. PICK q \in 1..k : q = n \div Parts
    BY <1>8
  <2>2. q \in 1..MaxReq
    BY <1>2, <1>3, <1>5, <2>1
  <2>3. QED
    BY <2>1, <2>2
<1>12. QED
  BY <1>1, <1>4, <1>5, <1>8, <1>9, <1>10, <1>11

\* Every branch of handle_request() fills the response with the packet's number.
LEMMA HandlingReplies ==
  ASSUME IInv, HandleRequest
  PROVE  /\ spc = "handle" /\ Current.good /\ spc' = "send"
         /\ resp' \in Response /\ resp'.id = got[conn] \div Parts
         /\ en' \in BOOLEAN /\ ftw' \in 0..(FtwMod - 1) /\ conf' = conf
         /\ acked' \in [en : {"on", "off", "any"}, freq : Int]
<1>1. spc = "handle" /\ Current.good
  BY DEF HandleRequest, HandlePing, HandleSetFreq, HandleGetFreq, HandleEnable,
         HandleGetEnabled, HandleUnknown, Handling
<1>2. Current \in Requests /\ Current.arg \in Int /\ got[conn] \div Parts \in 0..MaxReq
  BY <1>1, AtHand, RequestsAssumption, BoundsAssumption
<1>3. FtwMod \in Nat \ {0} /\ ftw \in 0..(FtwMod - 1) /\ en \in BOOLEAN
        /\ acked \in [en : {"on", "off", "any"}, freq : Int]
  BY BoundsAssumption DEF IInv, TypeOK
<1>4. \A hz \in Int : Ftw(hz) \in 0..(FtwMod - 1)
  BY <1>3 DEF Ftw
<1>5. ASSUME NEW code \in Codes, NEW a \in Int,
             NEW cause \in {"none", "hw", "config", "arg", "cmd"}, Replies(code, a, cause)
      PROVE  spc' = "send" /\ resp' \in Response /\ resp'.id = got[conn] \div Parts
  BY <1>2, <1>5 DEF Replies, Answer, Response
<1>6. CASE HandlePing
  BY <1>1, <1>3, <1>5, <1>6 DEF HandlePing, forgeVars, IInv, TypeOK, Codes
<1>7. CASE HandleSetFreq
  <2>1. PICK f \in Int : f = 2 * Ftw(Current.arg)
    BY <1>2, <1>4, <1>3
  <2>2. ftw' = Ftw(Current.arg) \/ ftw' = ftw
    BY <1>7 DEF HandleSetFreq
  <2>3. acked' = [acked EXCEPT !.freq = f] \/ acked' = acked
    BY <1>7, <2>1 DEF HandleSetFreq
  <2>4. \E code \in Codes, a \in Int, cause \in {"none", "hw", "config", "arg", "cmd"} :
          Replies(code, a, cause)
    BY <1>2, <1>7, <2>1 DEF HandleSetFreq, Codes
  <2>5. UNCHANGED <<en, conf>>
    BY <1>7 DEF HandleSetFreq
  <2>6. QED
    BY <1>1, <1>2, <1>3, <1>4, <1>5, <2>1, <2>2, <2>3, <2>4, <2>5
<1>8. CASE HandleGetFreq
  <2>1. \E code \in Codes, a \in Int, cause \in {"none", "hw", "config", "arg", "cmd"} :
          Replies(code, a, cause)
    BY <1>3, <1>8 DEF HandleGetFreq, Codes
  <2>2. QED
    BY <1>1, <1>3, <1>5, <1>8, <2>1 DEF HandleGetFreq, forgeVars
<1>9. CASE HandleEnable
  <2>1. \E code \in Codes, a \in Int, cause \in {"none", "hw", "config", "arg", "cmd"} :
          Replies(code, a, cause)
    BY <1>9 DEF HandleEnable, Codes
  <2>2. en' \in BOOLEAN /\ UNCHANGED <<ftw, conf>>
    BY <1>3, <1>9 DEF HandleEnable
  <2>3. acked' \in [en : {"on", "off", "any"}, freq : Int]
    BY <1>3, <1>9 DEF HandleEnable
  <2>4. QED
    BY <1>1, <1>3, <1>5, <2>1, <2>2, <2>3
<1>10. CASE HandleGetEnabled
  <2>1. \E code \in Codes, a \in Int, cause \in {"none", "hw", "config", "arg", "cmd"} :
          Replies(code, a, cause)
    BY <1>10 DEF HandleGetEnabled, Codes
  <2>2. QED
    BY <1>1, <1>3, <1>5, <1>10, <2>1 DEF HandleGetEnabled, forgeVars
<1>11. CASE HandleUnknown
  BY <1>1, <1>3, <1>5, <1>11 DEF HandleUnknown, forgeVars, Codes
<1>12. QED
  BY <1>6, <1>7, <1>8, <1>9, <1>10, <1>11 DEF HandleRequest

\* A packet with the magic becomes a response with its own number.
LEMMA ProtocolHandle ==
  ASSUME IInv, HandleRequest, UNCHANGED <<mainVars, alive>>
  PROVE  TypeOK' /\ Protocol'
<1>1. UNCHANGED <<mainVars, alive, conn, have, got, resps, clientVars>>
  BY DEF HandleRequest
<1>2. spc = "handle" /\ spc' = "send" /\ Current.good /\ resp'.id = got[conn] \div Parts
  BY HandlingReplies
<1>3. TypeOK'
  <2>1. resp' \in Response /\ en' \in BOOLEAN /\ ftw' \in 0..(FtwMod - 1) /\ conf' = conf
         /\ acked' \in [en : {"on", "off", "any"}, freq : Int]
    BY HandlingReplies
  <2>2. QED
    BY <1>1, <1>2, <2>1 DEF IInv, TypeOK, mainVars, clientVars
<1>4. Pieces' /\ Queue' /\ InOrder' /\ Serving'
  BY <1>1, <1>2 DEF IInv, Protocol, Pieces, Queue, Fresh, InOrder, Serving, Holding,
                    clientVars
<1>5. Step'
  <2>1. SUFFICES ASSUME Reachable(conn)
                 PROVE  /\ got[conn] = Parts * Len(resps[conn]) + Parts
                        /\ resp'.id = Len(resps[conn]) + 1 /\ reqs[conn][resp'.id].good
    BY <1>1, <1>2 DEF Step, Reachable, Unanswered, clientVars
  <2>2. got[conn] = Parts * Len(resps[conn]) + Parts
    BY <1>2, <2>1 DEF IInv, Protocol, Step, Unanswered
  <2>3. QED
    BY <1>2, <2>1, <2>2, AtHand DEF Current
<1>6. QED
  BY <1>3, <1>4, <1>5 DEF Protocol

\* The response reaches the client: one more packet is answered.
LEMMA ProtocolSendResponse ==
  ASSUME IInv, SendResponse, UNCHANGED <<mainVars, alive>>
  PROVE  TypeOK' /\ Protocol'
<1>1. /\ UNCHANGED <<mainVars, alive, conn, have, resp, got, clientVars, forgeVars>>
      /\ spc = "send" /\ spc' = "serve" /\ peer[conn] = "up"
      /\ resps' = [resps EXCEPT ![conn] = Append(@, resp)]
  BY DEF SendResponse
<1>2. conn \in Client
  BY <1>1 DEF IInv, Protocol, Serving, Holding
<1>3. resps \in [Client -> Seq(Response)] /\ resp \in Response
  BY DEF IInv, TypeOK
<1>4. Parts \in Nat \ {0}
  BY BoundsAssumption
<1>5. PICK k \in Nat : k = Len(resps[conn])
  BY <1>2, <1>3
<1>6. /\ resps' \in [Client -> Seq(Response)]
      /\ \A c \in Client \ {conn} : resps'[c] = resps[c]
      /\ DOMAIN resps'[conn] = 1..(k + 1) /\ Len(resps'[conn]) = k + 1
      /\ resps'[conn][k + 1] = resp
      /\ \A i \in 1..k : resps'[conn][i] = resps[conn][i]
  BY <1>1, <1>2, <1>3, <1>5
<1>7. got[conn] = Parts * k + Parts /\ resp.id = k + 1 /\ reqs[conn][k + 1].good
  BY <1>1, <1>5 DEF IInv, Protocol, Step, Reachable, Unanswered
<1>8. got[conn] = Parts * (k + 1) /\ Parts * (k + 1) = (k + 1) * Parts
  <2>1. Parts * (k + 1) = Parts * k + Parts /\ Parts * (k + 1) = (k + 1) * Parts
    BY <1>4
  <2>2. QED
    BY <1>7, <2>1
<1>9. TypeOK'
  BY <1>1, <1>6 DEF IInv, TypeOK, mainVars, clientVars, forgeVars
<1>10. Pieces' /\ Serving'
  BY <1>1, <1>2 DEF IInv, Protocol, Pieces, Serving, Holding, clientVars
<1>11. Queue'
  <2>1. \A c \in Client : Fresh(c) => Fresh(c)'
    BY <1>1, <1>6 DEF Fresh
  <2>2. \A i \in DOMAIN backlog : backlog[i] \in Client
    BY DEF IInv, TypeOK
  <2>3. QED
    BY <1>1, <2>1, <2>2 DEF IInv, Protocol, Queue, clientVars
<1>12. InOrder'
  <2>1. SUFFICES ASSUME NEW c \in Client, NEW i \in DOMAIN resps'[c]
                 PROVE  resps'[c][i].id = i /\ i * Parts <= got[c] /\ reqs[c][i].good
    BY <1>1 DEF InOrder, clientVars
  <2>2. CASE c = conn /\ i = k + 1
    BY <1>2, <1>6, <1>7, <1>8, <2>2 DEF IInv, TypeOK
  <2>3. CASE ~ (c = conn /\ i = k + 1)
    <3>1. i \in DOMAIN resps[c] /\ resps'[c][i] = resps[c][i]
      BY <1>3, <1>5, <1>6, <2>1, <2>3
    <3>2. QED
      BY <3>1 DEF IInv, Protocol, InOrder
  <2>4. QED
    BY <2>2, <2>3
<1>13. Step'
  <2>1. got[conn] = Parts * (k + 1) + 0
    BY <1>4, <1>8
  <2>2. QED
    BY <1>1, <1>6, <2>1 DEF Step, Unanswered
<1>14. QED
  BY <1>9, <1>10, <1>11, <1>12, <1>13 DEF Protocol

\* The connection is lost, or over: there is nobody to answer.
LEMMA ProtocolLost ==
  ASSUME IInv, SendToClosed \/ CloseClient, UNCHANGED <<mainVars, alive>>
  PROVE  TypeOK' /\ Protocol'
<1>1. /\ UNCHANGED <<mainVars, alive, have, resp, got, resps, reqs, sent, backlog,
                      forgeVars>>
      /\ \/ spc = "send" /\ spc' = "serve" /\ conn' = conn
              /\ \E to \in {"fin", "pipe"} : peer' = [peer EXCEPT ![conn] = to]
         \/ spc = "close" /\ spc' = "loop" /\ conn' = Nobody
              /\ peer' = [peer EXCEPT ![conn] = "over"]
  BY DEF SendToClosed, CloseClient
<1>2. conn \in Client /\ Nobody \notin Client
  BY <1>1, BoundsAssumption DEF IInv, Protocol, Serving, Holding
<1>3. /\ peer' \in [Client -> {"new", "up", "fin", "rst", "pipe", "over"}]
      /\ peer'[conn] \in {"fin", "pipe", "over"}
      /\ \A c \in Client \ {conn} : peer'[c] = peer[c]
  BY <1>1, <1>2 DEF IInv, TypeOK
<1>4. TypeOK'
  BY <1>1, <1>2, <1>3 DEF IInv, TypeOK, mainVars, forgeVars
<1>5. Pieces' /\ InOrder' /\ Serving'
  BY <1>1, <1>2 DEF IInv, Protocol, Pieces, InOrder, Serving, Holding
<1>6. Queue'
  <2>1. \A c \in Client : Fresh(c) => Fresh(c)'
    BY <1>1, <1>2 DEF Fresh
  <2>2. \A i \in DOMAIN backlog : backlog[i] \in Client
    BY DEF IInv, TypeOK
  <2>3. QED
    BY <1>1, <1>3, <2>1, <2>2 DEF IInv, Protocol, Queue
<1>7. Step'
  BY <1>1, <1>3 DEF Step, Reachable
<1>8. QED
  BY <1>4, <1>5, <1>6, <1>7 DEF Protocol

\* Every step of the system keeps the invariant.
LEMMA ProtocolStep == ASSUME IInv, [Next]_vars PROVE IInv'
<1>1. Stopping'
  BY StoppingKept DEF IInv
<1>2. TypeOK' /\ Protocol'
  <2>1. CASE Main
    BY <2>1, ProtocolMain
  <2>2. CASE ClientStep
    <3>1. PICK c \in Client : Connect(c) \/ Send(c) \/ Leave(c)
      BY <2>2 DEF ClientStep
    <3>2. QED
      BY <3>1, ProtocolConnect, ProtocolSend, ProtocolLeave
  <2>3. CASE Server
    <3>1. CASE ServerStep /\ UNCHANGED <<mainVars, alive>>
      BY <3>1, ProtocolLoop, ProtocolAccept, ProtocolRecv, ProtocolEnds, ProtocolHandle,
         ProtocolSendResponse, ProtocolLost DEF ServerStep
    <3>2. CASE SigPipe
      <4>1. alive' = FALSE /\ UNCHANGED <<mainVars, clientVars, servVars, forgeVars>>
        BY <3>2 DEF SigPipe
      <4>2. TypeOK'
        BY <4>1 DEF IInv, TypeOK, mainVars, clientVars, servVars, forgeVars
      <4>3. Protocol'
        BY <4>1 DEF IInv, Protocol, Pieces, Serving, Queue, Fresh, Step, Reachable,
             Unanswered, InOrder, clientVars, servVars
      <4>4. QED
        BY <4>2, <4>3
    <3>3. QED
      BY <2>3, <3>1, <3>2 DEF Server
  <2>4. CASE UNCHANGED vars
    BY <2>4 DEF IInv, TypeOK, Protocol, Pieces, Serving, Queue, Fresh, Step, Reachable,
         Unanswered, InOrder, vars, mainVars, clientVars, servVars, forgeVars
  <2>5. QED
    BY <2>1, <2>2, <2>3, <2>4 DEF Next
<1>3. QED
  BY <1>1, <1>2 DEF IInv

\* The invariant holds of every behaviour.
THEOREM Invariance == Spec => []IInv
<1>1. Init => IInv
  BY ProtocolInit
<1>2. IInv /\ [Next]_vars => IInv'
  BY ProtocolStep
<1>3. QED
  BY <1>1, <1>2, PTL DEF Spec

\* Every state is well typed: recv() never fills more than a packet of `raw', and
\* nothing is read that was not sent (handle_client).
THEOREM Typing == Spec => []TypeOK
<1>1. IInv => TypeOK
  BY DEF IInv
<1>2. QED
  BY <1>1, Invariance, PTL

\* Once stop() has returned neither the thread nor the descriptor is left.
THEOREM Stopped == Spec => []StoppedIsStopped
<1>1. IInv => StoppedIsStopped
  BY DEF IInv, Stopping
<1>2. QED
  BY <1>1, Invariance, PTL

(***************************************************************************)
(* The registers.                                                          *)
(***************************************************************************)

\* A command that is not acknowledged touches no register, one that is does what
\* its answer says.
LEMMA AckedKept == ASSUME TypeOK, AckedIsApplied, [Next]_vars PROVE AckedIsApplied'
<1>1. UNCHANGED forgeVars \/ HandleSetFreq \/ HandleEnable
  <2>1. CASE UNCHANGED vars \/ SigPipe
    BY <2>1 DEF vars, SigPipe
  <2>2. CASE ServerStep
    BY <2>2 DEF ServerStep, LoopTest, CallAccept, AcceptFails, Accept, ServeTest, Recv,
         RecvEnds, BadMagic, HandleRequest, HandlePing, HandleGetFreq, HandleGetEnabled,
         HandleUnknown, SendResponse, SendToClosed, SendFails, CloseClient
  <2>3. CASE ClientStep
    BY <2>3 DEF ClientStep, Connect, Send, Leave
  <2>4. CASE Main
    BY <2>4 DEF Main, MainStep, Start, Spawn, Exit, StopFlag, Shut, CloseListener, Join
  <2>5. QED
    BY <2>1, <2>2, <2>3, <2>4 DEF Server, Next
<1>2. acked \in [en : {"on", "off", "any"}, freq : Int] /\ en \in BOOLEAN
  BY DEF TypeOK
<1>3. CASE UNCHANGED forgeVars
  BY <1>3 DEF forgeVars, AckedIsApplied
<1>4. CASE HandleSetFreq
  <2>1. en' = en
    BY <1>4 DEF HandleSetFreq
  <2>2. \/ UNCHANGED <<ftw, acked>>
        \/ ftw' = Ftw(Current.arg) /\ acked' = [acked EXCEPT !.freq = 2 * Ftw(Current.arg)]
    BY <1>4 DEF HandleSetFreq
  <2>3. acked'.en = acked.en /\ (UNCHANGED <<ftw, acked>> \/ acked'.freq = 2 * ftw')
    BY <1>2, <2>2
  <2>4. QED
    BY <2>1, <2>3 DEF AckedIsApplied
<1>5. CASE HandleEnable
  <2>1. ftw' = ftw
    BY <1>5 DEF HandleEnable
  <2>2. \/ UNCHANGED <<en, acked>>
        \/ acked' = [acked EXCEPT !.en = "any"]
        \/ en' = TRUE /\ acked' = [acked EXCEPT !.en = "on"]
        \/ en' = FALSE /\ acked' = [acked EXCEPT !.en = "off"]
    BY <1>5 DEF HandleEnable
  <2>3. acked'.freq = acked.freq
    BY <1>2, <2>2
  <2>4. \/ UNCHANGED <<en, acked>>
        \/ acked'.en = "any"
        \/ en' = TRUE /\ acked'.en = "on"
        \/ en' = FALSE /\ acked'.en = "off"
    BY <1>2, <2>2
  <2>5. QED
    BY <2>1, <2>3, <2>4 DEF AckedIsApplied
<1>6. QED
  BY <1>1, <1>3, <1>4, <1>5

\* What a client was told of the registers is what they hold.
THEOREM Applied == Spec => []AckedIsApplied
<1>1. Init => AckedIsApplied
  BY DEF Init, AckedIsApplied
<1>2. TypeOK /\ AckedIsApplied /\ [Next]_vars => AckedIsApplied'
  BY AckedKept
<1>3. QED
  BY <1>1, <1>2, Typing, PTL DEF Spec

\* The protocol as a client sees it: one answer for each request with the magic,
\* in order and with its query_id, none outstanding when the server waits, and
\* the registers as answered (handle_client, handle_request).
THEOREM Answering == Spec => []Answered
<1>1. IInv => InOrder /\ AllAnswered
  <2>1. SUFFICES ASSUME IInv, spc = "recv", peer[conn] = "up", have = 0
                 PROVE  Len(resps[conn]) * Parts = got[conn]
    BY DEF AllAnswered, IInv, Protocol
  <2>2. got[conn] = Parts * Len(resps[conn]) + 0
    BY <2>1 DEF IInv, Protocol, Step, Reachable, Unanswered
  <2>3. PICK k \in Nat : k = Len(resps[conn])
    BY <2>1 DEF IInv, TypeOK, Protocol, Serving, Holding
  <2>4. Parts * k + 0 = k * Parts
    BY BoundsAssumption
  <2>5. QED
    BY <2>2, <2>3, <2>4
<1>2. InOrder /\ AllAnswered /\ AckedIsApplied => Answered
  BY DEF Answered
<1>3. QED
  BY <1>1, <1>2, Invariance, Applied, PTL
=============================================================================
