------------------------------ MODULE OrderEntry ------------------------------
(***************************************************************************)
(* How requests get from the clients to the matching engine and responses  *)
(* back: COrderGateway in each client, a TCP connection, and at the        *)
(* exchange COrderServer with its CTCPServer and CFIFOSequencer.           *)
(*                                                                         *)
(* A request is named by its client and the number it was sent under.  The *)
(* kernel stamps what arrives with a clock that ticks at every arrival.    *)
(* The matching engine is reduced to what matters here: it answers every   *)
(* request, and while doing so may have to tell another client of a fill.  *)
(*                                                                         *)
(* A client's process may start, die and start again, each time with a new *)
(* connection.  The server accepts new connections and never lets go of an *)
(* old one: m_disconnectedSockets is never filled, and m_cidTcpSocket      *)
(* never reset.  What had arrived when a client died can still be read;    *)
(* what is sent to it goes nowhere, and only a flag takes note of that.    *)
(***************************************************************************)
EXTENDS Integers, Sequences, FiniteSets

CONSTANTS Clients,
          Quota,         \* bound on the requests of each client's processes
          MaxDeaths,     \* how many of these processes die
          StableUpTo,    \* std::sort keeps ties in order up to this length
          MayBlock       \* a full socket buffer can make send() fail

ASSUME QuotaAssumption == Quota \in [Clients -> Seq(Nat)]
ASSUME BoundsAssumption == MaxDeaths \in Nat /\ StableUpTo \in Nat
ASSUME BlockAssumption == MayBlock \in BOOLEAN

VARIABLES life,           \* how often each client's process was started
          up,             \* the clients whose process runs
          nextOutgoing,   \* m_nextOutgoingSeqNum of each gateway
          nextExpected,   \* m_nextExpSeqNum of each gateway
          clientBuffer,   \* m_pSendBuffer of each gateway's socket
          toServer,       \* what has arrived at the server, by connection
          clock,          \* the kernel's time
          backlog,        \* the connections that wait to be accepted
          sockets,        \* m_receiveSockets, in the order of accept()
          at,             \* where the order server is in its loop
          passStart,      \* the time of the last Poll: not in the code
          cidExp,         \* m_cidNextExpSeqNum
          cidOutgoing,    \* m_cidNextOutgoingSeqNum
          cidSocket,      \* m_cidTcpSocket
          pending,        \* m_pendingClientRequests
          requests,       \* the queue to the matching engine
          responses,      \* the queue from it
          serverBuffer,   \* m_pSendBuffer of the server's sockets
          toClient,       \* what has arrived at the gateway's socket
          processed       \* the last request the engine took of each client

processVars == <<life, up>>
gatewayVars == <<nextOutgoing, nextExpected, clientBuffer, toClient>>
networkVars == <<toServer, clock, backlog>>
serverVars  == <<at, passStart, sockets, cidExp, cidOutgoing, cidSocket, pending,
                 serverBuffer>>
engineVars  == <<requests, responses, processed>>
vars == <<processVars, gatewayVars, networkVars, serverVars, engineVars>>

\* A connection is named by the process that made it, the client's l-th.
Connections == UNION {{c} \X DOMAIN Quota[c] : c \in Clients}
NoSocket == <<>>
Current(c) == <<c, life[c]>>
Alive(k) == k[1] \in up /\ k = Current(k[1])

\* The steps of the server's loop after Poll: the sockets are read, and two steps
\* follow.
Positions  == 1 .. Len(sockets)
Sequencing == Len(sockets) + 1
Responding == Len(sockets) + 2

Numbers == UNION {1 .. Quota[k[1]][k[2]] : k \in Connections}
MEClientRequest == [client : Clients, life : Nat \ {0}, number : Numbers]
RecvTimeClientRequest == [recvTime : Nat, request : MEClientRequest]

TypeOK ==
    /\ life \in [Clients -> Nat]
    /\ up \subseteq Clients
    /\ nextOutgoing \in [Clients -> Nat \ {0}]
    /\ nextExpected \in [Clients -> Nat]
    /\ clientBuffer \in [Clients -> Seq(Numbers)]
    /\ toServer \in [Connections -> Seq([number : Numbers, time : Nat])]
    /\ clock \in Nat
    /\ backlog \in Seq(Connections)
    /\ sockets \in Seq(Connections)
    /\ at \in Positions \cup {Sequencing, Responding}
    /\ passStart \in Nat
    /\ cidExp \in [Clients -> Nat \ {0}]
    /\ cidOutgoing \in [Clients -> Nat \ {0}]
    /\ cidSocket \in [Clients -> Connections \cup {NoSocket}]
    /\ pending \in Seq(RecvTimeClientRequest)
    /\ requests \in Seq(MEClientRequest)
    /\ responses \in Seq(Clients)
    /\ serverBuffer \in [Connections -> Seq(Nat)]
    /\ toClient \in [Clients -> Seq(Nat)]
    /\ processed \in [Clients -> Numbers \cup {0}]

Init ==
    /\ life = [c \in Clients |-> 0]
    /\ up = {}
    /\ nextOutgoing = [c \in Clients |-> 1]
    /\ nextExpected = [c \in Clients |-> 1]
    /\ clientBuffer = [c \in Clients |-> <<>>]
    /\ toServer = [k \in Connections |-> <<>>]
    /\ clock = 0
    /\ backlog = <<>>
    /\ sockets = <<>>
    /\ at = Responding
    /\ passStart = 0
    /\ cidExp = [c \in Clients |-> 1]
    /\ cidOutgoing = [c \in Clients |-> 1]
    /\ cidSocket = [c \in Clients |-> NoSocket]
    /\ pending = <<>>
    /\ requests = <<>>
    /\ responses = <<>>
    /\ serverBuffer = [k \in Connections |-> <<>>]
    /\ toClient = [c \in Clients |-> <<>>]
    /\ processed = [c \in Clients |-> 0]

-----------------------------------------------------------------------------
(* The client's process.                                                   *)

\* COrderGateway::Start in a new process, whose members are initialized.
Start(c) ==
    /\ c \notin up
    /\ life[c] < Len(Quota[c])
    /\ up' = up \cup {c}
    /\ life' = [life EXCEPT ![c] = @ + 1]
    /\ nextOutgoing' = [nextOutgoing EXCEPT ![c] = 1]
    /\ nextExpected' = [nextExpected EXCEPT ![c] = 1]
    /\ backlog' = Append(backlog, <<c, life[c] + 1>>)
    /\ UNCHANGED <<clientBuffer, toClient, toServer, clock, serverVars, engineVars>>

Dead == {k \in Connections : k[2] <= life[k[1]] /\ ~Alive(k)}

\* The process is gone with its buffers, and with what it has not read.
Die(c) ==
    /\ c \in up
    /\ Cardinality(Dead) < MaxDeaths
    /\ up' = up \ {c}
    /\ clientBuffer' = [clientBuffer EXCEPT ![c] = <<>>]
    /\ toClient' = [toClient EXCEPT ![c] = <<>>]
    /\ UNCHANGED <<life, nextOutgoing, nextExpected, networkVars, serverVars,
                   engineVars>>

-----------------------------------------------------------------------------
(* CTCPSocket::SendAndRecv, the second half: the whole buffer is given to  *)
(* the kernel, or given up if that would block.                            *)

Flushes(buffer) == IF MayBlock THEN {buffer, <<>>} ELSE {buffer}

-----------------------------------------------------------------------------
(* COrderGateway::Run                                                      *)

\* Mutant: the number is counted up before it is sent.
SendRequestAhead(c) ==
    /\ c \in up
    /\ nextOutgoing[c] <= Quota[c][life[c]]
    /\ clientBuffer' = [clientBuffer EXCEPT ![c] = Append(@, nextOutgoing[c] + 1)]
    /\ nextOutgoing' = [nextOutgoing EXCEPT ![c] = @ + 1]
    /\ UNCHANGED <<nextExpected, toClient, processVars, networkVars, serverVars,
                   engineVars>>

\* The trade engine has queued a request: it is put into the send buffer.
SendRequest(c) ==
    /\ c \in up
    /\ nextOutgoing[c] <= Quota[c][life[c]]
    /\ clientBuffer' = [clientBuffer EXCEPT ![c] = Append(@, nextOutgoing[c])]
    /\ nextOutgoing' = [nextOutgoing EXCEPT ![c] = @ + 1]
    /\ UNCHANGED <<nextExpected, toClient, processVars, networkVars, serverVars,
                   engineVars>>

\* What either RecvCallback accepts of the numbers it has read: the others are
\* dropped, and as numbers only grow, all after a gap are.
InSequence(next, run) ==
    {i \in DOMAIN run : \A j \in 1 .. i : run[j] = next + j - 1}

\* m_tcpSocket.SendAndRecv(): RecvCallback passes the responses on, and the send
\* buffer is emptied.
GatewaySendAndRecv(c) ==
    /\ c \in up
    /\ toClient[c] # <<>> \/ clientBuffer[c] # <<>>
    /\ nextExpected' = [nextExpected EXCEPT ![c] =
                           @ + Cardinality(InSequence(@, toClient[c]))]
    /\ toClient' = [toClient EXCEPT ![c] = <<>>]
    /\ \E sent \in Flushes(clientBuffer[c]) :
          /\ clock' = IF sent = <<>> THEN clock ELSE clock + 1
          /\ toServer' = [toServer EXCEPT ![Current(c)] = @ \o
                 [i \in DOMAIN sent |-> [number |-> sent[i], time |-> clock + 1]]]
    /\ clientBuffer' = [clientBuffer EXCEPT ![c] = <<>>]
    /\ UNCHANGED <<nextOutgoing, processVars, backlog, serverVars, engineVars>>

Client(c) == Start(c) \/ Die(c) \/ SendRequest(c) \/ GatewaySendAndRecv(c)

-----------------------------------------------------------------------------
(* COrderServer::Run: m_tcpServer.Poll() accepts connections and           *)
(* SendAndRecv() reads one socket after the other, has the sequencer       *)
(* publish what was read, and the responses go into the send buffers, to   *)
(* be sent when their socket is next looked at.                            *)

\* Mutant: one connection is accepted at a time.
PollOnce ==
    /\ at = Responding
    /\ responses = <<>>
    /\ LET n == IF backlog = <<>> THEN 0 ELSE 1
       IN  /\ sockets' = sockets \o SubSeq(backlog, 1, n)
           /\ backlog' = SubSeq(backlog, n + 1, Len(backlog))
    /\ passStart' = clock
    /\ at' = 1
    /\ UNCHANGED <<processVars, gatewayVars, toServer, clock, cidExp, cidOutgoing,
                   cidSocket, pending, serverBuffer, engineVars>>

\* No response is left and the loop starts again: accept() until no connection is
\* left.  No socket is taken off the list.
Poll ==
    /\ at = Responding
    /\ responses = <<>>
    /\ sockets' = sockets \o backlog
    /\ backlog' = <<>>
    /\ passStart' = clock
    /\ at' = 1
    /\ UNCHANGED <<processVars, gatewayVars, toServer, clock, cidExp, cidOutgoing,
                   cidSocket, pending, serverBuffer, engineVars>>

\* Mutant: the client's last connection is the one that counts.
SocketOfLatest(k, run) == IF run # <<>> THEN k ELSE cidSocket[k[1]]

\* The socket that RecvCallback takes to be the client's while it reads from k.
SocketOf(k, run) ==
    IF cidSocket[k[1]] = NoSocket /\ run # <<>> THEN k ELSE cidSocket[k[1]]

\* What RecvCallback gives to the sequencer, of what was read from connection k
\* while the client's socket is another one or this one: everything read at once
\* has one receive time, the kernel's for the last of it.
Accepted(k, run, socket) ==
    LET c       == k[1]
        numbers == [i \in DOMAIN run |-> run[i].number]
    IN  IF socket # k THEN <<>>
        ELSE [i \in 1 .. Cardinality(InSequence(cidExp[c], numbers)) |->
                 [recvTime |-> run[Len(run)].time,
                  request  |-> [client |-> c, life |-> k[2], number |-> numbers[i]]]]

\* What SendAndRecv leads to at the other end: a dead client's end takes nothing.
Delivered(k, sent) ==
    IF Alive(k)
    THEN [toClient EXCEPT ![k[1]] = @ \o sent]
    ELSE toClient

ReadSocket ==
    /\ at \in Positions
    /\ LET k        == sockets[at]
           run      == toServer[k]
           accepted == Accepted(k, run, SocketOf(k, run))
       IN  /\ cidSocket' = [cidSocket EXCEPT ![k[1]] = SocketOf(k, run)]
           /\ cidExp' = [cidExp EXCEPT ![k[1]] = @ + Len(accepted)]
           /\ pending' = pending \o accepted
           /\ toServer' = [toServer EXCEPT ![k] = <<>>]
           /\ \E sent \in Flushes(serverBuffer[k]) : toClient' = Delivered(k, sent)
           /\ serverBuffer' = [serverBuffer EXCEPT ![k] = <<>>]
    /\ at' = at + 1
    /\ UNCHANGED <<processVars, nextOutgoing, nextExpected, clientBuffer, clock,
                   backlog, passStart, sockets, cidOutgoing, engineVars>>

\* The orders std::sort may leave a sequence in: by receive time, and ties as
\* they were only if the sequence is short.
Sorted(run) ==
    {[i \in DOMAIN run |-> run[f[i]].request] : f \in
        {g \in [DOMAIN run -> DOMAIN run] :
            \A i, j \in DOMAIN run : i < j =>
                /\ g[i] # g[j]
                /\ run[g[i]].recvTime <= run[g[j]].recvTime
                /\ Len(run) <= StableUpTo /\ run[g[i]].recvTime = run[g[j]].recvTime
                       => g[i] < g[j]}}

\* Mutant: the pending requests are not reset.
SequenceAndPublishAgain ==
    /\ at = Sequencing
    /\ \E run \in Sorted(pending) : requests' = requests \o run
    /\ passStart' = 0
    /\ at' = Responding
    /\ UNCHANGED <<processVars, gatewayVars, networkVars, sockets, cidExp,
                   cidOutgoing, cidSocket, pending, serverBuffer, responses,
                   processed>>

\* RecvFinishedCallback
SequenceAndPublish ==
    /\ at = Sequencing
    /\ \E run \in Sorted(pending) : requests' = requests \o run
    /\ pending' = <<>>
    /\ passStart' = 0
    /\ at' = Responding
    /\ UNCHANGED <<processVars, gatewayVars, networkVars, sockets, cidExp,
                   cidOutgoing, cidSocket, serverBuffer, responses, processed>>

\* Mutant: the number is counted up before it is sent.
SendResponseAhead ==
    /\ at = Responding
    /\ responses # <<>>
    /\ LET c == Head(responses)
       IN  /\ cidSocket[c] # NoSocket
           /\ serverBuffer' = [serverBuffer EXCEPT ![cidSocket[c]] =
                                  Append(@, cidOutgoing[c] + 1)]
           /\ cidOutgoing' = [cidOutgoing EXCEPT ![c] = @ + 1]
    /\ responses' = Tail(responses)
    /\ UNCHANGED <<processVars, gatewayVars, networkVars, at, passStart, sockets,
                   cidExp, cidSocket, pending, requests, processed>>

\* A response gets its client's next number, and the ASSERT that the client has a
\* socket would end the exchange: here the server does not get any further.
SendResponse ==
    /\ at = Responding
    /\ responses # <<>>
    /\ LET c == Head(responses)
       IN  /\ cidSocket[c] # NoSocket
           /\ serverBuffer' = [serverBuffer EXCEPT ![cidSocket[c]] =
                                  Append(@, cidOutgoing[c])]
           /\ cidOutgoing' = [cidOutgoing EXCEPT ![c] = @ + 1]
    /\ responses' = Tail(responses)
    /\ UNCHANGED <<processVars, gatewayVars, networkVars, at, passStart, sockets,
                   cidExp, cidSocket, pending, requests, processed>>

OrderServer == \/ Poll
               \/ ReadSocket
               \/ SequenceAndPublish
               \/ SendResponse

-----------------------------------------------------------------------------

\* CMatchingEngine::Run: the oldest request is answered; one of another client's
\* orders may be filled by it.
ProcessClientRequest ==
    /\ requests # <<>>
    /\ LET r      == Head(requests)
           filled == {c \in Clients : processed[c] > 0}
       IN  /\ processed' = [processed EXCEPT ![r.client] = r.number]
           /\ \/ responses' = Append(responses, r.client)
              \/ \E c \in filled \ {r.client} :
                     responses' = responses \o <<r.client, c>>
    /\ requests' = Tail(requests)
    /\ UNCHANGED <<processVars, gatewayVars, networkVars, serverVars>>

Next == \/ \E c \in Clients : Client(c)
        \/ OrderServer
        \/ ProcessClientRequest

Spec == Init /\ [][Next]_vars

\* All of these threads spin, as long as their process lives.
FairSpec == /\ Spec
            /\ \A c \in Clients : WF_vars(GatewaySendAndRecv(c))
            /\ WF_vars(OrderServer)
            /\ WF_vars(ProcessClientRequest)

-----------------------------------------------------------------------------
(* What makes order entry correct.                                         *)

\* The engine gets each client's requests in the order the client sent them, none
\* twice and none left out, whatever is read and sorted together; and all from one
\* of its connections, however often it has come back.
RequestsInOrder ==
    [][ProcessClientRequest =>
          LET r == Head(requests)
          IN  /\ r.number = processed[r.client] + 1
              /\ cidSocket[r.client] = <<r.client, r.life>>]_vars

\* When a pass's requests are sorted, what is left unread at the server has arrived
\* since the pass began: a request is overtaken by later ones of its own pass at
\* most, although the sockets are read one after the other.
OvertakenWithinPass ==
    at = Sequencing =>
        \A k \in Connections : \A i \in DOMAIN toServer[k] :
            toServer[k][i].time > passStart

\* A client that came back under an id for which the server still has the old
\* connection.
Refused(c) == cidSocket[c] \notin {NoSocket, Current(c)}

\* Request number n and all before it have been processed, and every response to
\* the client was accepted as the next one.
Answered(c, n) == /\ processed[c] >= n
                  /\ cidOutgoing[c] > n
                  /\ nextExpected[c] = cidOutgoing[c]

\* Every request is answered, whoever else dies meanwhile, to a client that lives
\* and that the server does not refuse.
EveryRequestAnswered ==
    \A c \in Clients : \A n \in Numbers :
        (c \in up /\ nextOutgoing[c] > n)
            ~> (c \notin up \/ Refused(c) \/ Answered(c, n))

\* "this should never happen since we use a reliable TCP protocol, unless there is
\* a bug at the exchange" (OrderGateway.cpp:72): a gateway never reads a response
\* other than the one it expects.
NoSequenceGap ==
    \A c \in Clients : \A i \in DOMAIN toClient[c] :
        toClient[c][i] = nextExpected[c] + i - 1
=============================================================================
