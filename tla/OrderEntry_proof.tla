--------------------------- MODULE OrderEntry_proof ---------------------------
(***************************************************************************)
(* Order entry keeps requests of different passes apart and responses in   *)
(* sequence, for any number of clients that die and come back, and any     *)
(* number of requests.                                                     *)
(***************************************************************************)
EXTENDS OrderEntry, SequenceTheorems, FiniteSetTheorems, TLAPS

-----------------------------------------------------------------------------
(* Connections and sequences.                                              *)

\* A connection is a client with the number of one of its processes.
LEMMA ConnectionIs ==
    ASSUME NEW k \in Connections
    PROVE  /\ k[1] \in Clients /\ k[2] \in DOMAIN Quota[k[1]]
           /\ k[2] \in Nat \ {0} /\ k[2] <= Len(Quota[k[1]])
           /\ k = <<k[1], k[2]>>
           /\ k # NoSocket
<1>1. PICK c \in Clients : k \in {c} \X DOMAIN Quota[c]
    BY DEF Connections
<1>2. k[1] = c /\ k[2] \in DOMAIN Quota[c] /\ k = <<k[1], k[2]>>
    BY <1>1
<1>3. Quota[c] \in Seq(Nat)
    BY <1>1, QuotaAssumption
<1>4. DOMAIN Quota[c] = 1 .. Len(Quota[c]) /\ Len(Quota[c]) \in Nat
    BY <1>3, LenProperties
<1>5. k # NoSocket
    BY <1>2 DEF NoSocket
<1> QED BY <1>1, <1>2, <1>4, <1>5

\* Every process that may be started has its connection.
LEMMA IsConnection ==
    ASSUME NEW c \in Clients, NEW l \in Nat \ {0}, l <= Len(Quota[c])
    PROVE  /\ <<c, l>> \in Connections
           /\ Quota[c][l] \in Nat
           /\ 1 .. Quota[c][l] \subseteq Numbers
<1>1. Quota[c] \in Seq(Nat)
    BY QuotaAssumption
<1>2. DOMAIN Quota[c] = 1 .. Len(Quota[c]) /\ Len(Quota[c]) \in Nat
    BY <1>1, LenProperties
<1>3. l \in DOMAIN Quota[c]
    BY <1>2
<1>4. <<c, l>> \in Connections
    BY <1>3 DEF Connections
<1>5. 1 .. Quota[<<c, l>>[1]][<<c, l>>[2]] \subseteq Numbers
    BY <1>4 DEF Numbers
<1> QED BY <1>1, <1>2, <1>3, <1>4, <1>5, ElementOfSeq

\* Sequence numbers are positive.
LEMMA NumbersArePositive == Numbers \subseteq Nat \ {0}
<1> SUFFICES ASSUME NEW n \in Numbers PROVE n \in Nat \ {0}
    OBVIOUS
<1>1. PICK k \in Connections : n \in 1 .. Quota[k[1]][k[2]]
    BY DEF Numbers
<1>2. Quota[k[1]][k[2]] \in Nat
    BY ConnectionIs, IsConnection
<1> QED BY <1>1, <1>2

\* What is in the first or the second of two sequences that are put together.
LEMMA Joined ==
    ASSUME NEW S, NEW s \in Seq(S), NEW t \in Seq(S)
    PROVE  /\ s \o t \in Seq(S)
           /\ Len(s \o t) = Len(s) + Len(t)
           /\ \A i \in DOMAIN (s \o t) :
                  \/ i \in DOMAIN s /\ (s \o t)[i] = s[i]
                  \/ i > Len(s) /\ i - Len(s) \in DOMAIN t /\ (s \o t)[i] = t[i - Len(s)]
           /\ \A i \in DOMAIN s : i \in DOMAIN (s \o t) /\ (s \o t)[i] = s[i]
           /\ \A i \in DOMAIN t : i + Len(s) \in DOMAIN (s \o t)
                                  /\ (s \o t)[i + Len(s)] = t[i]
<1>1. /\ Len(s) \in Nat /\ Len(t) \in Nat
      /\ DOMAIN s = 1 .. Len(s) /\ DOMAIN t = 1 .. Len(t)
    BY LenProperties
<1>2. /\ s \o t \in Seq(S)
      /\ Len(s \o t) = Len(s) + Len(t)
      /\ \A i \in 1 .. Len(s) + Len(t) :
             (s \o t)[i] = IF i <= Len(s) THEN s[i] ELSE t[i - Len(s)]
    BY ConcatProperties
<1>3. DOMAIN (s \o t) = 1 .. Len(s) + Len(t)
    BY <1>2, LenProperties
<1>4. ASSUME NEW i \in DOMAIN (s \o t)
      PROVE  \/ i \in DOMAIN s /\ (s \o t)[i] = s[i]
             \/ i > Len(s) /\ i - Len(s) \in DOMAIN t /\ (s \o t)[i] = t[i - Len(s)]
    BY <1>1, <1>2, <1>3
<1>5. ASSUME NEW i \in DOMAIN s
      PROVE  i \in DOMAIN (s \o t) /\ (s \o t)[i] = s[i]
    BY <1>1, <1>2, <1>3
<1>6. ASSUME NEW i \in DOMAIN t
      PROVE  i + Len(s) \in DOMAIN (s \o t) /\ (s \o t)[i + Len(s)] = t[i]
    <2>1. i + Len(s) \in 1 .. Len(s) + Len(t) /\ ~(i + Len(s) <= Len(s))
        BY <1>1
    <2>2. (i + Len(s)) - Len(s) = i
        BY <1>1
    <2> QED BY <1>2, <1>3, <2>1, <2>2
<1> QED BY <1>2, <1>4, <1>5, <1>6

\* The same, with a name for the whole.
Joins(S, s, t, r) ==
    /\ r \in Seq(S)
    /\ Len(r) = Len(s) + Len(t)
    /\ \A i \in DOMAIN r :
           \/ i \in DOMAIN s /\ r[i] = s[i]
           \/ i > Len(s) /\ i - Len(s) \in DOMAIN t /\ r[i] = t[i - Len(s)]
    /\ \A i \in DOMAIN s : i \in DOMAIN r /\ r[i] = s[i]
    /\ \A i \in DOMAIN t : i + Len(s) \in DOMAIN r /\ r[i + Len(s)] = t[i]

\* Putting together joins.
LEMMA Joining ==
    ASSUME NEW S, NEW s \in Seq(S), NEW t \in Seq(S)
    PROVE  Joins(S, s, t, s \o t)
BY Joined DEF Joins

\* A function on the first n numbers is a sequence.
LEMMA IsSequence ==
    ASSUME NEW S, NEW n \in Nat, NEW f \in [1 .. n -> S]
    PROVE  f \in Seq(S) /\ Len(f) = n
<1>1. f \in Seq(S)
    BY SeqDef
<1>2. DOMAIN f = 1 .. n
    OBVIOUS
<1> QED BY <1>1, <1>2, LenProperties

\* How many numbers a RecvCallback accepts: no more than it has read, and all of a run
\* that begins with the number it expects and has no gap.
LEMMA HowManyAccepted ==
    ASSUME NEW S, NEW run \in Seq(S), NEW next
    PROVE  /\ InSequence(next, run) \subseteq DOMAIN run
           /\ Cardinality(InSequence(next, run)) \in 0 .. Len(run)
           /\ (\A i \in DOMAIN run : run[i] = next + i - 1) =>
                  Cardinality(InSequence(next, run)) = Len(run)
<1>1. Len(run) \in Nat /\ DOMAIN run = 1 .. Len(run)
    BY LenProperties
<1>2. IsFiniteSet(DOMAIN run) /\ Cardinality(DOMAIN run) = Len(run)
    <2> DEFINE n == Len(run)
    <2>1. DOMAIN run = 1 .. n /\ n \in Nat /\ n \in Int /\ 1 \in Int
        BY <1>1
    <2> HIDE DEF n
    <2>2. IsFiniteSet(1 .. n) /\ Cardinality(1 .. n) = IF 1 > n THEN 0 ELSE n - 1 + 1
        BY <2>1, FS_Interval
    <2>3. IsFiniteSet(DOMAIN run) /\ Cardinality(DOMAIN run) = n
        BY <2>1, <2>2
    <2> QED BY <2>3 DEF n
<1>3. InSequence(next, run) \subseteq DOMAIN run
    BY DEF InSequence
<1>4. /\ Cardinality(InSequence(next, run)) <= Len(run)
      /\ IsFiniteSet(InSequence(next, run))
    BY <1>2, <1>3, FS_Subset
<1>5. Cardinality(InSequence(next, run)) \in Nat
    BY <1>4, FS_CardinalityType
<1>6. ASSUME \A i \in DOMAIN run : run[i] = next + i - 1
      PROVE  InSequence(next, run) = DOMAIN run
    BY <1>1, <1>6 DEF InSequence
<1> QED BY <1>1, <1>2, <1>3, <1>4, <1>5, <1>6

\* What the sequencer is given of a connection's run.
LEMMA AcceptedIs ==
    ASSUME NEW k \in Connections,
           NEW run \in Seq([number : Numbers, time : Nat]), NEW socket
    PROVE  /\ Accepted(k, run, socket) \in Seq(RecvTimeClientRequest)
           /\ Len(Accepted(k, run, socket)) \in Nat
           /\ socket # k => Accepted(k, run, socket) = <<>>
           /\ \A i \in DOMAIN Accepted(k, run, socket) :
                  /\ i \in DOMAIN run
                  /\ Accepted(k, run, socket)[i] =
                         [recvTime |-> run[Len(run)].time,
                          request  |-> [client |-> k[1], life |-> k[2],
                                        number |-> run[i].number]]
<1> DEFINE numbers == [i \in DOMAIN run |-> run[i].number]
           n == Cardinality(InSequence(cidExp[k[1]], numbers))
           one(i) == [recvTime |-> run[Len(run)].time,
                      request  |-> [client |-> k[1], life |-> k[2], number |-> run[i].number]]
           accepted == [i \in 1 .. n |->
                           [recvTime |-> run[Len(run)].time,
                            request  |-> [client |-> k[1], life |-> k[2],
                                          number |-> numbers[i]]]]
<1>1. Accepted(k, run, socket) = IF socket # k THEN <<>> ELSE accepted
    BY DEF Accepted
<1>2. Len(run) \in Nat /\ DOMAIN run = 1 .. Len(run)
    BY LenProperties
<1>3. \A i \in DOMAIN run : run[i] \in [number : Numbers, time : Nat]
    BY <1>2, ElementOfSeq
<1>4. numbers \in Seq(Numbers) /\ Len(numbers) = Len(run)
    BY <1>2, <1>3
<1>5. n \in Nat /\ n <= Len(run)
    <2> HIDE DEF numbers
    <2>1. Cardinality(InSequence(cidExp[k[1]], numbers)) \in 0 .. Len(numbers)
        BY <1>4, HowManyAccepted
    <2> QED BY <1>2, <1>4, <2>1
<1> HIDE DEF n
<1>6. \A i \in 1 .. n : i \in DOMAIN run /\ numbers[i] = run[i].number
    BY <1>2, <1>5
<1>7. \A i \in 1 .. n : /\ accepted[i] = one(i)
                         /\ one(i) \in RecvTimeClientRequest
    <2> SUFFICES ASSUME NEW i \in 1 .. n
        PROVE  accepted[i] = one(i) /\ one(i) \in RecvTimeClientRequest
        OBVIOUS
    <2>1. Len(run) \in DOMAIN run /\ i \in DOMAIN run
        BY <1>2, <1>5, <1>6
    <2>2. run[Len(run)].time \in Nat /\ run[i].number \in Numbers
        BY <1>3, <2>1
    <2>3. k[1] \in Clients /\ k[2] \in Nat \ {0}
        BY ConnectionIs
    <2> QED BY <1>6, <2>2, <2>3 DEF RecvTimeClientRequest, MEClientRequest
<1>8. accepted \in Seq(RecvTimeClientRequest) /\ Len(accepted) = n /\ DOMAIN accepted = 1 .. n
    <2>1. accepted \in [1 .. n -> RecvTimeClientRequest]
        BY <1>7
    <2>2. DOMAIN accepted = 1 .. n
        OBVIOUS
    <2> HIDE DEF accepted
    <2> QED BY <1>5, <2>1, <2>2, IsSequence
<1> HIDE DEF accepted, one, numbers
<1>9. <<>> \in Seq(RecvTimeClientRequest) /\ Len(<<>>) = 0 /\ DOMAIN <<>> = {}
    BY EmptySeq
<1>10. CASE socket # k
    BY <1>1, <1>9, <1>10
<1>11. CASE socket = k
    <2>1. Accepted(k, run, socket) = accepted
        BY <1>1, <1>11
    <2>2. \A i \in 1 .. n : i \in DOMAIN run /\ accepted[i] = one(i)
        BY <1>6, <1>7
    <2> QED BY <1>5, <1>8, <1>11, <2>1, <2>2 DEF one
<1> QED BY <1>10, <1>11

\* What a sequencer's pass leaves in the queue of requests.
LEMMA SortedIs ==
    ASSUME NEW run \in Seq(RecvTimeClientRequest), NEW q \in Sorted(run)
    PROVE  /\ q \in Seq(MEClientRequest)
           /\ Len(q) = Len(run)
           /\ \E f \in [DOMAIN run -> DOMAIN run] :
                  /\ \A i \in DOMAIN run : q[i] = run[f[i]].request
                  /\ \A i, j \in DOMAIN run : i < j =>
                        /\ f[i] # f[j]
                        /\ run[f[i]].recvTime <= run[f[j]].recvTime
                        /\ Len(run) <= StableUpTo /\ run[f[i]].recvTime = run[f[j]].recvTime
                               => f[i] < f[j]
<1>1. PICK f \in [DOMAIN run -> DOMAIN run] :
          /\ q = [i \in DOMAIN run |-> run[f[i]].request]
          /\ \A i, j \in DOMAIN run : i < j =>
                /\ f[i] # f[j]
                /\ run[f[i]].recvTime <= run[f[j]].recvTime
                /\ Len(run) <= StableUpTo /\ run[f[i]].recvTime = run[f[j]].recvTime
                       => f[i] < f[j]
    BY DEF Sorted
<1>2. Len(run) \in Nat /\ DOMAIN run = 1 .. Len(run)
    BY LenProperties
<1>3. \A i \in DOMAIN run : run[f[i]].request \in MEClientRequest
    <2> SUFFICES ASSUME NEW i \in DOMAIN run PROVE run[f[i]].request \in MEClientRequest
        OBVIOUS
    <2>1. f[i] \in 1 .. Len(run)
        BY <1>1, <1>2
    <2>2. run[f[i]] \in RecvTimeClientRequest
        BY <2>1, ElementOfSeq
    <2> QED BY <2>2 DEF RecvTimeClientRequest
<1>4. q \in Seq(MEClientRequest) /\ Len(q) = Len(run)
    BY <1>1, <1>2, <1>3
<1> QED BY <1>1, <1>4

-----------------------------------------------------------------------------
(* Types, and what is known of connections.                                *)

\* The server has connection k, or will when it accepts next.
Listed(k) == \/ \E i \in DOMAIN backlog : backlog[i] = k
             \/ \E i \in DOMAIN sockets : sockets[i] = k

\* Every connection in use was made by a process that was started, and the server has it
\* or will.
ConnectionsKnown ==
    /\ \A c \in Clients : life[c] <= Len(Quota[c])
    /\ \A c \in up : life[c] # 0 /\ Listed(Current(c))
    /\ \A i \in DOMAIN backlog : backlog[i][2] <= life[backlog[i][1]]
    /\ \A i \in DOMAIN sockets : sockets[i][2] <= life[sockets[i][1]]
    /\ \A c \in Clients : cidSocket[c] # NoSocket =>
           cidSocket[c][1] = c /\ cidSocket[c][2] <= life[c]
    /\ \A k \in Connections : toServer[k] # <<>> => Listed(k)

Wellformed == TypeOK /\ ConnectionsKnown

\* A step that neither makes nor accepts a connection.
LEMMA KnownStays ==
    ASSUME ConnectionsKnown, up' \subseteq up,
           UNCHANGED <<life, backlog, sockets, cidSocket>>,
           \A k \in Connections : toServer'[k] # <<>> => Listed(k)
    PROVE  ConnectionsKnown'
<1>1. \A k : Listed(k)' = Listed(k)
    BY DEF Listed
<1>2. \A c : Current(c)' = Current(c)
    BY DEF Current
<1> QED BY <1>1, <1>2 DEF ConnectionsKnown

\* A running client's connection.
LEMMA CurrentIs ==
    ASSUME Wellformed, NEW c \in up
    PROVE  /\ c \in Clients
           /\ life[c] \in Nat \ {0}
           /\ Current(c) \in Connections
           /\ Current(c)[1] = c /\ Current(c)[2] = life[c]
           /\ Alive(Current(c))
           /\ Quota[c][life[c]] \in Nat
           /\ 1 .. Quota[c][life[c]] \subseteq Numbers
<1>1. c \in Clients /\ life[c] \in Nat \ {0} /\ life[c] <= Len(Quota[c])
    BY DEF Wellformed, TypeOK, ConnectionsKnown
<1>2. Current(c)[1] = c /\ Current(c)[2] = life[c]
    BY DEF Current
<1> QED BY <1>1, <1>2, IsConnection DEF Current, Alive

\* The first state.
LEMMA InitWellformed == Init => Wellformed
<1> SUFFICES ASSUME Init PROVE Wellformed
    OBVIOUS
<1>1. \A S : <<>> \in Seq(S)
    BY EmptySeq
<1>2. TypeOK
    <2>1. at \in Positions \cup {Sequencing, Responding}
        BY DEF Init
    <2> QED BY <1>1, <2>1 DEF Init, TypeOK, NoSocket
<1>3. \A c \in Clients : Len(Quota[c]) \in Nat
    BY QuotaAssumption, LenProperties
<1>4. ConnectionsKnown
    BY <1>3 DEF Init, ConnectionsKnown, NoSocket
<1> QED BY <1>2, <1>4 DEF Wellformed

\* A client's process starts.
LEMMA StartWellformed ==
    ASSUME Wellformed, NEW c \in Clients, Start(c)
    PROVE  Wellformed'
<1> DEFINE k == <<c, life[c] + 1>>
<1>1. TypeOK /\ ConnectionsKnown
    BY DEF Wellformed
<1>2. /\ life[c] \in Nat /\ life[c] < Len(Quota[c]) /\ Len(Quota[c]) \in Nat
      /\ life[c] + 1 <= Len(Quota[c])
    <2>1. Len(Quota[c]) \in Nat
        BY QuotaAssumption, LenProperties
    <2>2. life[c] \in Nat
        BY <1>1 DEF TypeOK
    <2>3. life[c] < Len(Quota[c])
        BY DEF Start
    <2> QED BY <2>1, <2>2, <2>3
<1>3. k \in Connections /\ k[1] = c /\ k[2] = life[c] + 1
    BY <1>2, IsConnection
<1> HIDE DEF k
<1>4. /\ backlog' = Append(backlog, k) /\ backlog \in Seq(Connections)
      /\ sockets' = sockets /\ cidSocket' = cidSocket /\ toServer' = toServer
      /\ up' = up \cup {c} /\ life' = [life EXCEPT ![c] = @ + 1]
    BY <1>1 DEF Start, TypeOK, serverVars, k
<1>5. /\ life' \in [Clients -> Nat] /\ life'[c] = life[c] + 1
      /\ \A d \in Clients : d # c => life'[d] = life[d]
      /\ \A d \in Clients : life[d] \in Nat /\ life'[d] \in Nat /\ life[d] <= life'[d]
    <2>1. life \in [Clients -> Nat]
        BY <1>1 DEF TypeOK
    <2>2. /\ life' \in [Clients -> Nat] /\ life'[c] = life[c] + 1
          /\ \A d \in Clients : d # c => life'[d] = life[d]
        BY <1>2, <1>4, <2>1
    <2>3. ASSUME NEW d \in Clients
          PROVE  life[d] \in Nat /\ life'[d] \in Nat /\ life[d] <= life'[d]
        <3>1. life[d] \in Nat
            BY <2>1
        <3>2. CASE d = c
            BY <2>2, <3>1, <3>2
        <3>3. CASE d # c
            BY <2>2, <3>1, <3>3
        <3> QED BY <3>2, <3>3
    <2> QED BY <2>2, <2>3
<1>6. /\ backlog' \in Seq(Connections)
      /\ \A i \in DOMAIN backlog : i \in DOMAIN backlog' /\ backlog'[i] = backlog[i]
      /\ \A i \in DOMAIN backlog' : i \in DOMAIN backlog \/ backlog'[i] = k
      /\ \E i \in DOMAIN backlog' : backlog'[i] = k
    <2>1. DOMAIN backlog = 1 .. Len(backlog) /\ Len(backlog) \in Nat
        BY <1>4, LenProperties
    <2>2. /\ Append(backlog, k) \in Seq(Connections)
          /\ Len(Append(backlog, k)) = Len(backlog) + 1
          /\ \A i \in 1 .. Len(backlog) : Append(backlog, k)[i] = backlog[i]
          /\ Append(backlog, k)[Len(backlog) + 1] = k
        BY <1>3, <1>4, AppendProperties
    <2>3. DOMAIN backlog' = 1 .. Len(backlog) + 1
        BY <1>4, <2>2, LenProperties
    <2> QED BY <1>4, <2>1, <2>2, <2>3
<1>7. TypeOK'
    <2>1. /\ nextOutgoing' \in [Clients -> Nat \ {0}]
          /\ nextExpected' \in [Clients -> Nat]
          /\ up' \subseteq Clients
        <3>1. /\ nextOutgoing \in [Clients -> Nat \ {0}]
              /\ nextExpected \in [Clients -> Nat]
              /\ up \subseteq Clients
            BY <1>1 DEF TypeOK
        <3>2. /\ nextOutgoing' = [nextOutgoing EXCEPT ![c] = 1]
              /\ nextExpected' = [nextExpected EXCEPT ![c] = 1]
              /\ up' = up \cup {c}
            BY DEF Start
        <3> QED BY <3>1, <3>2
    <2> QED BY <1>1, <1>4, <1>5, <1>6, <2>1
            DEF Start, TypeOK, serverVars, engineVars, Positions, Sequencing, Responding
<1>8. \A j : Listed(j) => Listed(j)'
    BY <1>4, <1>6 DEF Listed
<1>9. ConnectionsKnown'
    <2>1. \A d \in Clients : life'[d] <= Len(Quota[d])
        BY <1>1, <1>2, <1>5 DEF ConnectionsKnown
    <2>2. ASSUME NEW d \in up' PROVE life'[d] # 0 /\ Listed(Current(d))'
        <3>1. CASE d = c
            <4>1. Current(d)' = k
                BY <1>5, <3>1 DEF Current, k
            <4> QED BY <1>2, <1>5, <1>6, <3>1, <4>1 DEF Listed
        <3>2. CASE d # c
            <4>1. d \in up /\ d \in Clients
                BY <1>1, <1>4, <3>2 DEF TypeOK
            <4>2. Current(d)' = Current(d)
                BY <1>5, <3>2, <4>1 DEF Current
            <4> QED BY <1>1, <1>5, <1>8, <3>2, <4>1, <4>2 DEF ConnectionsKnown
        <3> QED BY <3>1, <3>2
    <2>3. \A i \in DOMAIN backlog' : backlog'[i][2] <= life'[backlog'[i][1]]
        <3> SUFFICES ASSUME NEW i \in DOMAIN backlog'
            PROVE  backlog'[i][2] <= life'[backlog'[i][1]]
            OBVIOUS
        <3>1. CASE backlog'[i] = k
            BY <1>2, <1>3, <1>5, <3>1
        <3>2. CASE i \in DOMAIN backlog /\ backlog'[i] = backlog[i]
            <4>1. backlog[i] \in Connections
                BY <1>4, <3>2, LenProperties, ElementOfSeq
            <4>2. backlog[i][1] \in Clients /\ backlog[i][2] \in Nat
                BY <4>1, ConnectionIs
            <4>3. backlog[i][2] <= life[backlog[i][1]]
                BY <1>1, <3>2 DEF ConnectionsKnown
            <4> QED BY <1>5, <3>2, <4>2, <4>3
        <3> QED BY <1>6, <3>1, <3>2
    <2>4. \A i \in DOMAIN sockets' : sockets'[i][2] <= life'[sockets'[i][1]]
        <3> SUFFICES ASSUME NEW i \in DOMAIN sockets
            PROVE  sockets[i][2] <= life'[sockets[i][1]]
            BY <1>4
        <3>1. sockets[i] \in Connections
            BY <1>1, LenProperties, ElementOfSeq DEF TypeOK
        <3>2. sockets[i][1] \in Clients /\ sockets[i][2] \in Nat
            BY <3>1, ConnectionIs
        <3>3. sockets[i][2] <= life[sockets[i][1]]
            BY <1>1 DEF ConnectionsKnown
        <3> QED BY <1>5, <3>2, <3>3
    <2>5. \A d \in Clients : cidSocket'[d] # NoSocket =>
              cidSocket'[d][1] = d /\ cidSocket'[d][2] <= life'[d]
        <3> SUFFICES ASSUME NEW d \in Clients, cidSocket[d] # NoSocket
            PROVE  cidSocket[d][1] = d /\ cidSocket[d][2] <= life'[d]
            BY <1>4
        <3>1. cidSocket[d] \in Connections
            BY <1>1 DEF TypeOK
        <3>2. cidSocket[d][2] \in Nat
            BY <3>1, ConnectionIs
        <3>3. cidSocket[d][1] = d /\ cidSocket[d][2] <= life[d]
            BY <1>1 DEF ConnectionsKnown
        <3> QED BY <1>5, <3>2, <3>3
    <2>6. \A j \in Connections : toServer'[j] # <<>> => Listed(j)'
        BY <1>1, <1>4, <1>8 DEF ConnectionsKnown
    <2> QED BY <2>1, <2>2, <2>3, <2>4, <2>5, <2>6 DEF ConnectionsKnown
<1> QED BY <1>7, <1>9 DEF Wellformed

\* A client's process dies.
LEMMA DieWellformed ==
    ASSUME Wellformed, NEW c \in Clients, Die(c)
    PROVE  Wellformed'
<1>1. TypeOK'
    <2>1. \A S : <<>> \in Seq(S)
        BY EmptySeq
    <2>2. /\ clientBuffer' \in [Clients -> Seq(Numbers)]
          /\ toClient' \in [Clients -> Seq(Nat)]
        BY <2>1 DEF Wellformed, TypeOK, Die
    <2> QED BY <2>2 DEF Wellformed, TypeOK, Die, networkVars, serverVars, engineVars, Positions,
                   Sequencing, Responding
<1>2. ConnectionsKnown'
    BY KnownStays DEF Wellformed, ConnectionsKnown, Die, networkVars, serverVars
<1> QED BY <1>1, <1>2 DEF Wellformed

\* A request is put into the send buffer.
LEMMA SendRequestWellformed ==
    ASSUME Wellformed, NEW c \in Clients, SendRequest(c)
    PROVE  Wellformed'
<1>1. nextOutgoing[c] \in Numbers /\ nextOutgoing[c] \in Nat \ {0}
    <2>1. c \in up /\ nextOutgoing[c] \in Nat \ {0} /\ nextOutgoing[c] <= Quota[c][life[c]]
        BY DEF Wellformed, TypeOK, SendRequest
    <2>2. Quota[c][life[c]] \in Nat /\ 1 .. Quota[c][life[c]] \subseteq Numbers
        BY <2>1, CurrentIs
    <2>3. nextOutgoing[c] \in 1 .. Quota[c][life[c]]
        BY <2>1, <2>2
    <2> QED BY <2>1, <2>2, <2>3
<1>2. clientBuffer' \in [Clients -> Seq(Numbers)]
    <2>1. clientBuffer \in [Clients -> Seq(Numbers)]
        BY DEF Wellformed, TypeOK
    <2>2. Append(clientBuffer[c], nextOutgoing[c]) \in Seq(Numbers)
        BY <1>1, <2>1, AppendProperties
    <2> QED BY <2>1, <2>2 DEF SendRequest
<1>3. nextOutgoing' \in [Clients -> Nat \ {0}]
    <2>1. nextOutgoing \in [Clients -> Nat \ {0}]
        BY DEF Wellformed, TypeOK
    <2> QED BY <1>1, <2>1 DEF SendRequest
<1>4. TypeOK'
    BY <1>2, <1>3 DEF Wellformed, TypeOK, SendRequest, processVars, networkVars, serverVars,
                      engineVars, Positions, Sequencing, Responding
<1>5. ConnectionsKnown'
    BY KnownStays
    DEF Wellformed, ConnectionsKnown, SendRequest, processVars, networkVars, serverVars
<1> QED BY <1>4, <1>5 DEF Wellformed

\* What GatewaySendAndRecv(c) does to c's connection.
LEMMA GatewayIs ==
    ASSUME Wellformed, NEW c \in Clients, GatewaySendAndRecv(c)
    PROVE  \E sent \in Seq([number : Numbers, time : Nat]) :
               /\ toServer' = [toServer EXCEPT ![Current(c)] = @ \o sent]
               /\ \A i \in DOMAIN sent : sent[i].time = clock + 1
               /\ clock' = IF DOMAIN sent = {} THEN clock ELSE clock + 1
               /\ clock' \in {clock, clock + 1}
<1>1. PICK numbers \in Flushes(clientBuffer[c]) :
          /\ clock' = IF numbers = <<>> THEN clock ELSE clock + 1
          /\ toServer' = [toServer EXCEPT ![Current(c)] = @ \o
                 [i \in DOMAIN numbers |-> [number |-> numbers[i], time |-> clock + 1]]]
    BY DEF GatewaySendAndRecv
<1> DEFINE sent == [i \in DOMAIN numbers |-> [number |-> numbers[i], time |-> clock + 1]]
<1>2. numbers \in Seq(Numbers)
    <2>1. clientBuffer[c] \in Seq(Numbers) /\ <<>> \in Seq(Numbers)
        BY EmptySeq DEF Wellformed, TypeOK
    <2> QED BY <2>1 DEF Flushes
<1>3. clock + 1 \in Nat
    BY DEF Wellformed, TypeOK
<1>4. DOMAIN numbers = 1 .. Len(numbers) /\ Len(numbers) \in Nat
    BY <1>2, LenProperties
<1>5. sent \in Seq([number : Numbers, time : Nat])
    <2>1. \A i \in DOMAIN numbers : numbers[i] \in Numbers
        BY <1>2, <1>4, ElementOfSeq
    <2>2. sent \in [1 .. Len(numbers) -> [number : Numbers, time : Nat]]
        BY <1>3, <1>4, <2>1
    <2> HIDE DEF sent
    <2> QED BY <1>4, <2>2, IsSequence
<1>6. DOMAIN sent = DOMAIN numbers
    OBVIOUS
<1>7. DOMAIN sent = {} <=> numbers = <<>>
    <2>1. numbers # <<>> => 1 \in DOMAIN numbers
        BY <1>2, <1>4, EmptySeq
    <2> QED BY <1>6, <2>1
<1>8. \A i \in DOMAIN sent : sent[i].time = clock + 1
    OBVIOUS
<1>9. toServer' = [toServer EXCEPT ![Current(c)] = @ \o sent]
    BY <1>1
<1> HIDE DEF sent
<1> QED BY <1>1, <1>5, <1>7, <1>8, <1>9

\* A gateway sends and receives.
LEMMA GatewayWellformed ==
    ASSUME Wellformed, NEW c \in Clients, GatewaySendAndRecv(c)
    PROVE  Wellformed'
<1> DEFINE k == Current(c)
<1>1. c \in up /\ k \in Connections
    BY CurrentIs DEF GatewaySendAndRecv
<1>2. PICK sent \in Seq([number : Numbers, time : Nat]) :
          /\ toServer' = [toServer EXCEPT ![k] = @ \o sent]
          /\ clock' \in {clock, clock + 1}
    BY GatewayIs
<1> HIDE DEF k
<1>3. toServer' \in [Connections -> Seq([number : Numbers, time : Nat])]
    <2>1. toServer \in [Connections -> Seq([number : Numbers, time : Nat])]
        BY DEF Wellformed, TypeOK
    <2>2. toServer[k] \o sent \in Seq([number : Numbers, time : Nat])
        BY <1>1, <2>1, ConcatProperties
    <2> QED BY <1>2, <2>1, <2>2
<1>4. nextExpected' \in [Clients -> Nat]
    <2>1. nextExpected \in [Clients -> Nat] /\ toClient[c] \in Seq(Nat)
        BY DEF Wellformed, TypeOK
    <2>2. Cardinality(InSequence(nextExpected[c], toClient[c])) \in 0 .. Len(toClient[c])
        BY <2>1, HowManyAccepted
    <2>3. Cardinality(InSequence(nextExpected[c], toClient[c])) \in Nat
        BY <2>1, <2>2, LenProperties
    <2>4. nextExpected' = [nextExpected EXCEPT ![c] =
                               @ + Cardinality(InSequence(@, toClient[c]))]
        BY DEF GatewaySendAndRecv
    <2> QED BY <2>1, <2>3, <2>4
<1>5. /\ clientBuffer' \in [Clients -> Seq(Numbers)]
      /\ toClient' \in [Clients -> Seq(Nat)]
    <2>1. \A S : <<>> \in Seq(S)
        BY EmptySeq
    <2> QED BY <2>1 DEF Wellformed, TypeOK, GatewaySendAndRecv
<1>6. clock' \in Nat
    <2>1. clock \in Nat
        BY DEF Wellformed, TypeOK
    <2> QED BY <1>2, <2>1
<1>7. TypeOK'
    BY <1>3, <1>4, <1>5, <1>6
    DEF Wellformed, TypeOK, GatewaySendAndRecv, processVars, serverVars, engineVars, Positions,
        Sequencing, Responding
<1>8. \A j \in Connections : toServer'[j] # <<>> => Listed(j)
    <2> SUFFICES ASSUME NEW j \in Connections, toServer'[j] # <<>> PROVE Listed(j)
        OBVIOUS
    <2>1. CASE j = k
        BY <1>1, <2>1 DEF Wellformed, ConnectionsKnown, k
    <2>2. CASE j # k
        <3>1. toServer'[j] = toServer[j]
            BY <1>2, <2>2 DEF Wellformed, TypeOK
        <3> QED BY <3>1 DEF Wellformed, ConnectionsKnown
    <2> QED BY <2>1, <2>2
<1>9. ConnectionsKnown'
    BY <1>8, KnownStays DEF Wellformed, GatewaySendAndRecv, processVars, serverVars
<1> QED BY <1>7, <1>9 DEF Wellformed

\* What Poll does to the list of sockets.
LEMMA PollIs ==
    ASSUME Wellformed, Poll
    PROVE  /\ sockets' \in Seq(Connections)
           /\ \A i \in DOMAIN sockets : i \in DOMAIN sockets' /\ sockets'[i] = sockets[i]
           /\ \A i \in DOMAIN backlog : \E j \in DOMAIN sockets' : sockets'[j] = backlog[i]
           /\ \A j \in DOMAIN sockets' : \/ \E i \in DOMAIN sockets : sockets'[j] = sockets[i]
                                         \/ \E i \in DOMAIN backlog : sockets'[j] = backlog[i]
           /\ backlog' = <<>> /\ backlog' \in Seq(Connections) /\ DOMAIN backlog' = {}
           /\ DOMAIN sockets' = 1 .. Len(sockets') /\ Len(sockets') \in Nat
<1>1. sockets' = sockets \o backlog /\ backlog' = <<>>
    BY DEF Poll
<1>2. sockets \in Seq(Connections) /\ backlog \in Seq(Connections)
    BY DEF Wellformed, TypeOK
<1>3. backlog' \in Seq(Connections) /\ DOMAIN backlog' = {}
    BY <1>1, EmptySeq
<1>4. /\ sockets' \in Seq(Connections)
      /\ \A i \in DOMAIN sockets : i \in DOMAIN sockets' /\ sockets'[i] = sockets[i]
      /\ \A i \in DOMAIN backlog : \E j \in DOMAIN sockets' : sockets'[j] = backlog[i]
    <2>1. \A i \in DOMAIN backlog : /\ i + Len(sockets) \in DOMAIN (sockets \o backlog)
                                    /\ (sockets \o backlog)[i + Len(sockets)] = backlog[i]
        BY <1>2, Joined
    <2>2. /\ sockets \o backlog \in Seq(Connections)
          /\ \A i \in DOMAIN sockets : /\ i \in DOMAIN (sockets \o backlog)
                                       /\ (sockets \o backlog)[i] = sockets[i]
        BY <1>2, Joined
    <2> QED BY <1>1, <2>1, <2>2
<1>5. ASSUME NEW j \in DOMAIN sockets'
      PROVE  \/ \E i \in DOMAIN sockets : sockets'[j] = sockets[i]
             \/ \E i \in DOMAIN backlog : sockets'[j] = backlog[i]
    <2>1. \/ j \in DOMAIN sockets /\ sockets'[j] = sockets[j]
          \/ /\ j - Len(sockets) \in DOMAIN backlog
             /\ sockets'[j] = backlog[j - Len(sockets)]
        <3>1. j \in DOMAIN (sockets \o backlog)
            BY <1>1
        <3> QED BY <1>1, <1>2, <3>1, Joined
    <2> QED BY <2>1
<1> QED BY <1>1, <1>3, <1>4, <1>5, LenProperties

\* Connections are accepted.
LEMMA PollWellformed ==
    ASSUME Wellformed, Poll
    PROVE  Wellformed'
<1>1. TypeOK'
    <2>1. at' \in Positions' \cup {Sequencing', Responding'}
        <3>1. at' = 1 /\ Len(sockets') \in Nat
            BY PollIs DEF Poll
        <3>2. 1 \in 1 .. Len(sockets') \/ 1 = Len(sockets') + 1
            BY <3>1
        <3> QED BY <3>1, <3>2 DEF Positions, Sequencing
    <2> QED BY <2>1, PollIs DEF Wellformed, TypeOK, Poll, processVars, gatewayVars, engineVars
<1>2. \A k : Listed(k)' <=> Listed(k)
    <2>1. ASSUME NEW k, Listed(k) PROVE Listed(k)'
        BY <2>1, PollIs DEF Listed
    <2>2. ASSUME NEW k, Listed(k)' PROVE Listed(k)
        BY <2>2, PollIs DEF Listed
    <2> QED BY <2>1, <2>2
<1>3. ConnectionsKnown'
    <2>1. UNCHANGED <<life, up, cidSocket, toServer>>
        BY DEF Poll, processVars
    <2>2. \A i \in DOMAIN sockets' : sockets'[i][2] <= life[sockets'[i][1]]
        BY PollIs DEF Wellformed, ConnectionsKnown
    <2>3. \A i \in DOMAIN backlog' : backlog'[i][2] <= life[backlog'[i][1]]
        BY PollIs
    <2>4. \A c : Current(c)' = Current(c)
        BY <2>1 DEF Current
    <2> QED BY <1>2, <2>1, <2>2, <2>3, <2>4 DEF Wellformed, ConnectionsKnown
<1> QED BY <1>1, <1>3 DEF Wellformed

\* What is read of a socket.
LEMMA ReadSocketIs ==
    ASSUME Wellformed, ReadSocket
    PROVE  \E k \in Connections, accepted \in Seq(RecvTimeClientRequest) :
               /\ at \in Positions /\ k = sockets[at] /\ at' = at + 1
               /\ at' \in Positions \cup {Sequencing}
               /\ k[1] \in Clients /\ k[2] <= life[k[1]]
               /\ cidSocket' = [cidSocket EXCEPT ![k[1]] = SocketOf(k, toServer[k])]
               /\ SocketOf(k, toServer[k]) \in Connections \cup {NoSocket}
               /\ SocketOf(k, toServer[k]) \in {k, cidSocket[k[1]]}
               /\ accepted = Accepted(k, toServer[k], SocketOf(k, toServer[k]))
               /\ Len(accepted) \in Nat
               /\ cidExp' = [cidExp EXCEPT ![k[1]] = @ + Len(accepted)]
               /\ pending' = pending \o accepted
               /\ toServer' = [toServer EXCEPT ![k] = <<>>]
               /\ \E sent \in Flushes(serverBuffer[k]) : toClient' = Delivered(k, sent)
               /\ serverBuffer' = [serverBuffer EXCEPT ![k] = <<>>]
               /\ UNCHANGED <<life, up, nextOutgoing, nextExpected, clientBuffer, clock, backlog,
                              passStart, sockets, cidOutgoing, requests, responses,
                              processed>>
<1> DEFINE k == sockets[at]
           socket == SocketOf(k, toServer[k])
           accepted == Accepted(k, toServer[k], socket)
<1>1. at \in Positions /\ at \in 1 .. Len(sockets) /\ sockets \in Seq(Connections)
    BY DEF Wellformed, TypeOK, ReadSocket, Positions
<1>2. Len(sockets) \in Nat /\ DOMAIN sockets = 1 .. Len(sockets)
    BY <1>1, LenProperties
<1>3. k \in Connections
    BY <1>1, ElementOfSeq
<1>4. k[1] \in Clients
    BY <1>3, ConnectionIs
<1>5. k[2] <= life[k[1]]
    BY <1>1, <1>2 DEF Wellformed, ConnectionsKnown
<1>6. toServer[k] \in Seq([number : Numbers, time : Nat])
    BY <1>3 DEF Wellformed, TypeOK
<1>7. accepted \in Seq(RecvTimeClientRequest) /\ Len(accepted) \in Nat
    BY <1>3, <1>6, AcceptedIs
<1>8. socket \in {k, cidSocket[k[1]]} /\ socket \in Connections \cup {NoSocket}
    <2>1. cidSocket[k[1]] \in Connections \cup {NoSocket}
        BY <1>4 DEF Wellformed, TypeOK
    <2> QED BY <1>3, <2>1 DEF SocketOf
<1>9. at + 1 \in Positions \cup {Sequencing}
    BY <1>1, <1>2 DEF Positions, Sequencing
<1>10. /\ cidSocket' = [cidSocket EXCEPT ![k[1]] = socket]
       /\ cidExp' = [cidExp EXCEPT ![k[1]] = @ + Len(accepted)]
       /\ pending' = pending \o accepted
       /\ toServer' = [toServer EXCEPT ![k] = <<>>]
       /\ \E sent \in Flushes(serverBuffer[k]) : toClient' = Delivered(k, sent)
       /\ serverBuffer' = [serverBuffer EXCEPT ![k] = <<>>]
       /\ at' = at + 1
    BY DEF ReadSocket
<1>11. UNCHANGED <<life, up, nextOutgoing, nextExpected, clientBuffer, clock, backlog,
                   passStart, sockets, cidOutgoing, requests, responses, processed>>
    BY DEF ReadSocket, processVars, engineVars
<1> QED BY <1>1, <1>3, <1>4, <1>5, <1>7, <1>8, <1>9, <1>10, <1>11

\* A socket is read.
LEMMA ReadSocketWellformed ==
    ASSUME Wellformed, ReadSocket
    PROVE  Wellformed'
<1>1. PICK k \in Connections, accepted \in Seq(RecvTimeClientRequest) :
          /\ at' = at + 1
          /\ at' \in Positions \cup {Sequencing}
          /\ k[1] \in Clients /\ k[2] <= life[k[1]]
          /\ cidSocket' = [cidSocket EXCEPT ![k[1]] = SocketOf(k, toServer[k])]
          /\ SocketOf(k, toServer[k]) \in {k, cidSocket[k[1]]}
          /\ Len(accepted) \in Nat
          /\ cidExp' = [cidExp EXCEPT ![k[1]] = @ + Len(accepted)]
          /\ pending' = pending \o accepted
          /\ toServer' = [toServer EXCEPT ![k] = <<>>]
          /\ \E sent \in Flushes(serverBuffer[k]) : toClient' = Delivered(k, sent)
          /\ serverBuffer' = [serverBuffer EXCEPT ![k] = <<>>]
          /\ UNCHANGED <<life, up, nextOutgoing, nextExpected, clientBuffer, clock, backlog,
                         passStart, sockets, cidOutgoing, requests, responses, processed>>
    BY ReadSocketIs
<1>2. TypeOK /\ ConnectionsKnown
    BY DEF Wellformed
<1>3. \A S : <<>> \in Seq(S)
    BY EmptySeq
<1> DEFINE socket == SocketOf(k, toServer[k])
<1> HIDE DEF socket
<1>4. cidSocket' \in [Clients -> Connections \cup {NoSocket}]
    BY <1>1, <1>2 DEF TypeOK
<1>5. cidExp' \in [Clients -> Nat \ {0}]
    <2>1. cidExp \in [Clients -> Nat \ {0}]
        BY <1>2 DEF TypeOK
    <2>2. cidExp[k[1]] + Len(accepted) \in Nat \ {0}
        BY <1>1, <2>1
    <2> QED BY <1>1, <2>1, <2>2
<1>6. pending' \in Seq(RecvTimeClientRequest)
    BY <1>1, <1>2, ConcatProperties DEF TypeOK
<1>7. /\ toServer' \in [Connections -> Seq([number : Numbers, time : Nat])]
      /\ serverBuffer' \in [Connections -> Seq(Nat)]
    BY <1>1, <1>2, <1>3 DEF TypeOK
<1>8. toClient' \in [Clients -> Seq(Nat)]
    <2>1. PICK sent \in Flushes(serverBuffer[k]) : toClient' = Delivered(k, sent)
        BY <1>1
    <2>2. sent \in Seq(Nat)
        <3>1. serverBuffer[k] \in Seq(Nat) /\ <<>> \in Seq(Nat)
            BY <1>2, <1>3 DEF TypeOK
        <3> QED BY <2>1, <3>1 DEF Flushes
    <2>3. toClient \in [Clients -> Seq(Nat)] /\ toClient[k[1]] \o sent \in Seq(Nat)
        BY <1>1, <1>2, <2>2, ConcatProperties DEF TypeOK
    <2> QED BY <1>1, <2>1, <2>3 DEF Delivered
<1>9. at' \in Positions' \cup {Sequencing', Responding'}
    BY <1>1 DEF Positions, Sequencing
<1>10. TypeOK'
    BY <1>1, <1>2, <1>4, <1>5, <1>6, <1>7, <1>8, <1>9 DEF TypeOK
<1>11. ConnectionsKnown'
    <2>1. \A j : Listed(j)' = Listed(j) /\ Current(j)' = Current(j)
        BY <1>1 DEF Listed, Current
    <2>2. \A c \in Clients : cidSocket'[c] # NoSocket =>
              cidSocket'[c][1] = c /\ cidSocket'[c][2] <= life[c]
        <3> SUFFICES ASSUME NEW c \in Clients, cidSocket'[c] # NoSocket
            PROVE  cidSocket'[c][1] = c /\ cidSocket'[c][2] <= life[c]
            OBVIOUS
        <3>1. \/ cidSocket'[c] = cidSocket[c]
              \/ c = k[1] /\ cidSocket'[c] = k
            BY <1>1, <1>2 DEF TypeOK
        <3> QED BY <1>1, <1>2, <3>1 DEF ConnectionsKnown
    <2>3. \A j \in Connections : toServer'[j] # <<>> => toServer[j] # <<>>
        BY <1>1, <1>2 DEF TypeOK
    <2> QED BY <1>1, <1>2, <2>1, <2>2, <2>3 DEF ConnectionsKnown
<1> QED BY <1>10, <1>11 DEF Wellformed

\* The requests of a pass are published.
LEMMA SequenceWellformed ==
    ASSUME Wellformed, SequenceAndPublish
    PROVE  Wellformed'
<1>1. PICK run \in Sorted(pending) : requests' = requests \o run
    BY DEF SequenceAndPublish
<1>2. requests' \in Seq(MEClientRequest)
    <2>1. pending \in Seq(RecvTimeClientRequest) /\ requests \in Seq(MEClientRequest)
        BY DEF Wellformed, TypeOK
    <2>2. run \in Seq(MEClientRequest)
        BY <2>1, SortedIs
    <2> QED BY <1>1, <2>1, <2>2, ConcatProperties
<1>3. pending' \in Seq(RecvTimeClientRequest)
    BY EmptySeq DEF SequenceAndPublish
<1>4. TypeOK'
    BY <1>2, <1>3
    DEF Wellformed, TypeOK, SequenceAndPublish, processVars, gatewayVars, networkVars, Positions,
        Sequencing, Responding
<1>5. ConnectionsKnown'
    BY KnownStays DEF Wellformed, ConnectionsKnown, SequenceAndPublish, processVars, networkVars
<1> QED BY <1>4, <1>5 DEF Wellformed

\* What SendResponse does, to client c.
LEMMA SendResponseIs ==
    ASSUME Wellformed, SendResponse
    PROVE  \E c \in Clients :
               /\ responses # <<>> /\ c = Head(responses)
               /\ cidSocket[c] \in Connections /\ cidSocket[c][1] = c
               /\ serverBuffer' = [serverBuffer EXCEPT ![cidSocket[c]] =
                                      Append(@, cidOutgoing[c])]
               /\ cidOutgoing' = [cidOutgoing EXCEPT ![c] = @ + 1]
               /\ responses' = Tail(responses) /\ responses' \in Seq(Clients)
<1> DEFINE c == Head(responses)
<1>1. /\ responses # <<>> /\ cidSocket[c] # NoSocket
      /\ serverBuffer' = [serverBuffer EXCEPT ![cidSocket[c]] = Append(@, cidOutgoing[c])]
      /\ cidOutgoing' = [cidOutgoing EXCEPT ![c] = @ + 1]
      /\ responses' = Tail(responses)
    BY DEF SendResponse
<1>2. c \in Clients /\ Tail(responses) \in Seq(Clients)
    BY <1>1, HeadTailProperties DEF Wellformed, TypeOK
<1>3. cidSocket[c] \in Connections /\ cidSocket[c][1] = c
    BY <1>1, <1>2 DEF Wellformed, TypeOK, ConnectionsKnown
<1> QED BY <1>1, <1>2, <1>3

\* A response is put into a send buffer.
LEMMA SendResponseWellformed ==
    ASSUME Wellformed, SendResponse
    PROVE  Wellformed'
<1>1. PICK c \in Clients :
          /\ cidSocket[c] \in Connections
          /\ serverBuffer' = [serverBuffer EXCEPT ![cidSocket[c]] = Append(@, cidOutgoing[c])]
          /\ cidOutgoing' = [cidOutgoing EXCEPT ![c] = @ + 1]
          /\ responses' \in Seq(Clients)
    BY SendResponseIs
<1>2. serverBuffer' \in [Connections -> Seq(Nat)] /\ cidOutgoing' \in [Clients -> Nat \ {0}]
    <2>1. /\ serverBuffer \in [Connections -> Seq(Nat)]
          /\ cidOutgoing \in [Clients -> Nat \ {0}]
        BY DEF Wellformed, TypeOK
    <2>2. Append(serverBuffer[cidSocket[c]], cidOutgoing[c]) \in Seq(Nat)
        BY <1>1, <2>1, AppendProperties
    <2>3. cidOutgoing[c] + 1 \in Nat \ {0}
        BY <2>1
    <2> QED BY <1>1, <2>1, <2>2, <2>3
<1>3. TypeOK'
    BY <1>1, <1>2
    DEF Wellformed, TypeOK, SendResponse, processVars, gatewayVars, networkVars, Positions,
        Sequencing, Responding
<1>4. ConnectionsKnown'
    BY KnownStays DEF Wellformed, ConnectionsKnown, SendResponse, processVars, networkVars
<1> QED BY <1>3, <1>4 DEF Wellformed

\* The engine takes a request.
LEMMA ProcessWellformed ==
    ASSUME Wellformed, ProcessClientRequest
    PROVE  Wellformed'
<1> DEFINE r == Head(requests)
<1>1. requests \in Seq(MEClientRequest) /\ responses \in Seq(Clients) /\ requests # <<>>
    BY DEF Wellformed, TypeOK, ProcessClientRequest
<1>2. r \in MEClientRequest /\ requests' \in Seq(MEClientRequest)
    BY <1>1, HeadTailProperties DEF ProcessClientRequest
<1>3. r.client \in Clients /\ r.number \in Numbers
    BY <1>2 DEF MEClientRequest
<1>4. responses' \in Seq(Clients)
    <2>1. \/ responses' = Append(responses, r.client)
          \/ \E c \in Clients : responses' = responses \o <<r.client, c>>
        BY DEF ProcessClientRequest
    <2>2. Append(responses, r.client) \in Seq(Clients)
        BY <1>1, <1>3, AppendProperties
    <2>3. ASSUME NEW c \in Clients PROVE responses \o <<r.client, c>> \in Seq(Clients)
        <3>1. <<r.client, c>> \in Seq(Clients)
            BY <1>3
        <3> QED BY <1>1, <3>1, ConcatProperties
    <2> QED BY <2>1, <2>2, <2>3
<1>5. processed' \in [Clients -> Numbers \cup {0}]
    BY <1>3 DEF Wellformed, TypeOK, ProcessClientRequest
<1>6. TypeOK'
    BY <1>2, <1>4, <1>5
    DEF Wellformed, TypeOK, ProcessClientRequest, processVars, gatewayVars, networkVars,
        serverVars, Positions, Sequencing, Responding
<1>7. ConnectionsKnown'
    BY KnownStays
    DEF Wellformed, ConnectionsKnown, ProcessClientRequest, processVars, networkVars, serverVars
<1> QED BY <1>6, <1>7 DEF Wellformed

\* Every step.
LEMMA StepWellformed == Wellformed /\ [Next]_vars => Wellformed'
<1> SUFFICES ASSUME Wellformed, [Next]_vars PROVE Wellformed'
    OBVIOUS
<1>1. CASE UNCHANGED vars
    <2>1. TypeOK'
        BY <1>1 DEF Wellformed, TypeOK, vars, processVars, gatewayVars, networkVars, serverVars,
                    engineVars, Positions, Sequencing, Responding
    <2>2. ConnectionsKnown'
        BY <1>1, KnownStays
        DEF Wellformed, ConnectionsKnown, vars, processVars, networkVars, serverVars
    <2> QED BY <2>1, <2>2 DEF Wellformed
<1> QED BY <1>1, StartWellformed, DieWellformed, SendRequestWellformed, GatewayWellformed,
           PollWellformed, ReadSocketWellformed, SequenceWellformed, SendResponseWellformed,
           ProcessWellformed DEF Next, Client, OrderServer

-----------------------------------------------------------------------------
(* What is left unread when a pass is sorted.                              *)

\* During a pass, a connection is still to be read, or whatever waits there has come
\* since the pass began.
PassInv ==
    /\ passStart <= clock
    /\ at # Responding =>
           \A k \in Connections :
               \/ \E i \in DOMAIN sockets : at <= i /\ sockets[i] = k
               \/ \A i \in DOMAIN toServer[k] : toServer[k][i].time > passStart

\* A request that arrives during a pass has come since the pass began.
LEMMA GatewayPass ==
    ASSUME Wellformed, PassInv, NEW c \in Clients, GatewaySendAndRecv(c)
    PROVE  PassInv'
<1>1. PICK sent \in Seq([number : Numbers, time : Nat]) :
          /\ toServer' = [toServer EXCEPT ![Current(c)] = @ \o sent]
          /\ \A i \in DOMAIN sent : sent[i].time = clock + 1
          /\ clock' \in {clock, clock + 1}
    BY GatewayIs
<1>2. Current(c) \in Connections
    BY CurrentIs DEF GatewaySendAndRecv
<1>3. clock \in Nat /\ passStart \in Nat /\ passStart <= clock
    BY DEF Wellformed, TypeOK, PassInv
<1>4. UNCHANGED <<at, passStart, sockets>>
    BY DEF GatewaySendAndRecv, serverVars
<1>5. passStart' <= clock'
    BY <1>1, <1>3, <1>4
<1>6. ASSUME at # Responding, NEW k \in Connections
      PROVE  \/ \E i \in DOMAIN sockets : at <= i /\ sockets[i] = k
             \/ \A i \in DOMAIN toServer'[k] : toServer'[k][i].time > passStart
    <2>1. toServer \in [Connections -> Seq([number : Numbers, time : Nat])]
        BY DEF Wellformed, TypeOK
    <2>2. \/ \E i \in DOMAIN sockets : at <= i /\ sockets[i] = k
          \/ \A i \in DOMAIN toServer[k] : toServer[k][i].time > passStart
        BY <1>6 DEF PassInv
    <2>3. CASE k # Current(c)
        BY <1>1, <2>1, <2>2, <2>3
    <2>4. CASE k = Current(c) /\ \A i \in DOMAIN toServer[k] : toServer[k][i].time > passStart
        <3>1. toServer'[k] = toServer[k] \o sent
            BY <1>1, <1>2, <2>1, <2>4
        <3>2. \A i \in DOMAIN (toServer[k] \o sent) :
                  \/ i \in DOMAIN toServer[k] /\ (toServer[k] \o sent)[i] = toServer[k][i]
                  \/ /\ i - Len(toServer[k]) \in DOMAIN sent
                     /\ (toServer[k] \o sent)[i] = sent[i - Len(toServer[k])]
            BY <2>1, Joined
        <3>3. \A i \in DOMAIN sent : sent[i].time > passStart
            BY <1>1, <1>3
        <3> QED BY <2>4, <3>1, <3>2, <3>3
    <2> QED BY <2>2, <2>3, <2>4
<1> QED BY <1>4, <1>5, <1>6 DEF PassInv, Responding

\* A pass begins with every connection that has sent anything still to be read.
LEMMA PollPass ==
    ASSUME Wellformed, PassInv, Poll
    PROVE  PassInv'
<1>1. at' = 1 /\ passStart' = clock /\ UNCHANGED <<clock, toServer>>
    BY DEF Poll
<1>2. ASSUME NEW k \in Connections
      PROVE  \/ \E i \in DOMAIN sockets' : 1 <= i /\ sockets'[i] = k
             \/ toServer[k] = <<>>
    <2>1. CASE Listed(k)
        <3>1. \E i \in DOMAIN sockets' : sockets'[i] = k
            BY <2>1, PollIs DEF Listed
        <3>2. \A i \in DOMAIN sockets' : 1 <= i
            BY PollIs
        <3> QED BY <3>1, <3>2
    <2>2. CASE ~Listed(k)
        BY <2>2 DEF Wellformed, ConnectionsKnown
    <2> QED BY <2>1, <2>2
<1>3. clock <= clock
    BY DEF Wellformed, TypeOK
<1> QED BY <1>1, <1>2, <1>3 DEF PassInv

\* A socket that was read has nothing left.
LEMMA ReadSocketPass ==
    ASSUME Wellformed, PassInv, ReadSocket
    PROVE  PassInv'
<1>1. PICK k \in Connections :
          /\ at \in Positions /\ k = sockets[at] /\ at' = at + 1
          /\ toServer' = [toServer EXCEPT ![k] = <<>>]
          /\ UNCHANGED <<clock, passStart, sockets>>
    BY ReadSocketIs
<1>2. /\ sockets \in Seq(Connections)
      /\ toServer \in [Connections -> Seq([number : Numbers, time : Nat])]
    BY DEF Wellformed, TypeOK
<1>3. /\ DOMAIN sockets = 1 .. Len(sockets) /\ Len(sockets) \in Nat
      /\ at \in 1 .. Len(sockets) /\ at # Responding
    <2>1. DOMAIN sockets = 1 .. Len(sockets) /\ Len(sockets) \in Nat
        BY <1>2, LenProperties
    <2> QED BY <1>1, <2>1 DEF Positions, Responding
<1>4. ASSUME NEW j \in Connections
      PROVE  \/ \E i \in DOMAIN sockets : at + 1 <= i /\ sockets[i] = j
             \/ \A i \in DOMAIN toServer'[j] : toServer'[j][i].time > passStart
    <2>1. CASE j = k
        BY <1>1, <1>2, <2>1
    <2>2. CASE j # k /\ \E i \in DOMAIN sockets : at <= i /\ sockets[i] = j
        <3>1. PICK i \in DOMAIN sockets : at <= i /\ sockets[i] = j
            BY <2>2
        <3>2. i # at
            BY <1>1, <2>2, <3>1
        <3> QED BY <1>3, <3>1, <3>2
    <2>3. CASE j # k /\ \A i \in DOMAIN toServer[j] : toServer[j][i].time > passStart
        BY <1>1, <1>2, <2>3
    <2> QED BY <1>3, <2>1, <2>2, <2>3 DEF PassInv
<1> QED BY <1>1, <1>4 DEF PassInv

\* Every step keeps it.
LEMMA StepPass == Wellformed /\ PassInv /\ [Next]_vars => PassInv'
<1> SUFFICES ASSUME Wellformed, PassInv, [Next]_vars PROVE PassInv'
    OBVIOUS
<1>1. CASE UNCHANGED <<at, passStart, sockets, clock, toServer>>
    BY <1>1 DEF PassInv, Responding
<1>2. CASE SequenceAndPublish
    <2>1. passStart' = 0 /\ at' = Responding' /\ clock' = clock /\ clock \in Nat
        BY <1>2 DEF SequenceAndPublish, networkVars, Responding, Wellformed, TypeOK
    <2> QED BY <2>1 DEF PassInv
<1>3. ASSUME NEW c \in Clients, Start(c) \/ Die(c) \/ SendRequest(c)
      PROVE  PassInv'
    BY <1>1, <1>3 DEF Start, Die, SendRequest, networkVars, serverVars
<1>4. CASE SendResponse \/ ProcessClientRequest \/ UNCHANGED vars
    BY <1>1, <1>4 DEF SendResponse, ProcessClientRequest, networkVars, serverVars, vars
<1> QED BY <1>2, <1>3, <1>4, GatewayPass, PollPass, ReadSocketPass
        DEF Next, Client, OrderServer

\* A request is overtaken at most by requests of its own pass: what is unread when a pass
\* is sorted has arrived since that pass began, however connections come and go.
THEOREM OnlyThePassOvertakes == Spec => []OvertakenWithinPass
<1>1. Init => Wellformed /\ PassInv
    <2>1. Init => PassInv
        BY DEF Init, PassInv
    <2> QED BY <2>1, InitWellformed
<1>2. Wellformed /\ PassInv => OvertakenWithinPass
    <2> SUFFICES ASSUME Wellformed, PassInv, at = Sequencing, NEW k \in Connections,
                        NEW i \in DOMAIN toServer[k]
        PROVE  toServer[k][i].time > passStart
        BY DEF OvertakenWithinPass
    <2>1. DOMAIN sockets = 1 .. Len(sockets) /\ Len(sockets) \in Nat
        BY LenProperties DEF Wellformed, TypeOK
    <2>2. at # Responding /\ ~\E j \in DOMAIN sockets : at <= j /\ sockets[j] = k
        BY <2>1 DEF Sequencing, Responding
    <2> QED BY <2>2 DEF PassInv
<1> QED BY <1>1, <1>2, StepWellformed, StepPass, PTL DEF Spec

\* The variables of clients, network, server and engine keep to their types.
THEOREM TypeCorrect == Spec => []TypeOK
<1>1. Wellformed => TypeOK
    BY DEF Wellformed
<1> QED BY <1>1, InitWellformed, StepWellformed, PTL DEF Spec

-----------------------------------------------------------------------------
(* Responses in sequence.                                                  *)

\* What the client has to read and what waits for it at the server goes on from the
\* number the gateway expects to the one the server gives next.
InStep(c) ==
    LET buffer == serverBuffer[Current(c)]
    IN  /\ \A i \in DOMAIN toClient[c] : toClient[c][i] = nextExpected[c] + i - 1
        /\ \A i \in DOMAIN buffer : buffer[i] = nextExpected[c] + Len(toClient[c]) + i - 1
        /\ cidOutgoing[c] = nextExpected[c] + Len(toClient[c]) + Len(buffer)

\* Responses go to the client's first connection only: to a process that has another
\* one nothing was ever sent.
SequenceInv ==
    /\ \A k \in Connections : serverBuffer[k] # <<>> => cidSocket[k[1]] = k
    /\ \A c \in Clients : cidSocket[c] = NoSocket => cidOutgoing[c] = 1
    /\ \A c \in Clients : c \notin up => toClient[c] = <<>>
    /\ \A c \in up : IF cidSocket[c] = Current(c)
                     THEN InStep(c)
                     ELSE toClient[c] = <<>> /\ nextExpected[c] = 1

\* A client's process starts with a connection that is not the one the server has.
LEMMA StartSequence ==
    ASSUME Wellformed, SequenceInv, NEW c \in Clients, Start(c)
    PROVE  SequenceInv'
<1>1. /\ c \notin up /\ up' = up \cup {c}
      /\ life' = [life EXCEPT ![c] = @ + 1]
      /\ nextExpected' = [nextExpected EXCEPT ![c] = 1]
      /\ UNCHANGED <<toClient, cidSocket, cidOutgoing, serverBuffer>>
    BY DEF Start, serverVars
<1>2. life \in [Clients -> Nat] /\ nextExpected \in [Clients -> Nat] /\ up \subseteq Clients
    BY DEF Wellformed, TypeOK
<1>3. ASSUME NEW d \in up, d # c
      PROVE  /\ Current(d)' = Current(d) /\ nextExpected'[d] = nextExpected[d]
             /\ IF cidSocket[d] = Current(d) THEN InStep(d)'
                ELSE toClient[d] = <<>> /\ nextExpected[d] = 1
    <2>1. Current(d)' = Current(d) /\ nextExpected'[d] = nextExpected[d]
        BY <1>1, <1>2, <1>3 DEF Current
    <2>2. InStep(d) => InStep(d)'
        BY <1>1, <2>1 DEF InStep
    <2> QED BY <2>1, <2>2 DEF SequenceInv
<1>4. /\ cidSocket[c] # Current(c)'
      /\ toClient[c] = <<>> /\ nextExpected'[c] = 1
    <2>1. Current(c)'[2] = life[c] + 1
        BY <1>1, <1>2 DEF Current
    <2>2. Current(c)' # NoSocket
        BY DEF Current, NoSocket
    <2>3. cidSocket[c] # NoSocket => cidSocket[c] \in Connections /\ cidSocket[c][2] <= life[c]
        BY DEF Wellformed, TypeOK, ConnectionsKnown
    <2>4. life[c] \in Nat /\ (cidSocket[c] # NoSocket => cidSocket[c][2] \in Nat)
        BY <1>2, <2>3, ConnectionIs
    <2>5. cidSocket[c] # Current(c)'
        BY <2>1, <2>2, <2>3, <2>4
    <2> QED BY <1>1, <1>2, <2>5 DEF SequenceInv
<1> QED BY <1>1, <1>3, <1>4 DEF SequenceInv

\* A client's process dies.
LEMMA DieSequence ==
    ASSUME Wellformed, SequenceInv, NEW c \in Clients, Die(c)
    PROVE  SequenceInv'
<1>1. /\ up' = up \ {c}
      /\ toClient' = [toClient EXCEPT ![c] = <<>>]
      /\ UNCHANGED <<life, nextExpected, cidSocket, cidOutgoing, serverBuffer>>
    BY DEF Die, serverVars
<1>2. toClient \in [Clients -> Seq(Nat)] /\ up \subseteq Clients
    BY DEF Wellformed, TypeOK
<1>3. ASSUME NEW d \in up, d # c
      PROVE  /\ Current(d)' = Current(d) /\ toClient'[d] = toClient[d]
             /\ InStep(d) => InStep(d)'
    <2>1. Current(d)' = Current(d) /\ toClient'[d] = toClient[d]
        BY <1>1, <1>2, <1>3 DEF Current
    <2> QED BY <1>1, <2>1 DEF InStep
<1>4. \A d \in Clients : d \notin up' => toClient'[d] = <<>>
    BY <1>1, <1>2 DEF SequenceInv
<1> QED BY <1>1, <1>3, <1>4 DEF SequenceInv

\* A gateway accepts everything it reads.
LEMMA GatewaySequence ==
    ASSUME Wellformed, SequenceInv, NEW c \in Clients, GatewaySendAndRecv(c)
    PROVE  SequenceInv'
<1> DEFINE n == Cardinality(InSequence(nextExpected[c], toClient[c]))
<1>1. /\ c \in up
      /\ nextExpected' = [nextExpected EXCEPT ![c] = nextExpected[c] + n]
      /\ toClient' = [toClient EXCEPT ![c] = <<>>]
      /\ UNCHANGED <<life, up, cidSocket, cidOutgoing, serverBuffer>>
    BY DEF GatewaySendAndRecv, processVars, serverVars
<1>2. /\ toClient \in [Clients -> Seq(Nat)] /\ up \subseteq Clients
      /\ nextExpected \in [Clients -> Nat]
      /\ serverBuffer \in [Connections -> Seq(Nat)]
    BY DEF Wellformed, TypeOK
<1>3. /\ toClient[c] \in Seq(Nat) /\ Len(toClient[c]) \in Nat
      /\ (\A i \in DOMAIN toClient[c] : toClient[c][i] = nextExpected[c] + i - 1) =>
             n = Len(toClient[c])
    BY <1>2, HowManyAccepted, LenProperties
<1> HIDE DEF n
<1>4. \A d : Current(d)' = Current(d)
    BY <1>1 DEF Current
<1>5. ASSUME NEW d \in up, d # c
      PROVE  /\ toClient'[d] = toClient[d] /\ nextExpected'[d] = nextExpected[d]
             /\ InStep(d) => InStep(d)'
    <2>1. toClient'[d] = toClient[d] /\ nextExpected'[d] = nextExpected[d]
        BY <1>1, <1>2, <1>5
    <2> QED BY <1>1, <1>4, <2>1 DEF InStep
<1>6. toClient'[c] = <<>> /\ nextExpected'[c] = nextExpected[c] + n
    BY <1>1, <1>2
<1>7. Len(<<>>) = 0 /\ DOMAIN <<>> = {}
    OBVIOUS
<1>8. CASE cidSocket[c] = Current(c)
    <2>1. InStep(c)
        BY <1>1, <1>8 DEF SequenceInv
    <2>2. n = Len(toClient[c]) /\ nextExpected[c] \in Nat
        BY <1>2, <1>3, <2>1 DEF InStep
    <2>3. InStep(c)'
        BY <1>1, <1>3, <1>4, <1>6, <1>7, <2>1, <2>2 DEF InStep
    <2> QED BY <1>1, <1>2, <1>4, <1>5, <1>8, <2>3 DEF SequenceInv
<1>9. CASE cidSocket[c] # Current(c)
    <2>1. toClient[c] = <<>> /\ nextExpected[c] = 1
        BY <1>1, <1>9 DEF SequenceInv
    <2>2. n = 0
        BY <1>3, <1>7, <2>1
    <2>3. nextExpected'[c] = 1
        BY <1>6, <2>1, <2>2
    <2> QED BY <1>1, <1>2, <1>4, <1>5, <1>6, <1>9, <2>3 DEF SequenceInv
<1> QED BY <1>8, <1>9

\* What is in a send buffer is sent, if its socket never blocks; and a first request makes
\* a connection the client's while nothing was sent yet.
LEMMA ReadSocketSequence ==
    ASSUME ~MayBlock, Wellformed, SequenceInv, ReadSocket
    PROVE  SequenceInv'
<1>1. PICK k \in Connections :
          /\ k[1] \in Clients
          /\ cidSocket' = [cidSocket EXCEPT ![k[1]] = SocketOf(k, toServer[k])]
          /\ \E sent \in Flushes(serverBuffer[k]) : toClient' = Delivered(k, sent)
          /\ serverBuffer' = [serverBuffer EXCEPT ![k] = <<>>]
          /\ UNCHANGED <<life, up, nextExpected, cidOutgoing>>
    BY ReadSocketIs
<1> DEFINE c == k[1]
           buffer == serverBuffer[k]
<1>2. /\ toClient \in [Clients -> Seq(Nat)] /\ up \subseteq Clients
      /\ nextExpected \in [Clients -> Nat]
      /\ cidSocket \in [Clients -> Connections \cup {NoSocket}]
      /\ serverBuffer \in [Connections -> Seq(Nat)]
    BY DEF Wellformed, TypeOK
<1>3. toClient' = IF Alive(k) THEN [toClient EXCEPT ![c] = @ \o buffer] ELSE toClient
    BY <1>1 DEF Flushes, Delivered
<1>4. /\ cidSocket'[c] = SocketOf(k, toServer[k])
      /\ cidSocket'[c] \in {k, cidSocket[c]}
      /\ cidSocket'[c] # cidSocket[c] => cidSocket[c] = NoSocket /\ cidSocket'[c] = k
      /\ \A d \in Clients : d # c => cidSocket'[d] = cidSocket[d]
    <2>1. /\ cidSocket'[c] = SocketOf(k, toServer[k])
          /\ \A d \in Clients : d # c => cidSocket'[d] = cidSocket[d]
        BY <1>1, <1>2
    <2> QED BY <2>1 DEF SocketOf
<1>5. /\ serverBuffer'[k] = <<>>
      /\ \A j \in Connections : j # k => serverBuffer'[j] = serverBuffer[j]
    BY <1>1, <1>2
<1>6. \A d : Current(d)' = Current(d)
    BY <1>1 DEF Current
<1>7. k # NoSocket
    BY ConnectionIs
<1>8. buffer # <<>> => cidSocket[c] = k
    BY DEF SequenceInv
<1>9. \A j \in Connections : serverBuffer'[j] # <<>> => cidSocket'[j[1]] = j
    <2> SUFFICES ASSUME NEW j \in Connections, serverBuffer'[j] # <<>>
        PROVE  cidSocket'[j[1]] = j
        OBVIOUS
    <2>1. j # k /\ serverBuffer[j] # <<>> /\ j[1] \in Clients /\ j # NoSocket
        BY <1>5, ConnectionIs
    <2>2. cidSocket[j[1]] = j
        BY <2>1 DEF SequenceInv
    <2> QED BY <1>4, <2>1, <2>2
<1>10. \A d \in Clients : cidSocket'[d] = NoSocket => cidOutgoing[d] = 1
    BY <1>4, <1>7 DEF SequenceInv
<1>11. ASSUME NEW d \in Clients, d # c \/ ~Alive(k)
       PROVE  toClient'[d] = toClient[d]
    BY <1>1, <1>2, <1>3, <1>11
<1>12. \A d \in Clients : d \notin up => toClient'[d] = <<>>
    <2> SUFFICES ASSUME NEW d \in Clients, d \notin up PROVE toClient'[d] = toClient[d]
        BY DEF SequenceInv
    <2> QED BY <1>11 DEF Alive
<1>13. ASSUME NEW d \in up
       PROVE  IF cidSocket'[d] = Current(d) THEN InStep(d)'
              ELSE toClient'[d] = <<>> /\ nextExpected[d] = 1
    <2>1. d \in Clients /\ Current(d) \in Connections /\ Current(d)[1] = d
        BY CurrentIs
    <2>2. IF cidSocket[d] = Current(d) THEN InStep(d)
          ELSE toClient[d] = <<>> /\ nextExpected[d] = 1
        BY DEF SequenceInv
    <2>3. CASE Current(d) # k
        <3>1. d # c \/ ~Alive(k)
            BY <2>3 DEF Alive
        <3>2. toClient'[d] = toClient[d]
            BY <1>11, <2>1, <3>1
        <3>3. cidSocket'[d] = Current(d) <=> cidSocket[d] = Current(d)
            <4>1. Current(d) # NoSocket
                BY <2>1, ConnectionIs
            <4> QED BY <1>4, <2>1, <2>3, <4>1
        <3>4. serverBuffer'[Current(d)] = serverBuffer[Current(d)]
            BY <1>5, <2>1, <2>3
        <3>5. InStep(d) => InStep(d)'
            BY <1>1, <1>6, <3>2, <3>4 DEF InStep
        <3> QED BY <2>2, <3>2, <3>3, <3>5
    <2>4. CASE Current(d) = k
        <3>1. d = c /\ Alive(k)
            BY <2>1, <2>4, CurrentIs
        <3>2. toClient'[d] = toClient[d] \o buffer
            BY <1>2, <1>3, <2>1, <3>1
        <3>3. /\ toClient[d] \in Seq(Nat) /\ buffer \in Seq(Nat) /\ nextExpected[d] \in Nat
              /\ Len(toClient[d]) \in Nat /\ Len(buffer) \in Nat
              /\ DOMAIN buffer = 1 .. Len(buffer)
            BY <1>2, <2>1, LenProperties
        <3>4. Len(<<>>) = 0 /\ DOMAIN <<>> = {}
            OBVIOUS
        <3>5. CASE cidSocket[d] = k
            <4>1. /\ \A i \in DOMAIN toClient[d] : toClient[d][i] = nextExpected[d] + i - 1
                  /\ \A i \in DOMAIN buffer :
                         buffer[i] = nextExpected[d] + Len(toClient[d]) + i - 1
                  /\ cidOutgoing[d] = nextExpected[d] + Len(toClient[d]) + Len(buffer)
                BY <2>2, <2>4, <3>5 DEF InStep
            <4>2. cidSocket'[d] = k
                BY <1>4, <3>1, <3>5
            <4>3. /\ Len(toClient'[d]) = Len(toClient[d]) + Len(buffer)
                  /\ \A i \in DOMAIN toClient'[d] :
                         \/ i \in DOMAIN toClient[d] /\ toClient'[d][i] = toClient[d][i]
                         \/ /\ i > Len(toClient[d]) /\ i - Len(toClient[d]) \in DOMAIN buffer
                            /\ toClient'[d][i] = buffer[i - Len(toClient[d])]
                <5> HIDE DEF buffer
                <5>1. Joins(Nat, toClient[d], buffer, toClient'[d])
                    BY <3>2, <3>3, Joining
                <5> QED BY <5>1 DEF Joins
            <4>4. DOMAIN toClient'[d] \subseteq Nat
                <5>1. toClient'[d] \in Seq(Nat)
                    BY <3>2, <3>3, ConcatProperties
                <5> QED BY <5>1, LenProperties
            <4>5. \A i \in DOMAIN toClient'[d] : toClient'[d][i] = nextExpected[d] + i - 1
                <5> HIDE DEF buffer
                <5> SUFFICES ASSUME NEW i \in DOMAIN toClient'[d]
                    PROVE  toClient'[d][i] = nextExpected[d] + i - 1
                    OBVIOUS
                <5>1. CASE i \in DOMAIN toClient[d] /\ toClient'[d][i] = toClient[d][i]
                    BY <4>1, <5>1
                <5>2. CASE /\ i - Len(toClient[d]) \in DOMAIN buffer
                           /\ toClient'[d][i] = buffer[i - Len(toClient[d])]
                    <6> DEFINE m == Len(toClient[d])
                               n == nextExpected[d]
                    <6>1. toClient'[d][i] = n + m + (i - m) - 1
                        BY <4>1, <5>2
                    <6>2. m \in Nat /\ n \in Nat /\ i \in Nat
                        BY <3>3, <4>4
                    <6> HIDE DEF m, n
                    <6>3. n + m + (i - m) - 1 = n + i - 1
                        BY <6>2
                    <6> QED BY <6>1, <6>3 DEF n
                <5> QED BY <4>3, <5>1, <5>2
            <4>6. InStep(d)'
                <5> HIDE DEF buffer
                <5>1. serverBuffer'[Current(d)'] = <<>>
                    BY <1>5, <1>6, <2>4
                <5>2. cidOutgoing'[d] = nextExpected'[d] + Len(toClient'[d]) + 0
                    BY <1>1, <3>3, <4>1, <4>3
                <5>3. \A i \in DOMAIN toClient'[d] : toClient'[d][i] = nextExpected'[d] + i - 1
                    BY <1>1, <4>5
                <5> QED BY <3>4, <5>1, <5>2, <5>3 DEF InStep
            <4> QED BY <2>4, <4>2, <4>6
        <3>6. CASE cidSocket[d] # k
            <4>1. buffer = <<>> /\ toClient[d] = <<>> /\ nextExpected[d] = 1
                BY <1>8, <2>2, <2>4, <3>1, <3>6
            <4>2. toClient'[d] = <<>>
                BY <3>2, <3>3, <4>1, ConcatEmptySeq
            <4>3. cidSocket'[d] = k => cidOutgoing[d] = 1
                BY <1>4, <2>1, <3>1, <3>6 DEF SequenceInv
            <4>4. cidSocket'[d] = k => InStep(d)'
                BY <1>1, <1>5, <1>6, <2>4, <3>4, <4>1, <4>2, <4>3 DEF InStep
            <4> QED BY <2>4, <4>1, <4>2, <4>4
        <3> QED BY <3>5, <3>6
    <2> QED BY <2>3, <2>4
<1> QED BY <1>1, <1>6, <1>9, <1>10, <1>12, <1>13 DEF SequenceInv

\* A response is put into the buffer of its client's socket.
LEMMA SendResponseSequence ==
    ASSUME Wellformed, SequenceInv, SendResponse
    PROVE  SequenceInv'
<1>1. PICK c \in Clients :
          /\ cidSocket[c] \in Connections /\ cidSocket[c][1] = c
          /\ serverBuffer' = [serverBuffer EXCEPT ![cidSocket[c]] = Append(@, cidOutgoing[c])]
          /\ cidOutgoing' = [cidOutgoing EXCEPT ![c] = @ + 1]
    BY SendResponseIs
<1>2. UNCHANGED <<life, up, nextExpected, toClient, cidSocket>>
    BY DEF SendResponse, processVars, gatewayVars
<1> DEFINE k == cidSocket[c]
           buffer == serverBuffer[k]
<1>3. /\ serverBuffer \in [Connections -> Seq(Nat)]
      /\ cidOutgoing \in [Clients -> Nat \ {0}]
      /\ up \subseteq Clients
    BY DEF Wellformed, TypeOK
<1>4. /\ serverBuffer'[k] = Append(buffer, cidOutgoing[c])
      /\ \A j \in Connections : j # k => serverBuffer'[j] = serverBuffer[j]
      /\ cidOutgoing'[c] = cidOutgoing[c] + 1
      /\ \A d \in Clients : d # c => cidOutgoing'[d] = cidOutgoing[d]
    BY <1>1, <1>3
<1>5. \A d : Current(d)' = Current(d)
    BY <1>2 DEF Current
<1>6. \A j \in Connections : serverBuffer'[j] # <<>> => cidSocket[j[1]] = j
    BY <1>1, <1>4 DEF SequenceInv
<1>7. \A d \in Clients : cidSocket[d] = NoSocket => cidOutgoing'[d] = 1
    <2>1. k # NoSocket
        BY <1>1, ConnectionIs
    <2> QED BY <1>4, <2>1 DEF SequenceInv
<1>8. ASSUME NEW d \in up, cidSocket[d] = Current(d)
      PROVE  InStep(d)'
    <2>1. d \in Clients /\ Current(d) \in Connections /\ Current(d)[1] = d
        BY CurrentIs
    <2>2. InStep(d)
        BY <1>8 DEF SequenceInv
    <2>3. CASE d # c
        <3>1. Current(d) # k
            BY <1>1, <2>1, <2>3
        <3>2. serverBuffer'[Current(d)] = serverBuffer[Current(d)] /\ cidOutgoing'[d] = cidOutgoing[d]
            BY <1>4, <2>1, <2>3, <3>1
        <3> QED BY <1>2, <1>5, <2>2, <3>2 DEF InStep
    <2>4. CASE d = c
        <3>1. /\ \A i \in DOMAIN toClient[c] : toClient[c][i] = nextExpected[c] + i - 1
              /\ \A i \in DOMAIN buffer :
                     buffer[i] = nextExpected[c] + Len(toClient[c]) + i - 1
              /\ cidOutgoing[c] = nextExpected[c] + Len(toClient[c]) + Len(buffer)
            BY <1>8, <2>2, <2>4 DEF InStep
        <3>2. /\ buffer \in Seq(Nat) /\ cidOutgoing[c] \in Nat
              /\ nextExpected[c] \in Nat /\ Len(toClient[c]) \in Nat
            BY <1>1, <1>3, LenProperties DEF Wellformed, TypeOK
        <3> HIDE DEF buffer
        <3>3. /\ Len(buffer) \in Nat /\ DOMAIN buffer = 1 .. Len(buffer)
              /\ Append(buffer, cidOutgoing[c]) \in Seq(Nat)
              /\ Len(Append(buffer, cidOutgoing[c])) = Len(buffer) + 1
              /\ \A i \in 1 .. Len(buffer) : Append(buffer, cidOutgoing[c])[i] = buffer[i]
              /\ Append(buffer, cidOutgoing[c])[Len(buffer) + 1] = cidOutgoing[c]
            BY <3>2, LenProperties, AppendProperties
        <3>4. DOMAIN Append(buffer, cidOutgoing[c]) = 1 .. Len(buffer) + 1
            BY <3>3, LenProperties
        <3>5. \A i \in DOMAIN Append(buffer, cidOutgoing[c]) :
                  Append(buffer, cidOutgoing[c])[i]
                      = nextExpected[c] + Len(toClient[c]) + i - 1
            BY <3>1, <3>2, <3>3, <3>4
        <3>6. cidOutgoing'[c]
                  = nextExpected[c] + Len(toClient[c]) + Len(Append(buffer, cidOutgoing[c]))
            BY <1>4, <3>1, <3>2, <3>3
        <3>7. serverBuffer'[Current(c)] = Append(buffer, cidOutgoing[c])
            BY <1>4, <1>8, <2>4
        <3> QED BY <1>2, <1>5, <2>4, <3>1, <3>5, <3>6, <3>7 DEF InStep
    <2> QED BY <2>3, <2>4
<1> QED BY <1>2, <1>5, <1>6, <1>7, <1>8 DEF SequenceInv

\* Every step keeps the numbers in sequence.
LEMMA StepSequence == ~MayBlock /\ Wellformed /\ SequenceInv /\ [Next]_vars => SequenceInv'
<1> SUFFICES ASSUME ~MayBlock, Wellformed, SequenceInv, [Next]_vars PROVE SequenceInv'
    OBVIOUS
<1>1. CASE UNCHANGED <<life, up, nextExpected, toClient, cidSocket, cidOutgoing, serverBuffer>>
    <2>1. \A c : Current(c)' = Current(c)
        BY <1>1 DEF Current
    <2>2. \A c : InStep(c)' = InStep(c)
        BY <1>1, <2>1 DEF InStep
    <2> QED BY <1>1, <2>1, <2>2 DEF SequenceInv
<1>2. ASSUME NEW c \in Clients, SendRequest(c) PROVE SequenceInv'
    BY <1>1, <1>2 DEF SendRequest, processVars, serverVars
<1>3. CASE Poll \/ SequenceAndPublish \/ ProcessClientRequest \/ UNCHANGED vars
    BY <1>1, <1>3 DEF Poll, SequenceAndPublish, ProcessClientRequest, vars, processVars,
                      gatewayVars, serverVars
<1> QED BY <1>2, <1>3, StartSequence, DieSequence, GatewaySequence, ReadSocketSequence,
           SendResponseSequence DEF Next, Client, OrderServer

\* While sends do not block, a gateway reads the response it expects and no other, however
\* often its client has died and come back.
THEOREM NothingMissing == ~MayBlock => (Spec => []NoSequenceGap)
<1> SUFFICES ASSUME ~MayBlock PROVE Spec => []NoSequenceGap
    OBVIOUS
<1>1. Init => SequenceInv
    BY DEF Init, SequenceInv
<1>2. SequenceInv => NoSequenceGap
    <2> SUFFICES ASSUME SequenceInv, NEW c \in Clients, NEW i \in DOMAIN toClient[c]
        PROVE  toClient[c][i] = nextExpected[c] + i - 1
        BY DEF NoSequenceGap
    <2>1. toClient[c] # <<>>
        OBVIOUS
    <2> QED BY <2>1 DEF SequenceInv, InStep
<1>3. Wellformed /\ SequenceInv /\ [Next]_vars => SequenceInv'
    BY StepSequence
<1> QED BY <1>1, <1>2, <1>3, InitWellformed, StepWellformed, PTL DEF Spec

-----------------------------------------------------------------------------
(* Requests reach the engine in the order of their numbers.                *)

\* No pass reads more requests than std::sort keeps stable.
ShortPasses == Len(pending) <= StableUpTo

\* Client c's request number n waits for the sequencer or for the engine.
Waits(c, n) ==
    \/ \E i \in DOMAIN requests : requests[i].client = c /\ requests[i].number = n
    \/ \E i \in DOMAIN pending :
           pending[i].request.client = c /\ pending[i].request.number = n

\* A request that waits is none of those already processed, is one of those that the
\* server has accepted, and is from the connection that counts.
Outstanding(r) ==
    /\ processed[r.client] < r.number
    /\ r.number < cidExp[r.client]
    /\ cidSocket[r.client] = <<r.client, r.life>>

\* What waits of a client waits in the order of its numbers.
NumbersAscend ==
    /\ \A i, j \in DOMAIN requests :
           i < j /\ requests[i].client = requests[j].client =>
               requests[i].number < requests[j].number
    /\ \A i \in DOMAIN requests, j \in DOMAIN pending :
           requests[i].client = pending[j].request.client =>
               requests[i].number < pending[j].request.number
    /\ \A i, j \in DOMAIN pending :
           i < j /\ pending[i].request.client = pending[j].request.client =>
               /\ pending[i].request.number < pending[j].request.number
               /\ pending[i].recvTime <= pending[j].recvTime

\* What is still unread of a connection is no older than what was read of it.
TimesAscend ==
    /\ \A k \in Connections : \A i \in DOMAIN toServer[k] : toServer[k][i].time <= clock
    /\ \A i \in DOMAIN pending :
           /\ pending[i].recvTime <= clock
           /\ \A k \in Connections :
                  pending[i].request.client = k[1] /\ pending[i].request.life = k[2] =>
                      \A j \in DOMAIN toServer[k] :
                          pending[i].recvTime <= toServer[k][j].time

\* Whatever the server accepted and the engine has not taken waits, and nothing else.
NoneLost ==
    /\ \A c \in Clients : processed[c] < cidExp[c]
    /\ \A c \in Clients, n \in Nat : processed[c] < n /\ n < cidExp[c] => Waits(c, n)
    /\ \A i \in DOMAIN requests : Outstanding(requests[i])
    /\ \A i \in DOMAIN pending : Outstanding(pending[i].request)

OrderInv == NumbersAscend /\ TimesAscend /\ NoneLost

\* The types of what waits.
LEMMA WaitingTypes ==
    ASSUME Wellformed
    PROVE  /\ DOMAIN requests = 1 .. Len(requests) /\ Len(requests) \in Nat
           /\ DOMAIN pending = 1 .. Len(pending) /\ Len(pending) \in Nat
           /\ \A i \in DOMAIN requests :
                  /\ requests[i] \in MEClientRequest
                  /\ requests[i].client \in Clients /\ requests[i].number \in Nat \ {0}
           /\ \A i \in DOMAIN pending :
                  /\ pending[i].request.client \in Clients
                  /\ pending[i].request.number \in Nat \ {0}
                  /\ pending[i].recvTime \in Nat
           /\ \A c \in Clients : processed[c] \in Nat /\ cidExp[c] \in Nat \ {0}
<1>1. /\ requests \in Seq(MEClientRequest) /\ pending \in Seq(RecvTimeClientRequest)
      /\ processed \in [Clients -> Numbers \cup {0}] /\ cidExp \in [Clients -> Nat \ {0}]
    BY DEF Wellformed, TypeOK
<1>2. /\ DOMAIN requests = 1 .. Len(requests) /\ Len(requests) \in Nat
      /\ DOMAIN pending = 1 .. Len(pending) /\ Len(pending) \in Nat
    BY <1>1, LenProperties
<1>3. /\ \A i \in DOMAIN requests : requests[i] \in MEClientRequest
      /\ \A i \in DOMAIN pending : pending[i] \in RecvTimeClientRequest
    BY <1>1, <1>2, ElementOfSeq
<1>4. \A r \in MEClientRequest : r.client \in Clients /\ r.number \in Nat \ {0}
    BY NumbersArePositive DEF MEClientRequest
<1>5. \A p \in RecvTimeClientRequest : p.request \in MEClientRequest /\ p.recvTime \in Nat
    BY DEF RecvTimeClientRequest
<1>6. \A c \in Clients : processed[c] \in Nat /\ cidExp[c] \in Nat \ {0}
    <2>1. Numbers \cup {0} \subseteq Nat
        BY NumbersArePositive
    <2> QED BY <1>1, <2>1
<1> QED BY <1>2, <1>3, <1>4, <1>5, <1>6

\* A RecvCallback accepts the beginning of what it has read, and nothing else.
LEMMA AcceptedInOrder ==
    ASSUME NEW S, NEW run \in Seq(S), NEW next,
           NEW i \in 1 .. Cardinality(InSequence(next, run))
    PROVE  run[i] = next + i - 1
<1> DEFINE A == InSequence(next, run)
<1>1. Len(run) \in Nat /\ DOMAIN run = 1 .. Len(run)
    BY LenProperties
<1>2. i \in Nat \ {0} /\ Cardinality(A) \in Nat /\ i <= Cardinality(A)
    <2>1. Cardinality(A) \in 0 .. Len(run)
        BY HowManyAccepted
    <2> QED BY <1>1, <2>1
<1>3. i \in A
    <2> SUFFICES ASSUME i \notin A PROVE FALSE
        OBVIOUS
    <2>1. A \subseteq 1 .. i - 1
        <3> SUFFICES ASSUME NEW a \in A, ~(a < i) PROVE FALSE
            BY <1>1, <1>2 DEF InSequence
        <3>1. a \in DOMAIN run /\ \A j \in 1 .. a : run[j] = next + j - 1
            BY DEF InSequence
        <3>2. i \in DOMAIN run /\ 1 .. i \subseteq 1 .. a
            BY <1>1, <1>2, <3>1
        <3> QED BY <3>1, <3>2 DEF InSequence
    <2>2. IsFiniteSet(1 .. i - 1) /\ Cardinality(1 .. i - 1) = i - 1
        <3>1. 1 \in Int /\ i - 1 \in Int
            BY <1>2
        <3>2. /\ IsFiniteSet(1 .. i - 1)
              /\ Cardinality(1 .. i - 1) = IF 1 > i - 1 THEN 0 ELSE i - 1 - 1 + 1
            BY <3>1, FS_Interval
        <3> QED BY <1>2, <3>2
    <2>3. Cardinality(A) <= i - 1
        BY <2>1, <2>2, FS_Subset
    <2> QED BY <1>2, <2>3
<1>4. i \in 1 .. i
    BY <1>2
<1> QED BY <1>3, <1>4 DEF InSequence

\* In the queues, order is kept by a step that takes neither requests nor time back.
LEMMA OrderStays ==
    ASSUME OrderInv, UNCHANGED <<requests, pending, processed, cidExp, cidSocket, clock>>,
           toServer' = toServer
    PROVE  OrderInv'
<1>1. \A r : Outstanding(r)' = Outstanding(r)
    BY DEF Outstanding
<1>2. \A c, n : Waits(c, n)' = Waits(c, n)
    BY DEF Waits
<1> QED BY <1>1, <1>2 DEF OrderInv, NumbersAscend, TimesAscend, NoneLost

\* A request that arrives is the latest.
LEMMA GatewayOrder ==
    ASSUME Wellformed, OrderInv, NEW c \in Clients, GatewaySendAndRecv(c)
    PROVE  OrderInv'
<1>1. PICK sent \in Seq([number : Numbers, time : Nat]) :
          /\ toServer' = [toServer EXCEPT ![Current(c)] = @ \o sent]
          /\ \A i \in DOMAIN sent : sent[i].time = clock + 1
          /\ clock' = IF DOMAIN sent = {} THEN clock ELSE clock + 1
    BY GatewayIs
<1>2. UNCHANGED <<requests, pending, processed, cidExp, cidSocket>>
    BY DEF GatewaySendAndRecv, serverVars, engineVars
<1>3. /\ clock \in Nat
      /\ toServer \in [Connections -> Seq([number : Numbers, time : Nat])]
    BY DEF Wellformed, TypeOK
<1>4. ASSUME NEW k \in Connections, NEW j \in DOMAIN toServer'[k]
      PROVE  \/ j \in DOMAIN toServer[k] /\ toServer'[k][j] = toServer[k][j]
             \/ toServer'[k][j].time = clock + 1 /\ DOMAIN sent # {}
    <2>1. CASE k # Current(c)
        BY <1>1, <1>3, <1>4, <2>1
    <2>2. CASE k = Current(c)
        <3>1. toServer'[k] = toServer[k] \o sent
            BY <1>1, <1>3, <2>2
        <3>2. \/ j \in DOMAIN toServer[k] /\ (toServer[k] \o sent)[j] = toServer[k][j]
              \/ /\ j - Len(toServer[k]) \in DOMAIN sent
                 /\ (toServer[k] \o sent)[j] = sent[j - Len(toServer[k])]
            <4>1. toServer[k] \in Seq([number : Numbers, time : Nat])
                BY <1>3
            <4>2. j \in DOMAIN (toServer[k] \o sent)
                BY <3>1
            <4> QED BY <4>1, <4>2, Joined
        <3> QED BY <1>1, <3>1, <3>2
    <2> QED BY <2>1, <2>2
<1>5. \A k \in Connections : \A j \in DOMAIN toServer[k] : toServer[k][j].time \in Nat
    <2> SUFFICES ASSUME NEW k \in Connections, NEW j \in DOMAIN toServer[k]
        PROVE  toServer[k][j].time \in Nat
        OBVIOUS
    <2>1. toServer[k] \in Seq([number : Numbers, time : Nat])
        BY <1>3
    <2>2. toServer[k][j] \in [number : Numbers, time : Nat]
        BY <2>1, LenProperties, ElementOfSeq
    <2> QED BY <2>2
<1>6. TimesAscend'
    <2>1. ASSUME NEW k \in Connections, NEW j \in DOMAIN toServer'[k]
          PROVE  toServer'[k][j].time <= clock'
        <3>1. CASE j \in DOMAIN toServer[k] /\ toServer'[k][j] = toServer[k][j]
            BY <1>1, <1>3, <1>5, <3>1 DEF OrderInv, TimesAscend
        <3>2. CASE toServer'[k][j].time = clock + 1 /\ DOMAIN sent # {}
            <4>1. clock' = clock + 1
                BY <1>1, <3>2
            <4> QED BY <1>3, <3>2, <4>1
        <3> QED BY <1>4, <2>1, <3>1, <3>2
    <2>2. ASSUME NEW i \in DOMAIN pending
          PROVE  /\ pending[i].recvTime <= clock'
                 /\ \A k \in Connections :
                        pending[i].request.client = k[1] /\ pending[i].request.life = k[2] =>
                            \A j \in DOMAIN toServer'[k] :
                                pending[i].recvTime <= toServer'[k][j].time
        <3>1. pending[i].recvTime \in Nat /\ pending[i].recvTime <= clock
            BY WaitingTypes DEF OrderInv, TimesAscend
        <3>2. pending[i].recvTime <= clock + 1
            BY <1>3, <3>1
        <3>3. ASSUME NEW k \in Connections, NEW j \in DOMAIN toServer'[k],
                     pending[i].request.client = k[1], pending[i].request.life = k[2]
              PROVE  pending[i].recvTime <= toServer'[k][j].time
            <4>1. CASE j \in DOMAIN toServer[k] /\ toServer'[k][j] = toServer[k][j]
                BY <3>3, <4>1 DEF OrderInv, TimesAscend
            <4>2. CASE toServer'[k][j].time = clock + 1
                BY <3>2, <4>2
            <4> QED BY <1>4, <3>3, <4>1, <4>2
        <3> QED BY <1>1, <3>1, <3>2, <3>3
    <2> QED BY <1>2, <2>1, <2>2 DEF TimesAscend
<1>7. NumbersAscend' /\ NoneLost'
    <2>1. \A r : Outstanding(r)' = Outstanding(r)
        BY <1>2 DEF Outstanding
    <2>2. \A d, n : Waits(d, n)' = Waits(d, n)
        BY <1>2 DEF Waits
    <2> QED BY <1>2, <2>1, <2>2 DEF OrderInv, NumbersAscend, NoneLost
<1> QED BY <1>6, <1>7 DEF OrderInv

\* What a read adds goes behind what waits of its client.
LEMMA ReadSocketOrder ==
    ASSUME Wellformed, OrderInv, ReadSocket
    PROVE  OrderInv'
<1>1. PICK k \in Connections, accepted \in Seq(RecvTimeClientRequest) :
          /\ k[1] \in Clients
          /\ cidSocket' = [cidSocket EXCEPT ![k[1]] = SocketOf(k, toServer[k])]
          /\ accepted = Accepted(k, toServer[k], SocketOf(k, toServer[k]))
          /\ Len(accepted) \in Nat
          /\ cidExp' = [cidExp EXCEPT ![k[1]] = @ + Len(accepted)]
          /\ pending' = pending \o accepted
          /\ toServer' = [toServer EXCEPT ![k] = <<>>]
          /\ UNCHANGED <<clock, requests, processed>>
    BY ReadSocketIs
<1> DEFINE c == k[1]
           run == toServer[k]
           old(i) == i \in DOMAIN pending /\ pending'[i] = pending[i]
           new(i) == /\ i > Len(pending) /\ i - Len(pending) \in DOMAIN accepted
                     /\ pending'[i] = accepted[i - Len(pending)]
<1>2. /\ run \in Seq([number : Numbers, time : Nat]) /\ pending \in Seq(RecvTimeClientRequest)
      /\ cidSocket \in [Clients -> Connections \cup {NoSocket}]
      /\ cidExp \in [Clients -> Nat \ {0}]
      /\ toServer \in [Connections -> Seq([number : Numbers, time : Nat])]
      /\ k = <<k[1], k[2]>> /\ k # NoSocket /\ clock \in Nat
    BY ConnectionIs DEF Wellformed, TypeOK
<1>3. Len(pending) \in Nat /\ DOMAIN pending = 1 .. Len(pending)
      /\ DOMAIN accepted = 1 .. Len(accepted)
    BY <1>2, LenProperties
<1>3a. Joins(RecvTimeClientRequest, pending, accepted, pending')
    <2>1. pending' = pending \o accepted
        BY <1>1
    <2> QED BY <1>2, <2>1, Joining
<1>4. \A i \in DOMAIN pending' : i \in Nat /\ (old(i) \/ new(i))
    <2>1. pending' \in Seq(RecvTimeClientRequest)
        BY <1>3a DEF Joins
    <2>2. \A i \in DOMAIN pending' : i \in Nat
        BY <2>1, LenProperties
    <2>3. \A i \in DOMAIN pending' : old(i) \/ new(i)
        BY <1>3a DEF Joins
    <2> QED BY <2>2, <2>3
<1>5. /\ \A i \in DOMAIN pending : i \in DOMAIN pending' /\ pending'[i] = pending[i]
      /\ \A i \in DOMAIN accepted : /\ i + Len(pending) \in DOMAIN pending'
                                    /\ pending'[i + Len(pending)] = accepted[i]
    BY <1>3a DEF Joins
<1>6. ASSUME NEW i \in DOMAIN accepted
      PROVE  /\ accepted[i].request.client = c /\ accepted[i].request.life = k[2]
             /\ accepted[i].request.number = cidExp[c] + i - 1
             /\ Len(run) \in DOMAIN run /\ accepted[i].recvTime = run[Len(run)].time
             /\ SocketOf(k, run) = k
    <2> DEFINE numbers == [j \in DOMAIN run |-> run[j].number]
    <2>1. SocketOf(k, run) = k
        <3>1. CASE SocketOf(k, run) # k
            <4>1. accepted = <<>>
                BY <1>1, <1>2, <3>1, AcceptedIs
            <4> QED BY <1>6, <4>1
        <3> QED BY <3>1
    <2>2. DOMAIN run = 1 .. Len(run) /\ Len(run) \in Nat
        BY <1>2, LenProperties
    <2>3. numbers \in Seq(Numbers) /\ Len(numbers) = Len(run)
        <3>1. \A j \in DOMAIN run : run[j].number \in Numbers
            <4> SUFFICES ASSUME NEW j \in DOMAIN run PROVE run[j].number \in Numbers
                OBVIOUS
            <4>1. run[j] \in [number : Numbers, time : Nat]
                BY <1>2, <2>2, ElementOfSeq
            <4> QED BY <4>1
        <3>2. numbers \in [1 .. Len(run) -> Numbers]
            BY <2>2, <3>1
        <3> HIDE DEF numbers
        <3> QED BY <2>2, <3>2, IsSequence
    <2>4. accepted = [j \in 1 .. Cardinality(InSequence(cidExp[c], numbers)) |->
              [recvTime |-> run[Len(run)].time,
               request  |-> [client |-> c, life |-> k[2], number |-> numbers[j]]]]
        BY <1>1, <2>1 DEF Accepted
    <2>5. i \in 1 .. Cardinality(InSequence(cidExp[c], numbers))
        BY <1>6, <2>4
    <2>6. numbers[i] = cidExp[c] + i - 1
        <3> HIDE DEF numbers
        <3> QED BY <2>3, <2>5, AcceptedInOrder
    <2>7. Len(run) \in DOMAIN run
        <3> HIDE DEF numbers
        <3>1. Cardinality(InSequence(cidExp[c], numbers)) \in 0 .. Len(numbers)
            BY <2>3, HowManyAccepted
        <3> QED BY <2>2, <2>3, <2>5, <3>1
    <2>8. accepted[i] = [recvTime |-> run[Len(run)].time,
                         request  |-> [client |-> c, life |-> k[2], number |-> numbers[i]]]
        <3> HIDE DEF numbers
        <3> QED BY <2>4, <2>5
    <2> HIDE DEF numbers
    <2> QED BY <2>1, <2>6, <2>7, <2>8
<1>7. ASSUME NEW i \in DOMAIN accepted
      PROVE  /\ accepted[i].recvTime \in Nat /\ accepted[i].recvTime <= clock
             /\ cidSocket'[c] = k
             /\ cidSocket[c] \in {NoSocket, k}
    <2>1. run[Len(run)] \in [number : Numbers, time : Nat]
        <3>1. DOMAIN run = 1 .. Len(run)
            BY <1>2, LenProperties
        <3>2. Len(run) \in 1 .. Len(run)
            BY <1>6, <3>1
        <3> QED BY <1>2, <3>2, ElementOfSeq
    <2>2. run[Len(run)].time <= clock
        BY <1>6 DEF OrderInv, TimesAscend
    <2>3. cidSocket[c] \in {NoSocket, k}
        BY <1>6, <1>7 DEF SocketOf
    <2>4. cidSocket'[c] = SocketOf(k, run)
        BY <1>1, <1>2
    <2> QED BY <1>6, <2>1, <2>2, <2>3, <2>4
<1>8. /\ cidExp'[c] = cidExp[c] + Len(accepted)
      /\ \A d \in Clients : d # c => cidExp'[d] = cidExp[d] /\ cidSocket'[d] = cidSocket[d]
      /\ \A d \in Clients : cidExp[d] <= cidExp'[d]
    <2>1. /\ cidExp'[c] = cidExp[c] + Len(accepted)
          /\ \A d \in Clients : d # c => cidExp'[d] = cidExp[d] /\ cidSocket'[d] = cidSocket[d]
        BY <1>1, <1>2
    <2>2. ASSUME NEW d \in Clients PROVE cidExp[d] <= cidExp'[d]
        <3>1. cidExp[d] \in Nat
            BY <1>2
        <3>2. CASE d = c
            BY <1>1, <2>1, <3>1, <3>2
        <3>3. CASE d # c
            BY <2>1, <3>1, <3>3
        <3> QED BY <3>2, <3>3
    <2> QED BY <2>1, <2>2
<1> HIDE DEF c, run
<1>9. \A r : r.client \in Clients /\ r.number \in Nat /\ Outstanding(r) => Outstanding(r)'
    <2> SUFFICES ASSUME NEW r, r.client \in Clients, r.number \in Nat, Outstanding(r)
        PROVE  Outstanding(r)'
        OBVIOUS
    <2>1. cidSocket'[r.client] = cidSocket[r.client]
        <3>1. cidSocket[r.client] # NoSocket
            BY DEF Outstanding, NoSocket
        <3>2. CASE r.client = c
            BY <1>1, <1>2, <3>1, <3>2 DEF SocketOf, c
        <3>3. CASE r.client # c
            BY <1>8, <3>3
        <3> QED BY <3>2, <3>3
    <2>2. processed'[r.client] = processed[r.client]
        BY <1>1
    <2>3. /\ cidExp[r.client] <= cidExp'[r.client] /\ cidExp[r.client] \in Nat
          /\ cidExp'[r.client] \in Nat
        <3>1. cidExp'[r.client] \in Nat
            BY ReadSocketWellformed DEF Wellformed, TypeOK
        <3> QED BY <1>2, <1>8, <3>1
    <2> QED BY <2>1, <2>2, <2>3 DEF Outstanding
<1>10. \A i \in DOMAIN accepted : Outstanding(accepted[i].request)'
    <2> SUFFICES ASSUME NEW i \in DOMAIN accepted PROVE Outstanding(accepted[i].request)'
        OBVIOUS
    <2>1. i \in Nat /\ 1 <= i /\ i <= Len(accepted)
        BY <1>1, <1>3
    <2>2. /\ accepted[i].request.client = c /\ accepted[i].request.life = k[2]
          /\ accepted[i].request.number = cidExp[c] + i - 1
        BY <1>6
    <2>3. processed[c] \in Nat /\ cidExp[c] \in Nat /\ processed[c] < cidExp[c]
          /\ processed'[c] = processed[c]
        BY <1>1, WaitingTypes DEF OrderInv, NoneLost, c
    <2>4. processed'[c] < cidExp[c] + i - 1 /\ cidExp[c] + i - 1 < cidExp'[c]
        BY <1>1, <1>8, <2>1, <2>3
    <2>5. cidSocket'[c] = <<c, k[2]>>
        BY <1>2, <1>7 DEF c
    <2> QED BY <2>2, <2>4, <2>5 DEF Outstanding
<1>11. NoneLost'
    <2>1. ASSUME NEW d \in Clients PROVE processed'[d] < cidExp'[d]
        <3>1. processed'[d] = processed[d] /\ processed[d] < cidExp[d] /\ cidExp[d] <= cidExp'[d]
            BY <1>1, <1>8 DEF OrderInv, NoneLost
        <3>2. processed[d] \in Nat /\ cidExp[d] \in Nat /\ cidExp'[d] \in Nat
            BY WaitingTypes, ReadSocketWellformed DEF Wellformed, TypeOK
        <3> QED BY <3>1, <3>2
    <2>2. ASSUME NEW d \in Clients, NEW n \in Nat, processed'[d] < n, n < cidExp'[d]
          PROVE  Waits(d, n)'
        <3>1. processed'[d] = processed[d] /\ requests' = requests
            BY <1>1
        <3>2. CASE n < cidExp[d]
            <4>1. Waits(d, n)
                BY <2>2, <3>1, <3>2 DEF OrderInv, NoneLost
            <4> QED BY <1>5, <3>1, <4>1 DEF Waits
        <3>3. CASE ~(n < cidExp[d])
            <4>1. cidExp[d] \in Nat
                BY <1>2
            <4>2. d = c
                BY <1>8, <2>2, <3>3
            <4> DEFINE i == n - cidExp[c] + 1
            <4>3. i \in 1 .. Len(accepted) /\ cidExp[c] + i - 1 = n
                <5>1. n < cidExp[c] + Len(accepted) /\ ~(n < cidExp[c])
                    BY <1>8, <2>2, <3>3, <4>2
                <5>2. cidExp[c] \in Nat /\ Len(accepted) \in Nat
                    BY <1>1, <4>1, <4>2
                <5> QED BY <2>2, <5>1, <5>2
            <4> HIDE DEF i
            <4>4. i \in DOMAIN accepted
                BY <1>3, <4>3
            <4>5. accepted[i].request.client = c /\ accepted[i].request.number = n
                BY <1>6, <4>3, <4>4
            <4> QED BY <1>5, <4>2, <4>4, <4>5 DEF Waits
        <3> QED BY <3>2, <3>3
    <2>3. \A i \in DOMAIN requests' : Outstanding(requests[i])'
        BY <1>1, <1>9, WaitingTypes DEF OrderInv, NoneLost
    <2>4. ASSUME NEW i \in DOMAIN pending' PROVE Outstanding(pending[i].request)'
        <3>1. CASE old(i)
            BY <1>9, <3>1, WaitingTypes DEF OrderInv, NoneLost
        <3>2. CASE new(i)
            BY <1>10, <3>2
        <3> QED BY <1>4, <3>1, <3>2
    <2> QED BY <2>1, <2>2, <2>3, <2>4 DEF NoneLost
<1>12. NumbersAscend'
    <2>1. \A i, j \in DOMAIN requests' :
              i < j /\ requests'[i].client = requests'[j].client =>
                  requests'[i].number < requests'[j].number
        BY <1>1 DEF OrderInv, NumbersAscend
    <2>2. ASSUME NEW r, r.client = c, r.number \in Nat, Outstanding(r), NEW j \in DOMAIN accepted
          PROVE  r.number < accepted[j].request.number
        <3>1. r.number < cidExp[c] /\ cidExp[c] \in Nat
            BY <1>1, <1>2, <2>2 DEF Outstanding, c
        <3>2. accepted[j].request.number = cidExp[c] + j - 1 /\ j \in Nat /\ 1 <= j
            BY <1>3, <1>6
        <3> QED BY <2>2, <3>1, <3>2
    <2>3. ASSUME NEW i \in DOMAIN requests', NEW j \in DOMAIN pending',
                 requests'[i].client = pending'[j].request.client
          PROVE  requests'[i].number < pending'[j].request.number
        <3>1. requests' = requests
            BY <1>1
        <3>2. CASE old(j)
            BY <2>3, <3>1, <3>2 DEF OrderInv, NumbersAscend
        <3>3. CASE new(j)
            <4>1. requests[i].client = c
                BY <1>6, <2>3, <3>1, <3>3
            <4>2. Outstanding(requests[i]) /\ requests[i].number \in Nat
                BY <2>3, <3>1, WaitingTypes DEF OrderInv, NoneLost
            <4> QED BY <2>2, <3>1, <3>3, <4>1, <4>2
        <3> QED BY <1>4, <3>2, <3>3
    <2>4. ASSUME NEW i \in DOMAIN pending', NEW j \in DOMAIN pending', i < j,
                 pending'[i].request.client = pending'[j].request.client
          PROVE  /\ pending'[i].request.number < pending'[j].request.number
                 /\ pending'[i].recvTime <= pending'[j].recvTime
        <3>1. CASE old(i) /\ old(j)
            BY <2>4, <3>1 DEF OrderInv, NumbersAscend
        <3>2. CASE old(i) /\ new(j)
            <4>1. pending[i].request.client = c
                BY <1>6, <2>4, <3>2
            <4>2. Outstanding(pending[i].request) /\ pending[i].request.number \in Nat
                BY <3>2, WaitingTypes DEF OrderInv, NoneLost
            <4>3. pending[i].request.number < pending'[j].request.number
                BY <2>2, <3>2, <4>1, <4>2
            <4>4. pending[i].request.life = k[2]
                <5>1. cidSocket[c] = <<c, pending[i].request.life>>
                    BY <4>1, <4>2 DEF Outstanding
                <5>2. cidSocket[c] = k
                    BY <1>7, <3>2, <5>1 DEF NoSocket
                <5> QED BY <1>2, <5>1, <5>2
            <4>5. pending[i].recvTime <= run[Len(run)].time
                BY <1>6, <3>2, <4>1, <4>4 DEF OrderInv, TimesAscend, c, run
            <4> QED BY <1>6, <3>2, <4>3, <4>5
        <3>3. CASE new(i) /\ new(j)
            <4> DEFINE a == i - Len(pending)
                       b == j - Len(pending)
            <4>1. a \in Nat /\ b \in Nat /\ a < b
                BY <1>3, <1>4, <2>4, <3>3
            <4> HIDE DEF a, b
            <4>2. /\ a \in DOMAIN accepted /\ b \in DOMAIN accepted
                  /\ pending'[i] = accepted[a] /\ pending'[j] = accepted[b]
                BY <3>3 DEF a, b
            <4>3. /\ accepted[a].request.number = cidExp[c] + a - 1
                  /\ accepted[b].request.number = cidExp[c] + b - 1
                  /\ accepted[a].recvTime = accepted[b].recvTime /\ accepted[a].recvTime \in Nat
                BY <1>6, <1>7, <4>2
            <4>4. cidExp[c] \in Nat
                BY <1>1, <1>2 DEF c
            <4> QED BY <4>1, <4>2, <4>3, <4>4
        <3>4. ~(new(i) /\ old(j))
            BY <1>3, <1>4, <2>4
        <3> QED BY <1>4, <3>1, <3>2, <3>3, <3>4
    <2> QED BY <2>1, <2>3, <2>4 DEF NumbersAscend
<1>13. TimesAscend'
    <2>1. \A j \in Connections : j # k => toServer'[j] = toServer[j]
        BY <1>1, <1>2
    <2>2. toServer'[k] = <<>> /\ DOMAIN toServer'[k] = {}
        BY <1>1, <1>2
    <2>3. clock' = clock
        BY <1>1
    <2>4. ASSUME NEW j \in Connections, NEW i \in DOMAIN toServer'[j]
          PROVE  toServer'[j][i].time <= clock'
        BY <2>1, <2>2, <2>3, <2>4 DEF OrderInv, TimesAscend
    <2>5. ASSUME NEW i \in DOMAIN pending'
          PROVE  /\ pending'[i].recvTime <= clock'
                 /\ \A j \in Connections :
                        /\ pending'[i].request.client = j[1]
                        /\ pending'[i].request.life = j[2]
                        => \A l \in DOMAIN toServer'[j] :
                               pending'[i].recvTime <= toServer'[j][l].time
        <3>1. CASE old(i)
            BY <2>1, <2>2, <2>3, <3>1 DEF OrderInv, TimesAscend
        <3>2. CASE new(i)
            <4>1. /\ pending'[i].recvTime <= clock
                  /\ pending'[i].request.client = k[1] /\ pending'[i].request.life = k[2]
                BY <1>6, <1>7, <3>2 DEF c
            <4>2. \A j \in Connections : j[1] = k[1] /\ j[2] = k[2] => j = k
                BY ConnectionIs
            <4> QED BY <2>2, <2>3, <4>1, <4>2
        <3> QED BY <1>4, <3>1, <3>2
    <2> QED BY <2>4, <2>5 DEF TimesAscend
<1> QED BY <1>11, <1>12, <1>13 DEF OrderInv

\* Every number is a value of a one-to-one function on the first numbers.
LEMMA OneToOneIsOnto ==
    ASSUME NEW n \in Nat, NEW f \in [1 .. n -> 1 .. n],
           \A i, j \in 1 .. n : i < j => f[i] # f[j],
           NEW m \in 1 .. n
    PROVE  \E i \in 1 .. n : f[i] = m
<1>1. IsFiniteSet(1 .. n)
    BY FS_Interval
<1>2. f \in Injection(1 .. n, 1 .. n)
    <2>1. \A i, j \in 1 .. n : f[i] = f[j] => i = j
        <3> SUFFICES ASSUME NEW i \in 1 .. n, NEW j \in 1 .. n, f[i] = f[j] PROVE i = j
            OBVIOUS
        <3>1. ~(i < j) /\ ~(j < i)
            OBVIOUS
        <3> QED BY <3>1
    <2> QED BY <2>1 DEF Injection, IsInjective
<1>3. f \in Surjection(1 .. n, 1 .. n)
    BY <1>1, <1>2, FS_Injection
<1> QED BY <1>3 DEF Surjection

\* The sequencer may change the order of two clients' requests, but not of one's, as long
\* as ties stay in order.
LEMMA SequenceOrder ==
    ASSUME Wellformed, OrderInv, ShortPasses, SequenceAndPublish
    PROVE  OrderInv'
<1>1. PICK q \in Sorted(pending) : requests' = requests \o q
    BY DEF SequenceAndPublish
<1>2. /\ pending' = <<>> /\ DOMAIN pending' = {}
      /\ UNCHANGED <<processed, cidExp, cidSocket, clock, toServer>>
    BY DEF SequenceAndPublish, networkVars
<1>3. pending \in Seq(RecvTimeClientRequest) /\ requests \in Seq(MEClientRequest)
    BY DEF Wellformed, TypeOK
<1>4. /\ q \in Seq(MEClientRequest) /\ Len(q) = Len(pending)
      /\ \E f \in [DOMAIN pending -> DOMAIN pending] :
             /\ \A i \in DOMAIN pending : q[i] = pending[f[i]].request
             /\ \A i, j \in DOMAIN pending : i < j =>
                   /\ f[i] # f[j]
                   /\ pending[f[i]].recvTime <= pending[f[j]].recvTime
                   /\ /\ Len(pending) <= StableUpTo
                      /\ pending[f[i]].recvTime = pending[f[j]].recvTime
                      => f[i] < f[j]
    BY <1>3, SortedIs
<1>5. PICK f \in [DOMAIN pending -> DOMAIN pending] :
          /\ \A i \in DOMAIN pending : q[i] = pending[f[i]].request
          /\ \A i, j \in DOMAIN pending : i < j =>
                /\ f[i] # f[j]
                /\ pending[f[i]].recvTime <= pending[f[j]].recvTime
                /\ pending[f[i]].recvTime = pending[f[j]].recvTime => f[i] < f[j]
    BY <1>4 DEF ShortPasses
<1>6. /\ DOMAIN q = DOMAIN pending /\ DOMAIN q = 1 .. Len(pending)
      /\ DOMAIN requests = 1 .. Len(requests) /\ Len(requests) \in Nat /\ Len(pending) \in Nat
    BY <1>3, <1>4, LenProperties
<1>7. \A m \in DOMAIN pending : \E i \in DOMAIN pending : f[i] = m
    <2> DEFINE n == Len(pending)
    <2>1. n \in Nat /\ DOMAIN pending = 1 .. n
        BY <1>6
    <2> HIDE DEF n
    <2>2. f \in [1 .. n -> 1 .. n] /\ \A i, j \in 1 .. n : i < j => f[i] # f[j]
        BY <1>5, <2>1
    <2>3. \A m \in 1 .. n : \E i \in 1 .. n : f[i] = m
        BY <2>1, <2>2, OneToOneIsOnto
    <2> QED BY <2>1, <2>3
<1>8. ASSUME NEW i \in DOMAIN q, NEW j \in DOMAIN q, i < j, q[i].client = q[j].client
      PROVE  q[i].number < q[j].number
    <2>1. /\ f[i] \in DOMAIN pending /\ f[j] \in DOMAIN pending /\ f[i] # f[j]
          /\ q[i] = pending[f[i]].request /\ q[j] = pending[f[j]].request
          /\ pending[f[i]].recvTime <= pending[f[j]].recvTime
          /\ pending[f[i]].recvTime = pending[f[j]].recvTime => f[i] < f[j]
        BY <1>5, <1>6, <1>8
    <2>2. /\ f[i] \in Nat /\ f[j] \in Nat
          /\ pending[f[i]].recvTime \in Nat /\ pending[f[j]].recvTime \in Nat
        BY <1>6, <2>1, WaitingTypes
    <2>3. ~(f[j] < f[i])
        <3> SUFFICES ASSUME f[j] < f[i] PROVE FALSE
            OBVIOUS
        <3>1. pending[f[j]].recvTime <= pending[f[i]].recvTime
            BY <1>8, <2>1 DEF OrderInv, NumbersAscend
        <3> QED BY <2>1, <2>2, <3>1
    <2>4. f[i] < f[j]
        BY <2>1, <2>2, <2>3
    <2> QED BY <1>8, <2>1, <2>4 DEF OrderInv, NumbersAscend
<1> DEFINE old(i) == i \in DOMAIN requests /\ requests'[i] = requests[i]
           new(i) == /\ i > Len(requests) /\ i - Len(requests) \in DOMAIN q
                     /\ requests'[i] = q[i - Len(requests)]
<1>9. \A i \in DOMAIN requests' : i \in Nat /\ (old(i) \/ new(i))
    <2>1. requests' \in Seq(MEClientRequest)
        BY <1>1, <1>3, <1>4, ConcatProperties
    <2>2. \A i \in DOMAIN requests' : i \in Nat
        BY <2>1, LenProperties
    <2>3. \A i \in DOMAIN requests' : old(i) \/ new(i)
        BY <1>1, <1>3, <1>4, Joined
    <2> QED BY <2>2, <2>3
<1>10. /\ \A i \in DOMAIN requests : i \in DOMAIN requests' /\ requests'[i] = requests[i]
       /\ \A i \in DOMAIN q : /\ i + Len(requests) \in DOMAIN requests'
                              /\ requests'[i + Len(requests)] = q[i]
    BY <1>1, <1>3, <1>4, Joined
<1>11. \A i \in DOMAIN q : f[i] \in DOMAIN pending /\ q[i] = pending[f[i]].request
    BY <1>5, <1>6
<1>12. NumbersAscend'
    <2>1. ASSUME NEW i \in DOMAIN requests', NEW j \in DOMAIN requests', i < j,
                 requests'[i].client = requests'[j].client
          PROVE  requests'[i].number < requests'[j].number
        <3>1. CASE old(i) /\ old(j)
            BY <2>1, <3>1 DEF OrderInv, NumbersAscend
        <3>2. CASE old(i) /\ new(j)
            <4> DEFINE b == j - Len(requests)
            <4>1. b \in DOMAIN q /\ requests'[j] = q[b]
                BY <3>2
            <4> HIDE DEF b
            <4>2. f[b] \in DOMAIN pending /\ q[b] = pending[f[b]].request
                BY <1>11, <4>1
            <4> QED BY <2>1, <3>2, <4>1, <4>2 DEF OrderInv, NumbersAscend
        <3>3. CASE new(i) /\ new(j)
            <4> DEFINE a == i - Len(requests)
                       b == j - Len(requests)
            <4>1. a < b
                BY <1>6, <1>9, <2>1
            <4>2. /\ a \in DOMAIN q /\ requests'[i] = q[a]
                  /\ b \in DOMAIN q /\ requests'[j] = q[b]
                BY <3>3
            <4> HIDE DEF a, b
            <4> QED BY <1>8, <2>1, <4>1, <4>2
        <3>4. ~(new(i) /\ old(j))
            BY <1>6, <1>9, <2>1
        <3> QED BY <1>9, <3>1, <3>2, <3>3, <3>4
    <2> QED BY <1>2, <2>1 DEF NumbersAscend
<1>13. TimesAscend'
    BY <1>2 DEF OrderInv, TimesAscend
<1>14. NoneLost'
    <2>1. \A r : Outstanding(r) => Outstanding(r)'
        BY <1>2 DEF Outstanding
    <2>2. ASSUME NEW i \in DOMAIN requests' PROVE Outstanding(requests[i])'
        <3>1. CASE old(i)
            BY <2>1, <3>1 DEF OrderInv, NoneLost
        <3>2. CASE new(i)
            <4> DEFINE b == i - Len(requests)
            <4>1. b \in DOMAIN q /\ requests'[i] = q[b]
                BY <3>2
            <4> HIDE DEF b
            <4>2. f[b] \in DOMAIN pending /\ q[b] = pending[f[b]].request
                BY <1>11, <4>1
            <4>3. Outstanding(q[b])
                BY <4>2 DEF OrderInv, NoneLost
            <4> QED BY <2>1, <4>1, <4>3
        <3> QED BY <1>9, <3>1, <3>2
    <2>3. ASSUME NEW d \in Clients, NEW n \in Nat, Waits(d, n) PROVE Waits(d, n)'
        <3>1. CASE \E i \in DOMAIN requests : requests[i].client = d /\ requests[i].number = n
            BY <1>10, <3>1 DEF Waits
        <3>2. CASE \E i \in DOMAIN pending :
                       pending[i].request.client = d /\ pending[i].request.number = n
            <4>1. PICK m \in DOMAIN pending :
                      pending[m].request.client = d /\ pending[m].request.number = n
                BY <3>2
            <4>2. PICK i \in DOMAIN pending : f[i] = m
                BY <1>7
            <4>3. i \in DOMAIN q /\ q[i].client = d /\ q[i].number = n
                BY <1>6, <1>11, <4>1, <4>2
            <4> QED BY <1>10, <4>3 DEF Waits
        <3> QED BY <2>3, <3>1, <3>2 DEF Waits
    <2> QED BY <1>2, <2>2, <2>3 DEF OrderInv, NoneLost
<1> QED BY <1>12, <1>13, <1>14 DEF OrderInv

\* The request at the head of the engine's queue is its client's next.
LEMMA HeadIsNext ==
    ASSUME Wellformed, OrderInv, requests # <<>>
    PROVE  LET r == Head(requests)
           IN  /\ r.number = processed[r.client] + 1
               /\ cidSocket[r.client] = <<r.client, r.life>>
<1> DEFINE r == requests[1]
           n == processed[r.client] + 1
<1>1. Head(requests) = r /\ 1 \in DOMAIN requests
    <2>1. requests \in Seq(MEClientRequest)
        BY DEF Wellformed, TypeOK
    <2> QED BY <2>1, HeadTailProperties, EmptySeq, LenProperties
<1>2. /\ r.client \in Clients /\ r.number \in Nat /\ processed[r.client] \in Nat
      /\ cidExp[r.client] \in Nat
    BY <1>1, WaitingTypes
<1>3. /\ processed[r.client] < r.number /\ r.number < cidExp[r.client]
      /\ cidSocket[r.client] = <<r.client, r.life>>
    BY <1>1 DEF OrderInv, NoneLost, Outstanding
<1>4. r.number = n
    <2> SUFFICES ASSUME n < r.number PROVE FALSE
        BY <1>2, <1>3
    <2>1. Waits(r.client, n)
        BY <1>2, <1>3 DEF OrderInv, NoneLost
    <2>2. CASE \E i \in DOMAIN requests :
                   requests[i].client = r.client /\ requests[i].number = n
        <3>1. PICK i \in DOMAIN requests :
                  requests[i].client = r.client /\ requests[i].number = n
            BY <2>2
        <3>2. i # 1
            BY <1>2, <3>1
        <3>3. 1 < i
            BY <3>2, WaitingTypes
        <3>4. r.number < n
            BY <1>1, <3>1, <3>3 DEF OrderInv, NumbersAscend
        <3> QED BY <1>2, <3>4
    <2>3. CASE \E i \in DOMAIN pending : /\ pending[i].request.client = r.client
                                         /\ pending[i].request.number = n
        <3>1. r.number < n
            BY <1>1, <2>3 DEF OrderInv, NumbersAscend
        <3> QED BY <1>2, <3>1
    <2> QED BY <2>1, <2>2, <2>3 DEF Waits
<1> QED BY <1>1, <1>3, <1>4

\* The engine takes the head of its queue.
LEMMA ProcessOrder ==
    ASSUME Wellformed, OrderInv, ProcessClientRequest
    PROVE  OrderInv'
<1> DEFINE r == Head(requests)
           c == r.client
<1>1. /\ requests # <<>> /\ requests' = Tail(requests)
      /\ processed' = [processed EXCEPT ![c] = r.number]
      /\ UNCHANGED <<pending, cidExp, cidSocket, clock, toServer>>
    BY DEF ProcessClientRequest, networkVars, serverVars
<1>2. /\ requests \in Seq(MEClientRequest)
      /\ processed \in [Clients -> Numbers \cup {0}]
    BY DEF Wellformed, TypeOK
<1>3. /\ Len(requests) \in Nat \ {0} /\ DOMAIN requests = 1 .. Len(requests)
      /\ r = requests[1] /\ 1 \in DOMAIN requests
      /\ DOMAIN requests' = 1 .. Len(requests) - 1
      /\ \A i \in 1 .. Len(requests) - 1 : requests'[i] = requests[i + 1]
    <2>1. /\ Len(requests) \in Nat \ {0} /\ DOMAIN requests = 1 .. Len(requests)
        BY <1>1, <1>2, LenProperties, EmptySeq
    <2>2. /\ r = requests[1] /\ Tail(requests) \in Seq(MEClientRequest)
          /\ Len(Tail(requests)) = Len(requests) - 1
          /\ \A i \in 1 .. Len(requests) - 1 : Tail(requests)[i] = requests[i + 1]
        BY <1>1, <1>2, HeadTailProperties
    <2>3. DOMAIN Tail(requests) = 1 .. Len(requests) - 1
        BY <2>2, LenProperties
    <2> QED BY <1>1, <2>1, <2>2, <2>3
<1>4. c \in Clients /\ r.number \in Nat
    BY <1>3, WaitingTypes
<1>5. /\ processed'[c] = r.number /\ r.number = processed[c] + 1
      /\ \A d \in Clients : d # c => processed'[d] = processed[d]
    BY <1>1, <1>2, <1>4, HeadIsNext
<1> HIDE DEF r, c
<1>6. \A i \in DOMAIN requests' : i + 1 \in DOMAIN requests /\ requests'[i] = requests[i + 1]
    BY <1>3
<1>7. NumbersAscend'
    <2>1. ASSUME NEW i \in DOMAIN requests', NEW j \in DOMAIN requests', i < j,
                 requests'[i].client = requests'[j].client
          PROVE  requests'[i].number < requests'[j].number
        <3>1. i + 1 < j + 1
            BY <1>3, <2>1
        <3> QED BY <1>6, <2>1, <3>1 DEF OrderInv, NumbersAscend
    <2>2. ASSUME NEW i \in DOMAIN requests', NEW j \in DOMAIN pending',
                 requests'[i].client = pending'[j].request.client
          PROVE  requests'[i].number < pending'[j].request.number
        BY <1>1, <1>6, <2>2 DEF OrderInv, NumbersAscend
    <2>3. \A i, j \in DOMAIN pending' :
              i < j /\ pending'[i].request.client = pending'[j].request.client =>
                  /\ pending'[i].request.number < pending'[j].request.number
                  /\ pending'[i].recvTime <= pending'[j].recvTime
        BY <1>1 DEF OrderInv, NumbersAscend
    <2> QED BY <2>1, <2>2, <2>3 DEF NumbersAscend
<1>8. TimesAscend'
    BY <1>1 DEF OrderInv, TimesAscend
<1>9. ASSUME NEW s, s.client \in Clients, Outstanding(s), s.client = c => r.number < s.number
      PROVE  Outstanding(s)'
    <2>1. CASE s.client = c
        BY <1>1, <1>5, <1>9, <2>1 DEF Outstanding
    <2>2. CASE s.client # c
        BY <1>1, <1>5, <1>9, <2>2 DEF Outstanding
    <2> QED BY <2>1, <2>2
<1>10. NoneLost'
    <2>1. ASSUME NEW d \in Clients PROVE processed'[d] < cidExp'[d]
        <3>1. CASE d = c
            <4>1. r.number < cidExp[c]
                BY <1>3 DEF OrderInv, NoneLost, Outstanding, c
            <4> QED BY <1>1, <1>5, <3>1, <4>1
        <3>2. CASE d # c
            BY <1>1, <1>5, <3>2 DEF OrderInv, NoneLost
        <3> QED BY <3>1, <3>2
    <2>2. ASSUME NEW d \in Clients, NEW n \in Nat, processed'[d] < n, n < cidExp'[d]
          PROVE  Waits(d, n)'
        <3>1. processed[d] < n /\ (d = c => r.number < n)
            <4>1. processed[d] \in Nat
                BY WaitingTypes
            <4>2. CASE d = c
                BY <1>4, <1>5, <2>2, <4>1, <4>2
            <4>3. CASE d # c
                BY <1>5, <2>2, <4>3
            <4> QED BY <4>2, <4>3
        <3>2. Waits(d, n)
            BY <1>1, <2>2, <3>1 DEF OrderInv, NoneLost
        <3>3. CASE \E i \in DOMAIN requests : requests[i].client = d /\ requests[i].number = n
            <4>1. PICK i \in DOMAIN requests : requests[i].client = d /\ requests[i].number = n
                BY <3>3
            <4>2. i # 1
                BY <1>3, <1>4, <3>1, <4>1 DEF c
            <4>3. i - 1 \in DOMAIN requests' /\ requests'[i - 1] = requests[i]
                <5>1. i - 1 \in 1 .. Len(requests) - 1 /\ (i - 1) + 1 = i
                    BY <1>3, <4>2
                <5> QED BY <1>3, <5>1
            <4> QED BY <4>1, <4>3 DEF Waits
        <3>4. CASE \E i \in DOMAIN pending :
                       pending[i].request.client = d /\ pending[i].request.number = n
            BY <1>1, <3>4 DEF Waits
        <3> QED BY <3>2, <3>3, <3>4 DEF Waits
    <2>3. ASSUME NEW i \in DOMAIN requests' PROVE Outstanding(requests[i])'
        <3>1. i + 1 \in DOMAIN requests /\ requests'[i] = requests[i + 1] /\ 1 < i + 1
            BY <1>3, <1>6
        <3>2. requests[i + 1].client \in Clients /\ Outstanding(requests[i + 1])
            BY <3>1, WaitingTypes DEF OrderInv, NoneLost
        <3>3. requests[i + 1].client = c => r.number < requests[i + 1].number
            BY <1>3, <3>1 DEF OrderInv, NumbersAscend, c
        <3> QED BY <1>9, <3>1, <3>2, <3>3
    <2>4. ASSUME NEW i \in DOMAIN pending' PROVE Outstanding(pending[i].request)'
        <3>1. /\ pending[i].request.client \in Clients /\ Outstanding(pending[i].request)
              /\ pending' = pending /\ i \in DOMAIN pending
            BY <1>1, WaitingTypes DEF OrderInv, NoneLost
        <3>2. pending[i].request.client = c => r.number < pending[i].request.number
            BY <1>3, <3>1 DEF OrderInv, NumbersAscend, c
        <3> QED BY <1>9, <3>1, <3>2
    <2> QED BY <2>1, <2>2, <2>3, <2>4 DEF NoneLost
<1> QED BY <1>7, <1>8, <1>10 DEF OrderInv

\* Every step keeps the order.
LEMMA StepOrder == Wellformed /\ ShortPasses /\ OrderInv /\ [Next]_vars => OrderInv'
<1> SUFFICES ASSUME Wellformed, ShortPasses, OrderInv, [Next]_vars PROVE OrderInv'
    OBVIOUS
<1>1. ASSUME NEW c \in Clients, Start(c) \/ Die(c) \/ SendRequest(c)
      PROVE  OrderInv'
    BY <1>1, OrderStays DEF Start, Die, SendRequest, networkVars, serverVars, engineVars
<1>2. CASE Poll \/ SendResponse \/ UNCHANGED vars
    BY <1>2, OrderStays DEF Poll, SendResponse, networkVars, serverVars, engineVars, vars
<1> QED BY <1>1, <1>2, GatewayOrder, ReadSocketOrder, SequenceOrder, ProcessOrder
        DEF Next, Client, OrderServer

\* As long as no pass is too long for a stable sort, the engine gets each client's requests
\* in the order the client sent them, none twice, none left out, and all from one of its
\* connections.
THEOREM OrderKept == Spec /\ []ShortPasses => RequestsInOrder
<1>1. Init => OrderInv
    BY DEF Init, OrderInv, NumbersAscend, TimesAscend, NoneLost
<1>2. Wellformed /\ OrderInv /\ [Next]_vars =>
          [ProcessClientRequest =>
              LET r == Head(requests)
              IN  /\ r.number = processed[r.client] + 1
                  /\ cidSocket[r.client] = <<r.client, r.life>>]_vars
    BY HeadIsNext DEF ProcessClientRequest
<1> QED BY <1>1, <1>2, InitWellformed, StepWellformed, StepOrder, PTL DEF Spec, RequestsInOrder
=============================================================================
