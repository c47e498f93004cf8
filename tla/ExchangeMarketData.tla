-------------------------- MODULE ExchangeMarketData --------------------------
(***************************************************************************)
(* The exchange's market data, from the book to the two streams: three     *)
(* threads and the two lock free queues between them.                      *)
(*                                                                         *)
(*   CMatchingEngine       writes an update for every change of the book   *)
(*                         (module MEOrderBook),                           *)
(*   CMarketDataPublisher  numbers it, sends it on the incremental stream  *)
(*                         and hands it on,                                *)
(*   CSnapshotSynthesizer  keeps a book of its own from what it is handed  *)
(*                         and sends a copy of it now and then.            *)
(*                                                                         *)
(* The queues are bounded first-in first-out channels, which is what       *)
(* module LockFreeQueue shows them to be.  One instrument.                 *)
(***************************************************************************)
EXTENDS MEOrderBook

CONSTANT MaxBacklog   \* bound on either queue

ASSUME BacklogAssumption == MaxBacklog \in Nat \ {0}

VARIABLES outgoing,           \* m_pOutgoingMdUpdates
          forwarding,         \* sent, and about to be handed on
          nextIncSeqNum,      \* m_nextIncSeqNum
          snapshotMdUpdates,  \* m_snapshotMdUpdates
          tickerOrders,       \* m_tickerOrders of the instrument
          lastIncSeqNum       \* m_lastIncSeqNum

publisherVars == <<forwarding, nextIncSeqNum>>
synthVars     == <<tickerOrders, lastIncSeqNum>>
mdVars == <<vars, outgoing, publisherVars, snapshotMdUpdates, synthVars>>

\* nullptr, and nothing to forward
NoOrder  == [mid |-> 0]
NoUpdate == [mid |-> 0]

MDInit ==
    /\ Init
    /\ outgoing = <<>>
    /\ forwarding = NoUpdate
    /\ nextIncSeqNum = 1
    /\ snapshotMdUpdates = <<>>
    /\ tickerOrders = [m \in Mids |-> NoOrder]
    /\ lastIncSeqNum = 0

-----------------------------------------------------------------------------
(* The matching engine's thread: SendMarketUpdate of each update it has.   *)

Write(step) ==
    /\ step
    /\ Len(outgoing) + Len(updates') <= MaxBacklog
    /\ outgoing' = outgoing \o updates'
    /\ UNCHANGED <<publisherVars, snapshotMdUpdates, synthVars>>

EngineRequest ==
    \/ \E c \in Clients, oid \in OrderIds, s \in Sides, p \in Prices,
          q \in Quantities : Write(AddOrder(c, oid, s, p, q))
    \/ \E c \in Clients, oid \in OrderIds : Write(CancelOrder(c, oid))

EngineMatching == (\E o \in orders : Write(Match(o))) \/ Write(AddRemainder)

\* The other threads' steps: the engine writes nothing.
Silent ==
    /\ responses' = <<>>
    /\ updates' = <<>>
    /\ UNCHANGED <<bookVars, nextMid, aggressor>>

-----------------------------------------------------------------------------
(* CMarketDataPublisher::Run                                               *)

\* The oldest update goes out under the next number and its slot is released.
SendIncremental ==
    /\ forwarding = NoUpdate
    /\ outgoing # <<>>
    /\ forwarding' = Head(outgoing)
    /\ outgoing' = Tail(outgoing)
    /\ Silent
    /\ UNCHANGED <<nextIncSeqNum, snapshotMdUpdates, synthVars>>

\* Mutant: the number is incremented before the update is handed on.
ForwardRenumbered ==
    /\ forwarding # NoUpdate
    /\ Len(snapshotMdUpdates) < MaxBacklog
    /\ snapshotMdUpdates' = Append(snapshotMdUpdates,
           [seqNum |-> nextIncSeqNum + 1, update |-> forwarding])
    /\ nextIncSeqNum' = nextIncSeqNum + 1
    /\ forwarding' = NoUpdate
    /\ Silent
    /\ UNCHANGED <<outgoing, synthVars>>

\* Mutant: an update that finds the synthesizer's queue full is dropped.
ForwardOrDrop ==
    /\ forwarding # NoUpdate
    /\ snapshotMdUpdates' =
           IF Len(snapshotMdUpdates) = MaxBacklog
           THEN snapshotMdUpdates
           ELSE Append(snapshotMdUpdates,
                       [seqNum |-> nextIncSeqNum, update |-> forwarding])
    /\ nextIncSeqNum' = nextIncSeqNum + 1
    /\ forwarding' = NoUpdate
    /\ Silent
    /\ UNCHANGED <<outgoing, synthVars>>

\* It is then handed to the snapshot synthesizer under the same number.
ForwardUpdate ==
    /\ forwarding # NoUpdate
    /\ Len(snapshotMdUpdates) < MaxBacklog
    /\ snapshotMdUpdates' = Append(snapshotMdUpdates,
           [seqNum |-> nextIncSeqNum, update |-> forwarding])
    /\ nextIncSeqNum' = nextIncSeqNum + 1
    /\ forwarding' = NoUpdate
    /\ Silent
    /\ UNCHANGED <<outgoing, synthVars>>

Publisher == SendIncremental \/ ForwardUpdate

-----------------------------------------------------------------------------
(* CSnapshotSynthesizer::Run                                               *)

\* The ASSERTs of AddToSnapshot for message m.
Expected(m) ==
    LET u == m.update
    IN  /\ u.type = "ADD" => tickerOrders[u.mid] = NoOrder
        /\ u.type \in {"MODIFY", "CANCEL"} =>
               /\ tickerOrders[u.mid] # NoOrder
               /\ tickerOrders[u.mid].side = u.side
        /\ m.seqNum = lastIncSeqNum + 1

\* The switch of AddToSnapshot.
Apply(u) ==
    CASE u.type = "ADD" ->
             [tickerOrders EXCEPT ![u.mid] =
                 [mid |-> u.mid, side |-> u.side, price |-> u.price,
                  qty |-> u.qty, priority |-> u.priority]]
      [] u.type = "MODIFY" ->
             [tickerOrders EXCEPT ![u.mid].qty = u.qty, ![u.mid].price = u.price]
      [] u.type = "CANCEL" -> [tickerOrders EXCEPT ![u.mid] = NoOrder]
      [] OTHER -> tickerOrders

AddToSnapshot ==
    /\ snapshotMdUpdates # <<>>
    /\ LET m == Head(snapshotMdUpdates)
       IN  /\ Expected(m)
           /\ tickerOrders' = Apply(m.update)
           /\ lastIncSeqNum' = m.seqNum
    /\ snapshotMdUpdates' = Tail(snapshotMdUpdates)
    /\ Silent
    /\ UNCHANGED <<outgoing, publisherVars>>

\* Mutant: newest order first.
PublishSnapshotBackwards ==
    LET sent[m \in 0 .. MaxOrders] ==
            IF m = 0 THEN <<>>
            ELSE IF tickerOrders[MaxOrders + 1 - m] = NoOrder THEN sent[m - 1]
            ELSE Append(sent[m - 1], tickerOrders[MaxOrders + 1 - m])
    IN  [last |-> lastIncSeqNum, orders |-> sent[MaxOrders]]

\* What is sent when the sixty seconds are over: the orders by ascending order id,
\* between SNAPSHOT_START and SNAPSHOT_END messages that carry the last number
\* applied.  It leaves the state alone, so it is not a step.  The loop above it
\* ends when it finds the queue empty, but by then the publisher may have filled
\* it again: it can happen in every state.
PublishSnapshot ==
    LET sent[m \in 0 .. MaxOrders] ==
            IF m = 0 THEN <<>>
            ELSE IF tickerOrders[m] = NoOrder THEN sent[m - 1]
            ELSE Append(sent[m - 1], tickerOrders[m])
    IN  [last |-> lastIncSeqNum, orders |-> sent[MaxOrders]]

Synthesizer == AddToSnapshot

-----------------------------------------------------------------------------

MDNext == EngineRequest \/ EngineMatching \/ Publisher \/ Synthesizer

\* The three threads spin on their queues and never block.
MDSpec == /\ MDInit /\ [][MDNext]_mdVars
          /\ WF_mdVars(EngineMatching)
          /\ WF_mdVars(Publisher)
          /\ WF_mdVars(Synthesizer)

-----------------------------------------------------------------------------
(* What makes the two streams correct.                                     *)

\* The update that was sent under number k and handed on, while it is queued.
HandedOn(k) ==
    LET queued == {snapshotMdUpdates[i] : i \in DOMAIN snapshotMdUpdates}
    IN  (CHOOSE m \in queued : m.seqNum = k).update

\* The updates that the publisher has written since number n, or will write.
After(n) ==
    [i \in 1 .. nextIncSeqNum - 1 - n |-> HandedOn(n + i)]
        \o (IF forwarding = NoUpdate THEN <<>> ELSE <<forwarding>>)
        \o outgoing

\* The book a reader has who starts from book and applies a run of updates.
ReplayAll(book, run) ==
    LET after[i \in 0 .. Len(run)] == IF i = 0 THEN book
                                      ELSE Replay(after[i - 1], run[i])
    IN  after[Len(run)]

\* Whatever is sent, the synthesizer's ASSERTs hold: no order appears twice, none
\* is changed or cancelled that is not there, and no number is missing.
NothingUnexpected ==
    snapshotMdUpdates # <<>> => Expected(Head(snapshotMdUpdates))

\* A reader that joins with a snapshot cycle and goes on with the incremental
\* stream from the number after the one the cycle carries ends up with the
\* engine's book, however far the three threads were apart at the time; and as it
\* appends the orders of the cycle one by one, they come in the order in which they
\* trade at each price.
SnapshotJoinsStream ==
    LET sent == PublishSnapshot.orders
    IN  /\ ReplayAll({sent[i] : i \in DOMAIN sent}, After(PublishSnapshot.last))
               = PublishedBook
        /\ \A i, j \in DOMAIN sent :
               i < j /\ sent[i].side = sent[j].side /\ sent[i].price = sent[j].price
                   => sent[i].priority < sent[j].priority

\* How many updates the engine has written: those handed on, the one that is sent
\* and waits for a free slot of the synthesizer's queue, and those still queued.
Written ==
    nextIncSeqNum - 1 + (IF forwarding = NoUpdate THEN 0 ELSE 1) + Len(outgoing)

\* Every update the engine has written reaches the snapshot: none is dropped and
\* none waits for ever, although the publisher finds the synthesizer's queue full,
\* and the engine the publisher's, at any time.  Both numbers only grow, the first
\* is never ahead of the second, and the bound on the orders ends the writing: that
\* they meet for good says of every n that Written >= n leads to lastIncSeqNum >= n.
EveryUpdateReachesSnapshot == <>[](lastIncSeqNum = Written)
=============================================================================
