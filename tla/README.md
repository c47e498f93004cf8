# TLA+ specifications of the UltraLowLatency exchange and trading client

The program is a small electronic trading system in C++: an exchange process and
any number of trading clients on the same network. This directory specifies its
core in TLA+, checks the specifications with TLC on small instances, and proves the
safety of nine of its components with TLAPS: the queue between the threads and the
logger that is built on it, the exchange's order book, the linked lists inside it and its
market data, the client's market data consumer and its copy of the book, order entry, and
the client's order management. Paths below are relative to `src/`.

## The system

Every thread spins, and talks to the other threads of its process only through
single-writer single-reader lock free queues. `CreateAndStartThread` can pin a thread to a
core, but all of the program's threads are created with the core -1, which leaves them to
the scheduler.

```
   trading client                                 exchange
  +----------------+    requests, TCP     +----------------------------+
  | order gateway  | -------------------> | order server + sequencer   |
  |                | <------------------- |                            |
  +----------------+    responses, TCP    +----------------------------+
     ^ queues |                                | requests    ^ responses
     |        v                                v  (queues)   |
  +----------------+                      +----------------------------+
  | trade engine   |                      | matching engine (books)    |
  +----------------+                      +----------------------------+
        ^ queue                                | updates (queue)
        |                                      v
  +----------------+  incremental stream  +----------------------------+
  | market data    | <=================== | market data publisher      |
  | consumer       |      (multicast)     +----------------------------+
  |                |                           | numbered updates (queue)
  |                |  snapshot stream          v
  |                | <=================== +----------------------------+
  +----------------+      (multicast)     | snapshot synthesizer       |
                                          +----------------------------+
```

| Component | State it keeps | Operations | What makes it correct |
| --- | --- | --- | --- |
| Lock free queue (`common/LockFreeQueue.h`) | ring, write and read index, element count | GetNextToWriteTo / UpdateWriteIndex, GetNextToRead / UpdateReadIndex | elements arrive once, whole and in order; no slot is touched by both threads |
| Matching engine order book (`exchange/matcher/MatchingEngineOrderBook.*`) | orders, levels per side, two tables, next order id | Add (with match loop), Cancel | never crossed; price-time priority; tables and lists agree; owners are told of everything; the updates reproduce the book |
| Matching engine (`exchange/matcher/MatchingEngine.*`) | a book per instrument, three queues | Run | one request at a time |
| Market data publisher (`exchange/market_data/MarketDataPublisher.*`) | next incremental number | Run | every update is sent once, numbered without a gap, and handed on under the same number |
| Snapshot synthesizer (`exchange/market_data/SnapshotSynthesizer.*`) | orders per instrument, last number applied | AddToSnapshot, PublishSnapshot | a snapshot and the stream after its number give the book |
| Market data consumer (`trading/market_data/MarketDataConsumer.*`) | next expected number, recovery flag, two maps of queued messages | RecvCallback, startSnapshotSync, checkSnapshotSync | in step means current; recovery ends; recovery only after a loss |
| Order server and FIFO sequencer (`exchange/order_server/*`) | per client: expected and outgoing numbers, socket; pending requests | RecvCallback, RecvFinishedCallback, Run | requests reach the engine once and in order; responses reach their client |
| Order gateway (`trading/order_gw/OrderGateway.*`) | outgoing and expected numbers | Run, RecvCallback | responses come without a gap |
| TCP server and sockets (`common/Tcp*`) | sockets, send and receive buffers | Poll, SendAndRecv | nothing written is lost |
| Client order book (`trading/strategy/MarketOrderBook.*`) | orders, levels, best bid and offer | OnMarketUpdate, UpdateBBO | the cached best prices are those of the book |
| Order manager (`trading/strategy/OrderManager.*`) | one order per instrument and side with its state | OnOrderUpdate, NewOrder, CancelOrder, MoveOrders | its state follows the exchange's |
| Position keeper, risk manager | position and profit per instrument; limits | AddFill, UpdateBBO; CheckPreTradeRisk | the position stays within its limit |
| Trade engine, feature engine, strategies | the above, per client | Run, event handlers | every event reaches book, keeper and strategy in that order |
| Loggers (`common/Logging.h`) | a queue, a file, a flag, a thread | Log, PushValue, FlushQueue, the destructor | the file has all that was pushed, in order; closing ends |
| Memory pools, start-up and shutdown, utilities | blocks; threads | — | blocks are given out once; nothing is used after it is gone |

### Where it is hard

* Lock free queues have no test for full; correctness hangs on the reader's lag.
  One reader, the publisher, uses a slot again after giving it back.
* The matching loop removes what it iterates over: orders, levels, and table entries.
* The snapshot is produced by a third thread from updates that two other threads are
  ahead of, and travels over another multicast group than the stream it is joined to.
* Datagrams get lost and overtake each other, and messages of different snapshot
  cycles have the same numbers.
* The sequencer sorts what one pass over the sockets has read, no more.
* A send that would block loses its data.
* The order server never lets go of a connection: a client that comes back is refused,
  while what its first process sent may still be on its way.
* The exchange's logger is deleted by a signal handler, on top of whatever its owner
  was doing.
* In the client, fills, acknowledgements, cancels and market data arrive at the trade
  engine through two queues, and the strategy acts on what it has seen so far.

`PROJECT.json` lists these hazards one by one at their lines, with the property that
watches over each, or the reason why there is none yet.

## The modules

| Module | Models | Role |
| --- | --- | --- |
| `Fifo` | what a queue promises | abstract specification |
| `LockFreeQueue` | `CLockFreeQueue` with its writer and reader | implements `Fifo` |
| `LockFreeQueue_proof` | | theorems about it, and about `Logger` |
| `MEOrderBook` | `CMEOrderBook`, one instrument | component |
| `MEOrderBook_proof` | | theorems about it |
| `PriceTimeBook` | what the linked lists of a book promise | abstract specification |
| `BookLists` | the pointer operations of `CMEOrderBook` | implements `PriceTimeBook` |
| `BookLists_proof` | | theorems about it, the implementation included |
| `ExchangeMarketData` | engine, publisher and synthesizer | composition, extends `MEOrderBook` |
| `ExchangeMarketData_proof` | | theorems about it, with those of `MEOrderBook_proof` |
| `MarketDataConsumer` | `CMarketDataConsumer` and a lossy network | component |
| `MarketDataConsumer_proof` | | theorems about it |
| `OrderEntry` | client processes, gateways, TCP connections, order server, sequencer | component |
| `OrderEntry_proof` | | theorems about it |
| `Logger` | `CLogger`, its owner and its thread | component, extends `LockFreeQueue` |
| `MemoryPool` | `CMemoryPool` | operators on pools |
| `ClientOrderBook` | `CMarketOrderBook`, one instrument | component, extends `MemoryPool` |
| `ClientOrderBook_proof` | | theorems about it and its pools |
| `PositionKeeper` | `SPositionInfo` | component |
| `OrderManager` | order manager, risk check, strategies and trade engine of one instrument, with the exchange they talk to | composition, extends `PositionKeeper` |
| `OrderManager_proof` | | theorems about it |
| `MCMEOrderBook`, `MCOrderEntry`, `MCLogger`, `MCClientOrderBook` | | constants and symmetry for TLC |

**LockFreeQueue.** Each access to an atomic member is a step: the two halves of
`UpdateWriteIndex` (index, then count) and of `UpdateReadIndex` (index, assertion,
count) are separate actions, and the assignment to a slot has a beginning
(`GetNextToWriteTo`) and an end (`FillSlot`), so that a read in between is a data race
and may return `Torn`. `MaxBacklog` is the environment's promise that the reader
keeps up; the code has no such guard, and `MaxBacklog` may exceed `Capacity`.
`BacklogFits` says when it is small enough: at most `Capacity`, or one less for a
reader with `ReleaseEarly`, which is the publisher.

**MEOrderBook.** `AddOrder` accepts a request and begins `CheckForMatch`; each
iteration of its loop is a `Match`; `AddRemainder` is the rest of the function.
`CancelOrder` is one action. A level's list is the set of its orders in the order of
their market order ids; module `BookLists` is the justification. The table of levels
is indexed by `price % PriceLevels` as in the code. What the step sends is in
`responses` and `updates`.

In the code `m_cidOidToOrder` and `m_priceOrdersAtPrice` are never written before
they are first read. An order book is far larger than the allocator's mmap threshold
(the first table alone is 2 GB), so its memory comes zeroed from the kernel, and
`Init` has them empty.

**BookLists.** The circular doubly linked lists of levels and of orders, assignment
by assignment; the walk of `AddOrdersAtPrice` to a level's place is one step per
iteration. The refinement mapping follows the pointers from the best level and from
`pFirstMeOrder`, cutting off what does not come round.

**ExchangeMarketData.** Three threads and two bounded queues. The engine's steps are
those of `MEOrderBook` with the updates appended to the queue (it waits when the
bound is reached: `MaxBacklog` again stands for a reader that keeps up). The
publisher sends an update and releases its slot (`SendIncremental`), then hands it on
under the same number (`ForwardUpdate`); `RereadStable` of `LockFreeQueue` is why one
value `forwarding` stands for both reads. A snapshot (`PublishSnapshot`) changes no
state; it is what the invariants speak about in every state.

**MarketDataConsumer.** The exchange is abstracted to a stream of additions and
removals and to cycles of snapshot messages, of which START, CLEAR and the first order
share one datagram, as the synthesizer sends them. Updates that modify an order or
report a trade take the same way through this component. Losses, reordering
of incremental datagrams, and the consumer's subscription to the snapshot group are
actions. `RecvIncremental` and `RecvSnapshot` are `RecvCallback` for one message, with
the whole of `startSnapshotSync` and `checkSnapshotSync`.

**OrderEntry.** A request is a client, the process that sent it and a number. A client's
process starts with a new connection (`Start`), and may end at any moment with
what is in its buffers (`Die`); what has arrived at the exchange can still be read there.
The server accepts all connections that wait (`Poll`), and from then on looks at
each in every pass: `Del` is in the code, but nothing is ever put on
`m_disconnectedSockets`. The first request ties a client's id to its connection for
good, so that a process that comes back is heard only if the first one was never read
(`SocketOf`, `Accepted`); a response to a dead process goes nowhere (`Delivered`).
Client buffers, the bytes under way, the server's pass over its sockets with the kernel's receive times, the
sequencer's batch, both queues and the buffers back are explicit. `Sorted` gives every
order that `std::sort` may produce: a sequence of at most 16 elements is sorted by
insertion, which keeps ties in order, and `StableUpTo` says so. With `MayBlock`, a send
buffer may be discarded without having been sent. `m_sendSockets` of the server is
always empty, since sockets are registered for `EPOLLET | EPOLLIN` only
(`common/TcpServer.cpp:16`), so its pass is over `m_receiveSockets`.

**Logger.** The queue is `LockFreeQueue`, step for step. `Log` begins a message,
`PushValue` begins one of its elements and `FinishPush` is every step of that push up to
`UpdateWriteIndex`'s last. `FlushQueue` on the logger's thread tests the flag, empties the
queue and sleeps. `Close` may come between any two of the owner's steps, as the
exchange's SIGINT handler does, which runs the destructor (`AwaitEmptyQueue`, `Join`)
on the interrupted thread and exits without returning to it; in the client it is called
at the end of `main`, which is one of these cases. The kernel gives a signal to the main
thread if that can take it, and here the main thread is the owner. What an
element looks like in the file is left out: elements are opaque values.

**ClientOrderBook** and **MemoryPool.** One action per kind of market update, each the
whole of `OnMarketUpdate` down to `UpdateBBO`. Orders and levels are blocks of two pools
and pointers are block numbers, so that a pointer to a block that was given back means
what it means in the code: the block's old contents. Only where nothing points to a block
any more are its contents forgotten, which keeps the state space small. The lists
are sequences; their links are the same code as the matching engine's, which `BookLists`
has. `live` is the book the updates speak of. Updates are what an exchange sends whose
book is not crossed; ids are reused so that the updates go on for ever. `Recovers`
says whether a CLEAR may meet a book with orders in it, as it does in every recovery
after the first.

**PositionKeeper.** `AddFill` and `UpdateBBO` are those of `SPositionInfo`. Money is a
number of units of 1 / `Scale`, where `Scale` is a multiple of all that average
prices divide by, so that it is exact; the code has doubles. `cash` and
`mark` are not in the code: what the fills have paid, and the price the position was
last valued at.

**OrderManager.** The trade engine's handlers are actions: `OnOrderUpdate` updates
position keeper and order, `OnOrderBookUpdate` and `OnTradeUpdate` let the market maker or
the liquidity taker move its two orders, with the risk check as `Allowed`. What the
strategies decide from floating-point features is a choice (quote at the best price or
one behind; take or not). The features are computed from the same instrument's
book in the same handler, before the strategy looks at them. The exchange accepts,
cancels and fills what it has of this client whenever it likes, in any part that is
left, at the limit or better; requests and responses travel in two ordered channels, as
`OrderEntry` justifies while sends do not block. `ClipAssumption` leaves out the clip of 0
that an instrument without configuration has.

## What the runs check

| Run | Instance | Shows |
| --- | --- | --- |
| `lfq` | ring of 4, backlog 3, publisher's reader | no race, no overwriting, stable second read, the assertion, and that the ring implements `Fifo` with its liveness |
| `me_book` | 2 clients, 2 ids each, 3 prices that wrap round a table of 4, quantities 0 to 2, 4 orders | `Uncrossed`, `TablesAgree`, `PriorityIsArrival`, `PriceTimePriority`, `FillsReported`, `StreamIsBook` |
| `book_lists` | 4 orders, 4 prices | the pointers implement `PriceTimeBook`; back pointers; the walk ends |
| `exchange_md` | 1 client, 3 orders, 2 prices, queues of 2 | the synthesizer's assertions, `SnapshotJoinsStream` (with the orders in the order they trade), every update the engine writes is applied to the snapshot, matching ends |
| `md_consumer` | 4 updates, 2 lost, 1 snapshot datagram lost, reordering | `BookIsCurrent`, `RecoveryEnds` |
| `md_mixed` | 3 updates, 1 lost, 2 snapshot datagrams lost | `BookIsCurrent` is **violated** |
| `order_entry` | 2 clients with 2 requests; one of them may die, once, and come back with 2 more after 1 | `RequestsInOrder` (exactly once, from one connection), `NoSequenceGap`, `OvertakenWithinPass`, `EveryRequestAnswered` |
| `oe_block` | 2 clients that live, 2 requests each, sends may block | `NoSequenceGap` is **violated** |
| `order_manager` | 3 orders of 2 units, position limit 3, loss limit, best prices 2 and 3 | `PositionWithinLimit`, `OneOrderPerSide`, `ResponseMeetsItsOrder`, `AccountsBalance`, requests settle |
| `logger` | ring of 4, at most 5 messages of 1 or 2 elements, closed anywhere | `FileIsLog`, `CloseEnds` |
| `client_book` | 3 live orders, 3 prices that wrap round the table, pools of 4 | `BookIsStream`, `BBOIsTopOrAbsent`, `PoolsAccount` |
| `client_clear` | the same, with CLEAR of a book that has orders | `BookIsStream` is **violated** |

### Bounds, and why they are enough

* `lfq`: with a ring of four and a backlog of three both indices wrap, the queue
  fills up, and reader and writer meet in neighbouring slots. Two values tell an old
  element from a new one. The proofs remove these bounds.
* `me_book`: four orders are enough for an order that trades through two levels or
  two orders of one level and rests with what is left, for partial fills of either
  side, and for a level that empties and comes back. A quantity of 0 is what the code
  lets through. Clients are symmetric. The proofs remove these bounds for all but
  `MatchingEnds`.
* `book_lists`: with four levels a new one goes to the head, to the tail and into
  the middle, and the walk's loop runs, stops and comes round. Four orders make a
  level from whose head, middle and tail one is taken.
  The proofs remove the bounds for all but `WalkEnds`.
* `exchange_md`: queues of two fill up at either place, and an update pair of a match
  fills one at once. Three orders are two that rest and one that trades. The proofs
  remove these bounds for the two invariants.
  `EveryUpdateReachesSnapshot` counts an update from the moment the engine writes it
  (`Written`), so that both waits, for the publisher's queue to be read and for room in the
  synthesizer's, are inside. Three orders write up to eight updates, four times what a queue
  holds. That the two counts meet for good is, since both only grow and the orders are
  bounded, the same as a leads-to for each of the eight, in one formula.
* `md_consumer`: four updates are two additions with their removals, so a stale
  snapshot differs from a fresh one with fewer, as many and more orders; a loss can
  hit the beginning, the middle and the end of a snapshot. The proofs remove the bounds
  for the invariants, and say exactly which loss `BookIsCurrent` does not survive.
* `order_entry`: two clients are what an unfair pass over the sockets needs; two
  requests of each make batches that interleave. One death, with a request of the dead
  process in any place from its send buffer to the engine, and a successor that
  sends the same numbers again, is the case in which two connections of one client
  compete; the other client shows that nobody else is held up. A second death adds a
  third connection that is refused like the second. `RequestsInOrder` speaks
  of passes of no more than 16 requests. The proofs remove the bounds for all but
  `EveryRequestAnswered`.
* `logger`: up to ten elements go round a ring of four twice and a half, and the queue
  is empty, full, or anything between when the destructor begins, with a push or a
  flush left at each of its steps. The proofs remove the bounds for `FileIsLog`.
* `order_manager`: a clip of 2 is filled whole or in parts, and with a limit of 3 a
  second order on a side is too much as long as the first is counted, while the other
  side may turn the position round. Three order ids are one on either side and one
  that follows an order which was filled or cancelled. The loss limit is within reach.
  The strategy stops when ids have run out, which is why this run
  does not check for deadlock. The proofs remove the bounds for all but `RequestsSettle`;
  `AccountsBalance` is proved under the assumptions stated below.
  `openVWAP` starts with 0 here; see the end of the next section.
* `client_book`: three orders make three levels in any order, or a level from whose head,
  middle and tail one is taken. Pools are one block larger than the book, so
  that their indices go round again and again over blocks freed in any order. There is
  no bound on the number of updates. The proofs remove the bounds.

### The three violations

* `md_mixed` (code bug): the end of a snapshot is taken for the end of the
  snapshot that was begun. `checkSnapshotSync` never compares the number in
  SNAPSHOT_END with the one in SNAPSHOT_START, and cycles number their messages alike,
  so two losses a cycle apart are not seen.
* `oe_block`: a comment says a sequence gap cannot happen over TCP. A send buffer that
  the kernel does not take is lost.
* `client_clear` (code bug): CLEAR gives the levels back but leaves the table of prices
  pointing at them. An order that is added afterwards at such a price, as by every
  snapshot after a loss, is linked into a level that is not part of the book. The best
  bid and offer, too, are still those of before the CLEAR.

`PositionKeeper` has one more, behind a constant: `openVWAP` (`PositionKeeper.h:23`) has no
initializer and the first fill adds to it. `Uninitialized` is the set of what it may hold.
The run gives it the value {0}; with {0, 4}, `AccountsBalance` fails at the first fill, so
everything `order_manager` says of money is said of a keeper whose memory happens to be 0.

Two more disagreements with comments are evident without a run. The sequencer is said
to have requests processed in the order received (`OrderServer.h:144`). What is true is
`OvertakenWithinPass`: while a pass is sorted, nothing that arrived before the pass began is
left unread, so a request can be overtaken only by requests of its own pass. Within a
pass, all requests of one read have the time of the last of them, which is
the other way in which one comes after a later one. `moveOrders` is said to cancel
orders that are not of the specified quantity (`OrderManager.h:114`); quantities are never
compared.

### Fairness

All threads spin, so weak fairness of a thread's steps says no more than that the
thread runs. It is assumed of a write or match that has begun, of the pollers of every
queue and socket, and never of a client's or strategy's wish to do something, or of a
process's start or end: `EveryRequestAnswered` excuses a client that dies and one that the
server refuses.
One assumption is stronger: strong fairness of `StartCycle(Len(stream))` in
`MarketDataConsumer`. It says that of the cycles sent for ever, one has caught up with
the stream again and again; the stream is bounded, and `EveryUpdateReachesSnapshot` of
`ExchangeMarketData` is why the synthesizer catches up. Nothing is assumed of the
network but that it loses a bounded number of datagrams.

In `OrderManager` it is assumed of the trade engine's poll of its responses and of the
exchange's of its requests, and neither of market data nor of fills: a request is
settled though nobody trades.

In `Logger` it is assumed of the logger's thread, which is never blocked, and of a
destructor that was called; of the owner's pushes nothing, as a push that was
interrupted is never finished. A destroyed logger does nothing more, which is why
`logger` does not check for deadlock.

Every other run checks for deadlock: threads that spin never stop, and every bound leaves
something to do (a client may always cancel, a thread may always go round its loop, the
synthesizer sends another cycle).

## What is proved

The proofs hold for every value of the constants.

**`LockFreeQueue_proof`.** The inductive invariant `IInv` places the reader's and
the writer's index by the count: the writer's index is the reader's plus the number
of elements, modulo the capacity, corrected for a half-finished update on
either side. Nothing less is inductive, since index and count move in separate
steps. From it follow, without any assumption, the type (`TypeCorrect`) and
`UpdateReadIndex`'s assertion (`CountAssertHolds`); and under `BacklogFits`,
freedom from data races (`DataRaceFree`) and from overwriting
(`NothingOverwritten`). A second invariant, `DataInv`, adds that the
slot the reader looks at still holds what it read; from it follow `RereadsTheSame` and
`RingIsFifo`: the ring implements the safety part of `Fifo`, with one lemma per kind
of step. That every element is taken in the end is liveness and checked by `lfq` only.

In the same module, every step of the logger is a step of its queue or leaves the queue
alone (`UsesItsQueue`), so that the queue's invariants hold here without
being proved again, and their lemmas say which steps take an element and which put one. What
has to be added, `LoggerInv`, is that the file followed by what the queue still holds is what
was logged, and that the queue is empty from the moment the destructor has seen it so: there
is no one left to log. `FileHasTheLog` follows under `BacklogFits`.

**`MEOrderBook_proof`.** Everything is under `PriceWindow`: no two prices in use
share a slot of the table of levels. The code does not check this, and without it the
properties fail. The inductive invariant `IInv` conjoins the type, the agreement of
levels and of the table of client orders with the orders, the uniqueness of market
order ids and their bound by the next one, the order of priorities within a level,
`Uncrossed`, and that the order being matched has something left and is not in the
book. Uncrossedness needs the agreement of levels (the best level is found through
them), and the table's agreement needs ids to be unique, which is why they are
proved together. `NeverCrossed`, `ContainersAgree`, `PrioritiesRankArrivals`,
`TradesByPriceAndTime` and `MarketDataIsTheBook` follow; the last needs no
induction but a lemma per action on what it publishes. `FillsAreReported` is the same for
the responses. `OpenOrders` is what the clients have open, each order with its owner, its
client order id and what is left of it, in the book or being matched; `Learn` is what the
receiver of a response makes of it, which is nothing unless it is the owner. A step turns the
open orders into what its responses, one after the other, make of them, and each response
fits the quantity that its receiver has open (a lemma per action: `MatchReports`,
`RemainderReports`, `AddReports`, `CancelReports`). That something is executed whenever a fill
is reported needs one more invariant: no order rests with nothing left (`NoneEmptyHolds`). Of
`MatchingEnds`, which is liveness, the part that is not about fairness is proved too: `EngineGoesOn` says that a request that was
begun can always go on, since the best level, its first order and the last order of a level,
which the code follows without a test, are there; and `EachMatchConsumes` that a trade
finishes the new order or takes one out of the book, so that there are at most as many
trades as orders.

**`BookLists_proof`.** The invariant cannot be said of the pointers alone. It says that there
are sequences, of levels for each side (`SideShape`) and of orders for each price
(`QueueShape`), of which the pointers are the rings, forwards and backwards; everything in
use occurs once in them, and levels are in the order of their prices. A level whose place
is still looked for is in use and in no sequence, and `WalkShape` says where the search is:
the new level ranks behind the one before its target. Each action is shown to lead from
such sequences to others, one pointer assignment at a time: `LinkedInsert` and
`LinkedRemove` are about rings in general, and the lemmas ending in `Links` say which
pointers an action has changed, also where the neighbours coincide. `BackPointersHold`
reads the invariant. `ListsImplementBook` is the refinement, step by step: the book that
one meets by following the pointers is what the sequences say (`MetIs`), a walk changes
nothing of it, linking a new level is `JoinNew`, appending `JoinLast`, removing `Leave`. What
one meets, on a list of any length, needs no induction: the node met after any number
of steps has that number's place modulo the length, which a least counterexample
shows (`RingIs`). `FiniteAssumption`, that there are finitely many blocks and prices, is true
of a pool and a table, and is what bounds the following of a list in `Ring`.
`EachRoundAdvances` says that each round of the search for a place is the last or passes a level
for good, which is what `WalkEnds` owes to the lists; the rest of it is fairness.

**`ExchangeMarketData_proof`.** Under `PriceWindow`, and on top of the order book's `IInv`,
the invariant `MDInv` says where the three threads are. The updates numbered and forwarded
but not yet applied are numbered without a gap (`Numbered`), and all that are under way, in
the synthesizer's queue, at the publisher, and in the engine's queue, in this order,
lead from the synthesizer's book to the engine's (`Underway`, `Leads`): the synthesizer
has a book that the engine's once was, and each update on the way fits the book that those before
it give. That it is not enough to know where they lead is what makes this the inductive
statement: the ASSERTs of `AddToSnapshot` are about the next update. `SynthesizerNeverSurprised`
reads it at the first update. `CycleJoinsStream` needs also that a cycle lists what the
synthesizer's book is, order by order, in the order of their numbers, and that numbers rank the
orders of a level as their priorities do. The functions that replay updates and list a cycle
are recursive; what has to be known of them for every length is shown by taking the least
length for which it failed (`LeastNumber`).

**`MarketDataConsumer_proof`.** `BookIsCurrent` is not true of the code (`md_mixed`), and the proof
is of the condition under which it is: `CurrentUnlessMixed` holds of every behaviour in
which the datagram that carries START is never lost while messages of an earlier cycle are
queued (`LosesStart`). Any other loss, of any number of datagrams on either stream, is harmless,
and `CurrentAfterOneLoss` is the instance that a single loss on the snapshot stream cannot
do harm. The invariant says that the queued snapshot messages are the
first messages of one cycle without its END (`Unmixed`), that an incremental message is about
its own order or an earlier one (`StreamOrdered`), and that no snapshot message is kept
outside a recovery (`Consumes`). A complete snapshot then gives the book at its number, and the queued updates after it lead
up to the present without a gap (`RecoversBook`, `BookBetween`). `TypeCorrect` needs no
assumption.

**`OrderManager_proof`.** The limit is checked when an order is sent, against a position
that lacks the fills still on their way, so `PositionWithinLimit` alone is not inductive: one
has to know that every fill on its way takes its quantity from an order the client still
counts as out. The inductive invariant `IInv` therefore follows the order of each side
(`SideInv`) through the requests, the exchange's book and the responses: nothing is out there
of an order that is dead (`DeadIsGone`), everything out there of a side is of the slot's
order (`SameOrder`), a new order on its way is alone (`NewIsAlone`), an acceptance is the
first response and a cancel or the last fill the last one (`AcceptedIsFirst`, `FinalIsLast`),
and the fills in the responses lead from the quantity the client knows down to what the book
has (`FillsAddUp`). `AddFillType` shows that the keeper's money stays an integer, through
every branch of `AddFill`; `OtherSide` that a step on one side leaves the other's part alone;
`BookStep` is what cancels and fills have in common; and there is one lemma per action.
`PositionLimited`, `OneOrderASide` and `ResponsesMeetOrders` follow, for every limit, clip,
set of prices and bound on the order ids, from two channels that are in order and exactly once,
which is what `OrderEntry` is about. In particular the initial value of `openVWAP`, which the
code does not set, does not matter to them: it may be any set of integers.

`ProfitIsReal` is about money and needs two assumptions. `Uninitialized = {0}` is what the code
leaves to chance. `AverageIsWhole` says of a behaviour that the position's cost can be divided by
the position without a remainder: here money is an integer, in the code it is a double, and
what rounding does to either is not what the theorem is about. `Scale` is there so that the
instance that TLC checks has this property. Under both, the invariant `Balance` adds to
`AccountsBalance` that what was realized, less what the open position has cost, is what the
fills have brought in, and that a flat position has cost nothing (`Settled`);
`FillSettles` goes through the four branches of `AddFill`, with `DivExact` and `CostOfPart` for
their divisions.

**`ClientOrderBook_proof`.** Everything is under `PriceWindow`, as for the engine's book, and under
`~Recovers`: no CLEAR meets an order, as long as no message is lost. `client_clear` shows what
happens otherwise. The inductive invariant `IInv` says that all the containers hold the same:
the table of orders, the blocks in use and the orders that the updates speak of
(`OrdersKnown`), the table of levels, the blocks of levels and the two sorted lists
(`LevelsKnown`), and the queues, of which each has orders of its own side and price only, as
they arrived, and every order is in one (`QueuesKnown`). Since the table of levels is by price
alone, this needs that no price is bid and asked (`OneSideAPrice`), which the exchange's
uncrossed book is for. Blocks are free exactly when they hold nothing, and the next one is
free, for which `NextFreeIsFree` shows that the search goes round to a free block if there is
one. `BBOFollows` is the reason why the best bid and offer may be left alone by an update that
is found, beforehand, not to concern them: `UpdatesAt` says that it touches its own level
only and leaves the best one where it is. `TypeCorrect`, `BookFollowsStream`, `BBOIsRight`
and `BlocksAccounted` follow. That quantities add up to a number is once more
shown by the least place where they did not (`TotalIsNat`).

**`OrderEntry_proof`.** `Wellformed` adds to the type what is known of connections: those in
use were made by processes that were started, and what has anything to be read is known to
the server or waits to be accepted (`ConnectionsKnown`). On it rest three independent
invariants. `PassInv`: during a pass a connection is still to be read, or all that is unread
there has come since the pass began; hence `OnlyThePassOvertakes`. `SequenceInv`: the
responses that a gateway has not read, in the socket and then in the server's buffer, run from
the number it expects to the next one the server gives, and a client of another connection
than its first never gets any; hence `NothingMissing`, as long as sends do not block
(`~MayBlock`, and `oe_block` shows what happens if they do). `OrderInv`: the requests that
wait are exactly those of the numbers between the last processed and the next expected, of
the connection that counts (`NoneLost`), they wait in the order of their numbers
(`NumbersAscend`), and what is unread of a connection is no older than what was read of it
(`TimesAscend`), without which a sort by time could turn two requests of one client round.
`OrderKept` follows where the sort is stable (`ShortPasses`): the standard library's is up to
16 elements, and the code promises nothing beyond.

**Only model-checked**: all liveness (`ImplementsFifo`'s fairness, `MatchingEnds`,
`WalkEnds`, `EveryUpdateReachesSnapshot`, `RecoveryEnds`, `EveryRequestAnswered`,
`CloseEnds`, `RequestsSettle`), which the prover does not do under fairness. Every
invariant and every action property that a run checks is proved, under the conditions
stated above.

## What is not modelled

* The removal of a connection (`CTCPServer::Del`), which the code never reaches; requests
  that arrive in pieces, whose beginning only waits in the receive buffer.
* A second writer of a logger's queue, which the client has in two places
  (`TradingMain.cpp:100`, `TradeEngine.h:50`): with two writers nothing that one would
  state of the queue holds, and no comment claims otherwise.
* Tear-down beyond the logger. Threads are told to stop and never joined; that they
  have ended when their objects go is left to sleeps of fixed length, and the models
  have no time. The same is true of a new thread's use of its creator's stack
  (`ThreadUtils.h:41`).
* Client order ids used twice while alive, ids beyond the tables' sizes, more than
  1024 requests in a pass: the first is not checked by the code and not done by the
  program's clients, the others end the process.
* Several instruments: their books and snapshots share nothing but the numbering of
  the incremental stream.
* Timing, printing, command lines, the system calls themselves.
* The unordered-map variant of the order book, which the hash benchmark compares: the same
  functions line by line over a hash map, of which a model would be a copy of
  `MEOrderBook`. `OptLogging.h` and `OptMemoryPool.h`, likewise for benchmarks; examples and
  scripts.
* In the client: the random strategy, which sends new orders and cancels of earlier ones past
  the order manager, as the clients of `MEOrderBook` do; and a composition of market
  data consumer, book and strategies: `OrderManager` lets the best prices be anything,
  which is more than any book can show, and what it promises holds for all of it.
* The end of the process at an assertion that fails because a pool is used up.

## Plan

Done, in this order: `LockFreeQueue` and its proof; `MEOrderBook` and its proof;
`BookLists`; `ExchangeMarketData`; `MarketDataConsumer`; `OrderEntry`; `PositionKeeper` and
`OrderManager`; `MemoryPool` and `ClientOrderBook`; `OrderEntry` again, with clients that die
and come back; `Logger`; the proofs for `OrderManager`, `Logger` and `OrderEntry`; of
`FillsReported`; for `MarketDataConsumer` and `ExchangeMarketData`; of `AccountsBalance`;
for `ClientOrderBook` with `MemoryPool`; for `BookLists` and its refinement of
`PriceTimeBook`. Nothing of the plan is left; what stays outside of it is the section above.
