# CS-Node: specification and proofs

TLA+ specifications of the CREDITS node in this repository, the TLC models that
check them on small instances, and TLAPS proofs of the main safety properties
for every value of the constants. `PROJECT.json` ties every definition to the
lines of `src/` it models and lists runs, findings, hazards and theorems.

## The system

A node is one process. Paths below are relative to `src/`.

| Part | Source | State | Operations |
|---|---|---|---|
| Storage | `csdb/src/storage.cpp` | `last_hash`, `count_pool`, `write_queue`, `quit`, writer thread | open and rescan, `pool_save`, `write_routine`, close, destruction, reading |
| BerkeleyDB backend | `csdb/src/database_berkeleydb.cpp` | `blockchain.db` (record number to block), `sequence.db` (hash to number) | put into two files, get, iterate |
| BlockChain | `csnode/src/Blockchain.cpp` | `balancesCache_` | `writeLastBlock`, `getBalance`, loading |
| Node | `csnode/src/Node.cpp` | `myLevel_`, `roundNum_`, `mainNode_`, `confidantNodes_` | one `get...` and one `send...` per message, `becomeWriter`, `initNextRound` |
| Transport | `net/src/SessionIO.cpp`, `net/include/net/Structures.hpp` | `m_backData`, `m_packets`, `m_nodesRing`, `m_taskman` | registration, receiving, redirecting, resending |
| Packets | `net/include/net/Packet.hpp`, `csnode/src/Packstream.cpp` | pool of packets with reference counts | get, free, split a message |
| API | `api/src/APIHandler.cpp`, `api/src/csconnector.cpp` | smart contract caches | queries, one thread per connection |
| Statistics | `api/src/csstats.cpp` | current statistics, stop flag | periodic collection, stop |
| Value types | `csdb/src/pool.cpp`, `transaction.cpp`, `integral_encdec.cpp`, `csdb/include/csdb/amount.h` | a pool's cached bytes and hash | compose, encode, decode, arithmetic |
| Solver | a submodule that is not in the repository | - | called by, and calls, the Node |

How they interact. One network thread (`SessionIO::Run`) polls the socket and
then runs the resend list. A received packet is filtered, collected and
redirected by the transport, then given to the Node, which looks at its level
and passes it to the Solver. The Solver sends through the Node into the resend
list, and writes blocks through BlockChain into Storage, whose writer thread
puts them into the two files. API threads read through BlockChain at any time.

What makes it hard: the writer thread and its condition variable; a put that
spans two files and a process that can die between them; UDP, where everything
is lost, repeated and reordered; buffers that evict; rounds that nodes enter at
different times; caches shared by API threads without a lock. The hazards list
of `PROJECT.json` places each of these at its line.

What correctness means here: the stored blocks are one chain that only grows;
an accepted block is written under its own hash; sums, encodings, queries and
balances are right; a message is split, combined and handled once and complete; a
packet is not reused while somebody refers to it; nodes in one round agree on its
table, and nobody acts in a role the table does not give; a round that is
announced reaches its nodes, and a new node enters the network.

## Modules

| Module | Models | Checked by | Proved in |
|---|---|---|---|
| `Ledger` | abstract: an append-only sequence of distinct blocks | `MCStorage` | `StorageProofs` |
| `Storage` | Storage, its writer thread, the BerkeleyDB put, `writeLastBlock`, failing puts, crashes | `MCStorage` | `StorageProofs` |
| `Pool` | the life of a block object: cached bytes, hash, transaction ids, up to the record | `MCCsdb` | `NodeProofs` |
| `Amount` | the arithmetic of amounts, on a running total | `MCCsdb` | `DataProofs` |
| `Codec` | integral encoding, text of a transaction id | `MCCsdb` | `DataProofs` |
| `ChainQuery` | walks of Storage and of the API over the chain, while it grows | `MCCsdb` | `QueryProofs` |
| `Balance` | `getBalance` and `balancesCache_` on several API threads | `MCApi` | `ApiProofs` |
| `SmartCache` | the API's caches of smart contracts | `MCApi` | `SmartProofs` |
| `ContractFlow` | `TransactionFlow`: transfers, deployments and calls of contracts | `MCApi` | `ApiProofs` |
| `Stats` | the statistics thread | `MCApi` | `ApiProofs` |
| `TaskManager` | the resend list and its clock | `MCTransport` | `TransportProofs` |
| `PacketPool` | PacketManager and counted references to packets | `MCTransport` | `TransportProofs` |
| `PackStream` | messages as packets and back, the handlers' length tests | `MCTransport` | `DataProofs` |
| `Receive` | filter, reassembly, redirect and endpoint ring of one node | `MCReceive`, `MCTransport` | `ReceiveProofs` |
| `Flood` | filter, redirects, resend list and level guard of several nodes together | `MCTransport` | `TransportProofs` |
| `Registration` | how a node enters the network | `MCTransport` | `TransportProofs` |
| `NodeRound` | the Node's roles and rounds on several nodes, over a lossy network | `MCNodeRound` | `NodeProofs` |

`MCCsdb`, `MCApi` and `MCTransport` put parts that share no state into one run: a
behaviour picks its part in the initial state and the other parts never move. A
property of one part is therefore checked on all behaviours of that part. Fair
actions of a part that was not picked are disabled, so they oblige nobody.

**Storage.** One program counter per thread: `wpc` for `write_routine`, `cpc`
for `writeLastBlock` and `pool_save`, `st` for the life of the object. Each step
between two points where the other thread can interfere is an action: the two
puts, the count and the link are four steps of the writer, because `last_hash()`
and `size()` are read without the lock. A crash keeps the two files and drops
everything else. `MaxPending` is the node's discipline: with 1 it composes the
next block only when the last one is written. `EarlyWrite` says whether a block
may be saved before the writer has reached its first wait.

**Pool.** A hash is the value it was computed from, so two are equal exactly if
the contents are. The bytes, the hash and the ids of the transactions are caches
that each operation fills or leaves stale as the code does. The queue and the
records of Storage are kept as far as a pool's bytes and key go through them.

**Amount.** Beside the running amount goes the exact value of what was computed,
in units of the fraction. Integral parts are cut to the width of `int32_t` (`Int32`) in
every step, and the sums and products inside an operation wrap; only results that fit are
taken (`InRange`). **Codec.** Words and codes are functions from bit
positions; the intrinsics have no defined result for 0 and -1, so the length is any.
**ChainQuery.** One query at a time; each block it loads and each transaction it looks at
is a step, and blocks arrive in between. `at` says where in its loop the query is, `pos`
the block and the transaction it has reached. A block arrives whole, as `writeLastBlock`
means it to; what the writer thread does in between is in `Storage`. The reference is a
property: the list has the newest of the transactions that match, in order.

**Balance.** A call reads the tip, looks up the cache, walks back and stores.
Each is an action of its thread; blocks arrive in between. A block is reduced to
its effect on one address.

**SmartCache.** Calls on several connections: each runs `update_smart_caches`, one
transaction a step, while blocks arrive, and then uses the caches (`"use"`). An iterator
into a list is its distance from the end, which the insertions of a walk do not change. A
malformed contract ends the call by an exception (`EnterFails`); what it has entered stays.
Nothing locks the caches; `overlapped` remembers that a call began while another was not
over, and after that nothing is claimed. **ContractFlow.** One request per connection: the test against
the caches, the hand-over to the Solver, the executor's transport and run, the second
transaction. Solver and executor are external: they may drop, reorder or fail.
**Stats.** The loop, the predicate of the wait, the sleep, the walk and the
publication are steps; the destructor sets quit, notifies and joins. A block has the time
another node wrote into it, which may be ahead of the local clock; its age is taken when
it is read, cut to seconds towards zero and cast to an unsigned `Period` (`AsPeriod`), so
that a block a second or more ahead is in no period.

**TaskManager.** The list with a launch time and a pause for each task, the wake-up time
`nextTime_`, and `now`. `Run` is one pass of the network thread. It keeps the
code's behaviour that the last element decides `nextTime_`.

**PacketPool.** A holder is any place with a `PacketPtr`. Taking, copying, moving
and dropping are the actions; the counters and the free stack are the code's.
**PackStream.** A byte is known by its place in the message, 0 is what an earlier
use left in a packet. Every field read by a handler is a step; the bounds tests of the streams are kept as they are,
one of them reversed.

**Receive.** `HandleReceive` is one incoming packet: the ring, the bounds test,
redirecting, collecting, the filter and the dispatch. Payloads are message
identities; sizes and copying of bytes are in `PackStream`.

**Flood.** The composition of `Receive`, `TaskManager` and the level guard of
`NodeRound` on several nodes, for one round table and the confidants' vectors:
what one part drops another has marked as seen. **Registration.** The thread that
asks, the callback that waits and a signal server that is external.

**NodeRound.** Every `get...` and `send...` of the Node with its level guard. A
message in the model knows its round, so that properties can speak of it; the
handlers do not look at it, as in the code. The filter of `Receive` is left out,
so a copy may be handled any number of times: more behaviours than the code has,
which is sound for the safety properties.
Round tables are taken to be well formed (three confidants in the code, one or
two in the instances).

## Runs

| Run | Instance | Shows |
|---|---|---|
| `storage_chain` | 3 blocks, 3 openings, 2 crashes, 2 failing puts, one block under way | `IndexPointsToRecord`: `sequence.db` never names a missing record; `ImplementsLedger`: the stored history refines `Ledger`; until a put fails also `ChainLinked`: `blockchain.db` is one hash chain, and `TipCurrent`: a quiet store knows its size and tip after any rescan |
| `storage_overlap` | 3 blocks under way, 2 openings, a repeated save, fair | `SequenceGrows`: a block's number exceeds its predecessor's; `ShutdownKeepsAccepted`: destruction drains the queue; `AcceptedWritten`: every accepted block is written |
| `csdb` | a pool of up to 2 transactions and one record; amounts with 10 units and a narrow integral part; 64-bit words around every length; all chains that grow to 3 blocks of 3 kinds, pages of up to 2 | `RecordsKeyed`, `IdsLocate`, `ComposedFrozen` (Pool); `AmountExact`, `AmountRounds` (Amount); `DecodeInverts` (Codec); `StorageQueriesExact`, `ApiPagesExact` (ChainQuery) |
| `api` | 2 threads and 3 blocks (Balance); 2 connections, 3 calls and 3 blocks, 2 when calls overlap (SmartCache); 2 blocks of 4 stamps, 2 periods, 3 half seconds (Stats); 2 clients, 1 contract, 3 requests (ContractFlow); fair | `NeverUnderstated`, `CallReturns`; `CachesExact`; `PublishedWhole`, `StatsStop`; `CallsDeployed` |
| `transport` | 2 tasks, 16 ms; 3 holders, pages of 2; messages of up to 24 bytes in packets of 5; 4 nodes with 2 confidants and losses; 3 messages and room for all; one registration; fair | `FirstSendPrompt`, `EverySendHappens`; `FreeOrHeld`; `MessageWhole`, `ActsOnWhole`; `NeighboursStart`, `VectorOrEarly`; `EveryMessageHandled`; `InitOnce`, `EntersUnlessStartLost` |
| `receive_small` | 4 messages of 1 to 3 packets, buffers that evict | `QueuesMatch`; `HandledOnce`; `FloodBounded`: a remembered packet is sent on once; `HandledComplete` |
| `round_roles` | 3 nodes, 2 rounds, the five kinds of consensus messages | `RoundAgreement`; `RoleByTable`; `GivenInRole` |
| `round_live` | 2 nodes, 2 rounds, transactions and hashes, ill-formed init data possible, fair | `RoundsGrow`; `RoundSpreads` |
| `storage_v_crash` | a crash between the two puts | violated: `TipLoadable` |
| `storage_v_shutdown` | one block, fair | violated: `ShutdownCompletes` |
| `round_v_init` | ill-formed init data | violated: `RoleByTable` |
| `id_v_text` | transaction ids up to index 10 | violated: `IdRoundTrip` |

Each module states its `TypeOK` where it has one; it is an invariant of no run. Those of
`Storage` and `NodeRound` are proved.

Bounds. Three blocks allow a fork with a successor; two crashes let a recovery
be interrupted. Ten units to a fraction and operands of both signs give carries,
borrows and cut quotients; the words are every power of two, every run of ones
and every alternating pattern, with their complements, so that each length of the
code has its least and its greatest value. Blocks of 0, 2 and 3 transactions, some without the address asked for,
put page borders at, before and behind the borders of blocks. `MaxList`, 100 in
the code, is 2, and offsets and limits go one beyond it. Clock and stamps differ by half
seconds, so that ages are cut on both sides of zero. Three calls of two connections are a
walk that ends, one that fails and one that meets the failure again. Packets of 5 bytes
and fields of 1 to 13 put every field on a border. Buffers of one and four
entries evict at once. Three nodes are
one main node and two confidants, the least with which vectors and matrices
travel. Two rounds bring in late messages of another round; a node that was given
no usable init data is in round 0, and the table of the second round can overtake
that of the first. The constants that begin with `Max` only cut the state space,
except `MaxPending`, `MaxList`, `MaxIntegral`, `MAX_TIMEOUT` and `MAX_REDIRECT`. Symmetry is used in safety
runs only, over blocks and over the two nodes the tables exchange.

Deadlock is not checked where the system may stop: when a Storage has been
destroyed and the openings are used up, in the three runs of separate parts, whose
bounded parts end, and in `round_live`, when no node was given usable init data.

Fairness. The operating system runs each thread that can go on: weak fairness of
the writer and of the steps of a call, strong fairness of `Push`, which waits
for a mutex that is released again and again. In `Balance` each started call goes on. In
`TaskManager` the network thread loops; `run` is never blocked. `EveryMessageHandled`
assumes that each packet arrives in the end, which the resend list is for. In
`Stats` both threads run and the deadline of the timed wait comes. In `Flood` and
`Registration` tasks and requests are sent over and over, and what is sent over
and over arrives in the end (strong fairness of receiving); what is sent once may
be lost. In `NodeRound` the resend loop is strongly fair, since only `MaxNet` ever
blocks it; copies do not stay under way for ever; and of the tables that keep coming one
arrives at each node. Nobody is obliged to write a block, send a message, begin a
round, make a request or destroy an object.

## Where code and text disagree

Four runs are expected to fail; `PROJECT.json` quotes the lines.

- `storage_v_crash`: `rescan` never reads `sequence.db`. After a crash between
  the two puts the newest block becomes `last_hash()` and no hash lookup finds it.
- `storage_v_shutdown`: `~priv` sets `quit` and notifies without `write_lock`.
  Both can fall between the writer's test and its wait; `join` never returns.
- `round_v_init`: init data that is logged as ignored has already replaced the
  round and its table, and the level stays what it was.
- `id_v_text`: `to_string` writes the index of a transaction in base 16 and
  `from_string` reads it in base 10; from ten on it comes back wrong or not at all.

More are stated in the modules and are not among the runs. TLC violates each;
where nothing is said it does so with the constants of the run of that module. In
`Storage` the other bounds are as in `storage_v_crash`, without crashes.

- `Storage!AcceptedWritten` with `EarlyWrite = TRUE` and one block, under `FairSpec`: a
  save before the writer's first wait notifies nobody
  (`csdb/src/storage.cpp:229`). This is why `storage_overlap` excludes it.
- `Storage!SizeIsPoolCount` with `MaxPending = 2`: two blocks take one number, the second
  overwrites the first, both are counted (`csdb/include/csdb/storage.h:116`).
- `Storage!SavedIsLastHash` with one block: `save()` returns before the block is
  `last_hash()` (`csdb/unittests/csdb_unit_tests_wallet.cpp:103`).
- `Pool!UncomposedRefused`: `save()` takes a pool that was never composed; the writer
  composes its copy. `Pool!SentCurrent`: bytes that were streamed once are sent
  again after the pool has changed.
- `Amount!FractionProper` and `Amount!OrderByValue`: `+=` carries only above the unit
  (`csdb/include/csdb/amount.h:201`), so a sum can have a fraction of a whole unit, and
  comparison then puts it below its equal. No value is lost (`AmountExact`).
- `Codec!IdFindsTransaction`, with the constants of `id_v_text`: what `id_v_text` shows, seen by the API's look-up.
- `ChainQuery!ListIsPage`: `PoolListGet` answers blocks it has cached without the test
  of the offset, and when a block arrives between its reading of the tip and of the size it
  may append an invalid pool below the first block; the page asked for is there in order
  (`ApiPagesExact`).
- `SmartCache!QueryReturns`: of two calls that overlap one moves the block seen last
  above the other's walk, which then never meets it. As long as calls do not overlap, a
  malformed contract in the chain has another lasting effect: every later call ends at it
  with an exception, and for this reason nobody sees the caches it left (`CachesExact`).
  A contract that is deployed twice has the older deployment of the newest walk as its origin.
- `ContractFlow!DeployedOnce`, `StatesFollow`, `FlagTellsOpen`, `RunsCode`: two requests
  pass the test before the first is in the chain; two calls run on one state; a
  transport that failed to open is never opened again; a deployment runs without code.
- `TaskManager!TimeoutBounded` with `MaxNow = 200` and `MaxTasks = 1`: the
  pauses 2, 8, 32, 128, 512, 2048 step over `MAX_TIMEOUT`.
- `PackStream!BatchRead`: `sendTransaction` writes several transactions, the first
  `operator>>` takes all bytes (`csnode/src/Node.cpp:92`).
- `Flood!VectorArrives`: a vector that overtakes the table is marked as seen and dropped
  by the level guard, and its resends are dropped by the filter. `Flood!RingStarts`:
  a redirect is sent once; when it is lost, a node the writer does not know never starts.
- `Registration!Enters`: when the start of the first round is lost after the answer, nobody
  asks again. `Registration!AskerEnds`: when it overtakes the answer, the thread asks for ever.

`getBalance` can overstate with two connections: one moves the cache entry past
the other's tip, whose walk then counts old blocks again. A move between two holders of
one packet would leak a count (`net/include/net/Packet.hpp:109`); no line of the
node does that, and `MoveInUse` excludes it.

## Proofs

All are checked by TLAPS for every value of the constants that satisfies the
module's `ASSUME`.

| Theorem | Statement | Further assumptions |
|---|---|---|
| `StorageProofs!TypeCorrect` | `TypeOK` | none |
| `StorageProofs!IndexSafe` | `IndexPointsToRecord` | none |
| `StorageProofs!SequenceGrowsAlways` | `SequenceGrows` | until a put fails |
| `StorageProofs!ShutdownSafe` | `ShutdownKeepsAccepted` | until a put fails, no early saves |
| `StorageProofs!SerialChain` | `ChainLinked`, which speaks of the time until a put fails | one block under way, no repeated saves |
| `StorageProofs!SerialTip` | `TipCurrent`, likewise | one block under way, no repeated saves |
| `StorageProofs!LedgerRefined` | `ImplementsLedger`, failing puts included | one block under way, no repeated saves |
| `NodeProofs!KeysMatch` | `RecordsKeyed` | none |
| `NodeProofs!IdsLead` | `IdsLocate` | none |
| `NodeProofs!FrozenAlways` | `ComposedFrozen` | none |
| `NodeProofs!TypeCorrect` | `TypeOK` of `NodeRound` | none |
| `NodeProofs!Agreement` | `RoundAgreement` | well-formed init data |
| `NodeProofs!Roles` | `RoleByTable` | well-formed init data |
| `NodeProofs!InRole` | `GivenInRole` | well-formed init data |
| `NodeProofs!Monotone` | `RoundsGrow` | none |
| `DataProofs!MessageWholeAlways` | `MessageWhole` | none |
| `DataProofs!ActsOnWholeAlways` | `ActsOnWhole` | none |
| `DataProofs!ExactAlways` | `AmountExact` | results that fit |
| `DataProofs!RoundsAlways` | `AmountRounds`, which speaks of products that fit | results that fit |
| `DataProofs!DecodeInvertsAlways` | `DecodeInverts` | none |
| `QueryProofs!StorageQueriesAlways` | `StorageQueriesExact` | none |
| `QueryProofs!ApiPagesAlways` | `ApiPagesExact` | none |
| `SmartProofs!CachesExactAlways` | `CachesExact`, which speaks of the time until calls overlap | none |
| `ApiProofs!NotUnderstated` | `NeverUnderstated` | none |
| `ApiProofs!ExactForOne` | `AnswerExact` | one connection |
| `ApiProofs!CallsDeployedAlways` | `CallsDeployed` | none |
| `ApiProofs!WholeAlways` | `PublishedWhole` | no age goes around the range of a `Period` |
| `TransportProofs!PromptFirstSend` | `FirstSendPrompt` | none |
| `TransportProofs!OldestBounds` | `OldestDecides` | none |
| `TransportProofs!InitOnceAlways` | `InitOnce` | none |
| `TransportProofs!FloodSafe` | `TasksStay`, `SeenWasHandled` | none |
| `TransportProofs!FreeOrHeldAlways` | `FreeOrHeld` | none |
| `ReceiveProofs!QueuesAlways` | `QueuesMatch` | none |
| `ReceiveProofs!OnceAlways` | `HandledOnce` | none |
| `ReceiveProofs!FloodAlways` | `FloodBounded` | none |
| `ReceiveProofs!CompleteAlways` | `HandledComplete` | none |

`NodeProofs`, `DataProofs`, `ApiProofs` and `TransportProofs` hold the proofs of several
components, one behind the other; no proof uses another component's lemmas. Every proof
module begins with `USE Zenon`: a leaf is tried with Zenon unless it names another
prover, and `SMT` stands where arithmetic, sequences or records are needed.

The arguments.

*Storage*: each property is strengthened by what the program
counters imply. Between the first and the second put the record exists; between
the count and the link the count is already ahead of the tip; with one block
under way the queue, the counters and the files fix each other. What holds only
until a put fails is an invariant of the form "no put has failed, or ...": the budget
of failures never grows, so the second part may be used in every step but the failing one.

*Ledger*: the history is what lies in `blockchain.db` up to the first hole. A failed put
leaves a hole, and later blocks are written beyond it; the history then stands still.
`LedgerInv` says that the number of the next block is never below the hole, and above
it when something lies beyond: rescan counts the records, hence at least those before the
hole, and one more for each beyond. So a put writes to the hole, with nothing beyond
that would join the history at once, or to a later place. Every record has the number of
its block, so the history gets no block twice.

*Pool*: every pool, held or queued, that has a hash and is composed has the hash of its
bytes and ids that name that hash; a record is written only from such a pool.
*Amount*: one operation at a time, the value in units follows the exact one up to a multiple
of the range of `int32_t`, and as the result fits the multiple is zero; if a product fits, so
does each of its four parts, and no cast cuts anything off. Products and quotients are
bounded by what each division cuts. *Codec*: the highest bit that differs
from the sign exists (it is sought byte by byte, so that no induction is needed), the bytes
chosen reach one bit above it, and all bits they leave out are copies of the sign; the
leading ones of the first byte say how many bytes there are.

*ChainQuery*: what a walk has behind it is fixed by its place. Its two lists, what the offset
has passed over and what it has found, hold exactly the matching transactions behind it, newest
first, the second only when the first is full. So when the second is full, or the place is
below the first block, it has the newest of those left. A block that arrives lies above the
block the walk began with and is never behind it. For `PoolListGet` the last elements of the
answer are the blocks of the turns after the offset, in order: whether an earlier turn is
answered from the cache only changes what stands before them.

*PackStream*: every packet but the last is full, and the bytes of packet `i` are those
from `(i - 1) * PacketSize` on; insertion and splitting keep this, and combining inverts
it. On the reading side a handler is at a whole number of fields, or has passed the end,
and then `good()` and `end()` never hold together.

*Balance*: what a thread has added up, with what is still cached, never falls below the chain
from its tip; with one thread the two are equal. *SmartCache*: during a walk the
caches say what the blocks up to the one seen last and those the walk has behind it say
together. In each list the new deployments stand before the element that was first when
the walk met the deployer, and the next one found is older than these and newer than
that element. When a walk fails this is lost (`Spoilt`), but the transaction it failed at lies
above the block seen last, every walk begins above it and none gets past it, so no call
comes to use the caches any more. While nobody calls, either statement holds for any
connection, which is how it passes from one call to the next. *ContractFlow*: a call that waits for the Solver was admitted when its
deployment was in the chain, and the chain only grows. *Stats*: of the
blocks the walk has behind it, each period has counted at least those within it from the
beginning of the walk until now, and at most those within it at some time since; ages only
grow, so the first set only shrinks and the second only grows. `StatsAssumption` keeps ages
from going around: with the code's periods, blocks up to 136 years old or 36 ahead.

*TaskManager*: the last element of the list is the oldest, and `nextTime_` does not
exceed its launch; a task that was never sent keeps `nextTime_` at or before now.
*Registration*: the callback that gives the data of a round to the Node gives up its place
with it. *Flood*: a list is cleared only when its node starts the round, and the table and the
vectors are put into the lists of nodes that have started.
*PacketPool*: every operation is
a sequence of elementary moves (drop, reserve, move from, take, arrive), and
between two moves one packet may be counted once more than it is held; each move
keeps that statement, and the number of holders is counted with the theorems on
finite sets. *Receive*: a queue lists the keys of its map without repetition; what is not
remembered has not been handled or sent on; a packet was not sent on oftener than
counted; the parts left are those announced less those present, so that none is left
only when all are there.

*NodeRound*: agreement
is not inductive by itself. The strengthening says that every table in a node,
a list or the network is the one its round was begun with (`decided`), that a
round `r+1` has been begun only by the writer of `r`, who has left `r`, and that
there is one writer a round. The last is the contract of the Solver's consensus,
built into `BecomeWriter`. Ill-formed init data leaves a node with any level, so these need
well-formed data; that rounds only grow follows from the types alone.

Only model-checked: liveness, which the prover does not handle. Every invariant and action
property that a run expects to hold is proved, with the assumptions above. Loops over data
(`ChainQuery`, `SmartCache`, `PackStream`) are modelled turn by turn: each turn is a step of
the machine, and the invariant takes the place of an induction the prover could not do.

## Not modelled

`PROJECT.json` lists every part with its reason. In short:

- Vendored libraries. `src/` holds the sources of Thrift, LevelDB, Snappy, BLAKE2 and
  Ed25519 beside the node. They are more than nine tenths of the lines there and no
  part of what is verified here. Of the roughly 10,000 lines of the node itself (tests
  left out) the definitions cover about 2,500; most of the rest declares types, converts
  between them, or logs.
- The Solver, the signal server and the executor are not in the repository. They are
  environments that may do what the node's code allows for.
- Data races on plain containers (the resend list, the packet pool and the caches used
  from several threads) have no bounded set of outcomes. The modules let the threads
  interleave between operations or keep them on one thread, and say which.
- Sockets, key files, Thrift servers, the LevelDB backend (not built into the node), value
  types without a protocol, cryptography.
- Text forms other than that of a transaction id; operators of Amount on `double`; the
  sums of the statistics, without carry (`api/src/csstats.cpp:81`); the count a pool
  keeps when it is cleared (`csdb/src/pool.cpp:632`).
- Reopening a Storage object (`csdb/src/storage.cpp:341`): the node opens one object once.

What could come next: the round of `Flood` followed through matrices, hashes and blocks.
