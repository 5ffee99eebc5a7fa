# TLA+ models of linuxyz

linuxyz is a collection of about 130 small, independent Linux programs and
kernel modules in C: data structures and synchronisation (`data-*`), sockets and
devices (`dev-*`), kernel modules (`k*`) and small tools (`var-*`). No program
ties them together, so this project models the parts one by one: with a module of
their own where threads, kthreads, softirqs, processes or machines share state, and as
*procedures*, in tables read by one common machine, where the question is what a
function holds and releases on each way out.

| part | source | modules |
|---|---|---|
| static queue | `data-queue-concurrent/static.c` | `Pthread`, `StaticQueue`, `BoundedFifo`, proofs in `StaticQueueProofs`, `ModArithmetic` |
| dynamic queue | `data-queue-concurrent/dynamic.c` | `Pthread`, `DynamicQueue`, `BoundedFifo`, proofs in `DynamicQueueProofs` |
| channel queue | `data-queue-channel/chan.c` | `Pthread`, `ChannelQueue`, proofs in `ChannelQueueProofs`, `ModArithmetic` |
| concurrent hash map | `data-hashmap-concurrent/cmap.c` | `Cmap`, `CmapMain`, `CmapClients`, proofs in `CmapProofs`, `ModArithmetic` |
| demonstrations of locks | `data-sync-*` | `SyncDemos`, proofs in `ProgramsProofs` |
| RCU hash map module | `ksync-rcu-cmap/rcucmap.c` | `RcuList`, `RcuCmap`, proofs in `RcuProofs` |
| RCU book list module | `ksync-rcu/list_rcu.c` | `RcuList`, `ListRcu` |
| virtual ethernet pair | `kdev-net-veth/kernel/core.c` | `DummVeth`, proofs in `PairDriversProofs` |
| drivers made from it | `kdev-net-eth`, `kneigh`, `kxdp`, `kxfrm` | `DummVeth`, `PairDrivers`, proofs in `PairDriversProofs` |
| link over GPIO lines | `kdev-gpio-irqsock` | `GpioLink` |
| wireless device | `kdev-net-wlan` | `WlanWork`, proofs in `ProgramsProofs` |
| AF_XDP forwarder | `dev-net-ebpf-xdp/xsk` | `XskForward`, proofs in `ProgramsProofs` |
| forking HTTP server | `dev-net-ip-netfilter/nat_httpd.c` | `ForkServer`, proofs in `ProgramsProofs` |
| netlink query | `dev-sock-netlink/xfrm.c` | `NetlinkQuery`, proofs in `ProgramsProofs` |
| cryptography | `data-crypt-*`, `kcrypt` | `Steps`, `Procedure`, `CryptAsym`, `CryptQs`, `CryptSym` |
| TLS, DTLS and QUIC peers | `dev-sock-tls*`, `dev-sock-dtls-udp`, `dev-sock-quic`, `dev-net-quic-bench` | `Steps`, `Procedure`, `TlsPeers`, `QuicPeers` |
| socket and HTTP programs | `dev-sock-*`, `dev-net-http-*`, `dev-net-websocket`, `var-ncat`, `var-ten-k` | `Steps`, `Procedure`, `SocketServers` |
| raw, netlink and CAN sockets | `dev-sock-raw-*`, `dev-sock-netlink`, `dev-net-can-sock`, `dev-net-firewall`, `var-mitm-tls`, `var-spoof-arp`, `dev-sock-vpn-socks5` | `Steps`, `Procedure`, `RawSockets` |
| loading and unloading of modules, their files | `k*` | `Steps`, `Procedure`, `KernelModules`, `NetModules` |

`MC*` modules hold the constants TLC needs as definitions; `MCPrograms` puts the parts
that need no run of their own side by side. PROJECT.json maps every definition to the
lines it models, and lists each directory and the hazards. A definition that begins with
*slip* in its comment, or stands under "Slips a programmer might make", is not part of
the model: it is a plausible error in the definition it stands before, kept to see
that the properties notice it.

## Running

    tlc -workers 2 -config StaticQueue.cfg StaticQueue
    tlapm StaticQueueProofs.tla

Each run below names its configuration; PROJECT.json names its module. Most proof modules
take one to six minutes from scratch; `ProgramsProofs` takes about eight, `CmapProofs` and
`PairDriversProofs` about fifteen. The four long modules make Zenon their default prover (`USE Zenon`)
and name SMT where a leaf needs arithmetic: preparing a leaf for SMT gets slower with every leaf
prepared before it.

## Inventory

For each part: its state, its operations, what makes it hard, what should hold.

### Queues

*State.* A mutex, one condition variable for both sides, and either a ring of
nodes with `in_use` flags and two `uint32_t` counters (static, channel) or a
doubly linked list with a length (dynamic). *Operations.* `make_queue`, `enqueue`,
`dequeue`, `delete_queue`, and the loops `do_enqueue` and `do_dequeue` that move
1,000,000 test data (100,000,000 in `dynamic.c`, which passes the same number as the
limit; the model takes any limit). *Hard.* One condition variable and signals sent only at
the edge between empty and non-empty, full and not full; indices read before a wait
and used after it; spurious wakeups; counters that wrap; `main` freeing the queue
without joining the producer. *Properties.* Order, no lost wakeup, termination, no
use after free, and that the pair of operations is a bounded FIFO.

### Hash map

*State.* Buckets with a mutex and a list of nodes, some of them free. *Operations.*
`cmap_alloc`, `cmap_set`, `cmap_get` with a callback under the lock, `cmap_del`,
`cmap_free`. *Hard.* Keys of several threads share a bucket; nodes of deleted keys
are reused by other keys; a key that is set again gets a second node; the error path
reuses the variable that names the mutex. *Properties.* The lists hold what was set and not
deleted, answers come from there, no update is lost, the mutex is given back on every path.

### RCU modules

*State.* Lists whose readers take no lock, nodes waiting for a grace period, kthreads
and the module itself. *Operations.* update, remove and read of the map; add,
borrow, return, delete, print and query of books; loading and unloading. *Hard.*
A node is replaced under a reader; callbacks run later; the reader stops by what
it reads, not because it is told. *Properties.* A reader stands on allocated nodes
and reads values that were current, nothing leaks, everybody ends.

### Virtual ethernet pair

*State.* For each of two devices a pool of buffers, a receive queue, a status word,
a NAPI instance and a transmit queue that can be stopped. *Operations.* `xmit`,
`hw_tx`, the simulated interrupt, `poll`, `release_buffer`, the watchdog, open and
stop. *Hard.* Both devices write each other's status without a lock; the decision
to wake a queue is made after the unlock; a packet may arrive while the poll ends;
the watchdog replaces the pool under traffic. *Properties.* Buffers and packets are
neither lost nor doubled, flow control keeps the pool from running out, stopped
queues are woken, an skb outlives its copy.

### Drivers made from the pair

*State.* That of the pair, the program an XDP driver has, buffers returned after the poll.
*Operations.* Those of the pair; `hw_tx` with a neighbour lookup, an XDP program or an ESP
packet inside. *Hard.* Early returns of `hw_tx` after `xmit` has stored the skb; a native
XDP poll that takes a packet without looking, completes, and returns the buffer later.
*Properties.* As for the pair, and that a poll finds the packet it was scheduled for.

### GPIO link, wireless device

*State.* Pulses, pending interrupts, counters of bits and modes, a queue of one packet and
NAPI; fields of a context, work items and what cfg80211 waits for. *Operations.* `gpio_tx`,
two interrupt handlers, `geth_poll`; `wi_scan`, `wi_connect`, `wi_disconnect`, their
routines and the unloading. *Hard.* Late interrupts; a packet before the poll ends; a
request while the last one is being answered; work queued again after it was
cancelled. *Properties.* What is sent is received, each request gets its own answer, and
both do happen.

### Forwarder, forking server, netlink query

*State.* Slabs, caches and rings; a table of descriptors in shared memory; sequence numbers
and a socket's queue. *Operations.* Receive, fill, send and collect; accept, fork, clear,
close and search; one request and the wait for its answer. *Hard.* A pool without a
test for its end; parent and child reading the entry in either order, children that die; late
answers. *Properties.* Buffers are conserved and no port starves; a slot belongs
to one child and slots come free; an answer belongs to its query.

### Demonstrations of locks

*State.* A lock, what it protects, two threads. *Operations.* The steps of the threads of
six programs. *Hard.* A spin lock tested and set in two steps, a wait without a
second test. *Properties.* No update is lost where the lock is one.

### Functions, peers, servers and modules

*State.* The pointer variables of a function: null, live, freed or never set; its threads,
callbacks and interrupts; its locks. *Operations.* Every statement that acquires, uses,
releases, hands over or tests. *Hard.* Dozens of error exits, cleanup labels reached with
some pointers set; callbacks of libraries in their own threads; unloading under
users. *Properties.* Nothing is lost, nothing released twice or used after its
release, no seen failure is reported as success.

### Everything else

The other directories are listed as components in PROJECT.json with the reason why
they are not modelled. They show one system call, library or device in a
straight line.

## Modules and code

**Pthread** (external) is a mutex and a condition variable as the queues use them:
`Acquire`, `Release`, `Block`, `Unblock`, `SignalIf`, and `WakeSpuriously`, bounded
by `MaxSpurious`. It knows nothing of the queues.

**StaticQueue, DynamicQueue, ChannelQueue.** `pc` says where each thread is.
`Lock` is the lock with the reads of the indices after it, `Wait` and `Wake` are
the two halves of `pthread_cond_wait`, and `Enqueue` and `Dequeue` are the rest of the
critical section up to the unlock with the step of the calling loop. `Retry` is
the second test, which only `static.c` makes. The n-th test datum is the number n; the
two comparisons of `do_dequeue` are one. `UINT32` stands for 2^32 and is a multiple of
the ring length, as it is in the code (2048). ChannelQueue starts `head` and `tail`
from any words of the heap because the `memset` in `make_queue` is commented out.
DynamicQueue has addresses, `malloc` and `free`, and a `fault` state for a NULL
dereference. The spin-lock variants of `static.c` and `chan.c` are switched off by
a macro (`LOCK_SPIN`, `USE_SPIN`) and are not modelled.

**BoundedFifo** is what a queue promises: `Put` appends the next number, `Get` takes
the oldest. StaticQueue and DynamicQueue map their nodes onto its `buf`.

**Cmap** has the lists and what each operation does to one of them. **CmapMain** is the
program of `main`; **CmapClients** lets any thread call any of the three operations on any
key, and keeps an abstract `store` beside the lists. The store is a multimap, for that is what
`cmap.c` keeps: `cmap_set` takes the first free node or adds one in front and never compares
`index`, so a key that is set again has several nodes. `cmap_get` finds the first of them, which may
be the one set earlier (set, set, get, with a free node further down), and `cmap_del` removes
that one and uncovers another. An operation under the mutex is several steps, so that the
mutex matters: the lock, the walk, and the work on the node found with the unlock; in
CmapMain the load and the store of the callback are apart too. The FNV hash is the constant
`HashOf`; the configurations make keys collide. `cmap_alloc` links its first node to
`buck[i].data`, which nobody has written; the model takes it for NULL, as it is in the fresh heap of
`main` (with other contents the first walk would leave the list, and there is nothing to state).

**RcuList** (external) has `list_add_rcu`, `list_del_rcu`, `list_replace_rcu`, read-side
sections and grace periods: `Retire(a)` remembers in `gp[a]` the sections open at that
moment, and `Reclaim(a)` frees the node when they have ended. **RcuCmap** has the two
kthreads, node by node for the reader, and rmmod. **ListRcu** has every function of the
book list, called by scripts: `test_example` as the module runs it, and other tasks.

**DummVeth** has a transmitting and a polling actor for each device. A section under
`priv->lock` is one step. `status |= bit` is two steps (`LoadStatus`, then a store),
because it is done without the lock. Looking at `rx_queue` at the end of the poll loop
and completing NAPI are two steps, as are the release of a buffer and the test whether to wake
the queue. `napi` is external: `idle`, `sched`, `missed` (scheduled again during a
poll) and `off`. `dummveth_get_tx_buffer` on an empty pool leaves `locked` set, as the
code does, and every later step that needs this lock is disabled. The history variable
`disturbed` records what the flow control was not made for: a lost status update
(`clash`), the watchdog, a restart, a packet for a device that is down, and a wakeup for a
buffer that is in use again (`reused`): `dummveth_release_buffer` tests after the unlock whether
to wake the queue, and by then another `xmit` may have taken that buffer and emptied the
pool. `NewPools` are the pools the watchdog may set up, at any free addresses.

**PairDrivers** extends DummVeth: a variable names the driver, and an action is that of
the pair (`Template`) or the driver's own. The contents of packets are left out, so an ESP
packet is one for which `hw_tx` may return early.

**GpioLink** sends each packet as pulses. `Pulse` raises an interrupt; when it is
already pending the pulse is lost (`MaxLate` bounds how often). The handlers are whole
functions, `geth_poll` goes packet by packet. **WlanWork**: a callback is two steps, the
section under the semaphore and `schedule_work`; work queues are external (`Run`).

**XskForward** counts buffers. The steps of `handle_port` are separate because the
kernel (`Arrive`, `Transmit`, external) works on the rings between them; the functions of
the cache are operators on one cache and the pool. The sizes are in the proportions of
`main.c`, except that the completion rings are half as long. **ForkServer** has parent,
children and the shared table; descriptors are reused. **NetlinkQuery** numbers messages; a receive may fail or find other messages.
**SyncDemos** has all six programs, `demo` says which.

**Steps** is the vocabulary of the procedure tables. `Get(r, uses, err)` is a call whose
result is tested and whose failure goes on with `err`; `May` is one that is not tested; `Try`
fails without a result; `Free` tolerates NULL and `Close` does not; `Give` ends the
ownership; `Spawn` and `Join` are threads, callbacks, interrupts and work items. Loops run any
number of rounds. **Procedure** runs them: every call succeeds or fails, a pointer that
was freed keeps its value and is told from NULL, and following one that points to nothing is the
end of the process. What a function is *known* to do wrong is written with it:
`leaks` (resources), `dangling` (pairs of a thread and a pointer it follows), `silent`. The
invariants allow exactly that, and for each such remark there is a path
that needs it. So the properties of the procedures say that nothing *else* is leaked, followed
or kept quiet; for `rcu_cmap`, `list_rcu`, `kworkqueue`, `kstdtimer` and `quic_bench_client` the
use that is known to be wrong is in the list, and the hazard in PROJECT.json says so.

## Runs

All runs but the three marked *violation* pass.

| run | configuration | bounds | distinct states |
|---|---|---|---|
| static_queue | StaticQueue.cfg | 7 data, ring of 2, counters modulo 4, 2 spurious wakeups | 1,540 |
| dynamic_queue | DynamicQueue.cfg | 4 data, limit 2, 4 addresses, 1 spurious wakeup | 19,789 |
| channel_queue | ChannelQueue.cfg | 7 data, ring of 2, heap words 0, 1, 3, 1 spurious wakeup | 6,548 |
| cmap_clients | CmapClients.cfg | 2 threads, 3 keys (2 in one bucket), 2 values, at most 2 entries in a bucket | 117,137 |
| cmap_clients_absent | CmapClientsAbsent.cfg | the same; *violation* | |
| rcu_cmap | RcuCmap.cfg | 3 keys in 2 of 3 buckets, 2 rounds of updates, 5 nodes, 1 failing allocation | 310,461 |
| list_rcu | ListRcu.cfg | both tests of the module beside a task that prints, 2 books, 5 nodes | 40,761 |
| list_rcu_ask | ListRcuAsk.cfg | a borrower and a task that asks; *violation* | |
| veth | DummVeth.cfg | 2 packets one way and 1 the other, or 4 one way; pools of 2, budget 1 | 122,376 |
| veth_clash | DummVethClash.cfg | the same traffic, pools of 1, no fault; *violation* | |
| pairs | PairDrivers.cfg | seven drivers, pools of 2 and two spare buffers, one fault, lockup 0 or 2, 4 packets one way for `deth`, 3 for the pair, 2 and 1 for native `kxdp`, 1 each way for the others | 840,812 |
| programs | Programs.cfg | all procedures; the bounds in `MCPrograms` for the others | 150,126 |

Why the bounds are enough. The rings wrap three times and the counters once, and
each thread can find the ring full or empty at every position of the counters. The hash
maps have two keys in one bucket, so that nodes are found behind others, reused and
replaced at both ends of a list. In `cmap_clients` lists start with one node and grow to two
(`MaxEntries`), so a key may have two nodes, one node may be in front of that of the other key,
and a free one before or behind a used one. In `rcu_cmap` there are more updates than spare nodes, so
addresses are reused while the reader may stand on old nodes. In `veth` the pool runs
empty and fills again while the other direction is busy, and a buffer is in use again when its
release tests the queue. In `programs` a GPIO link carries a
second packet while the first is polled; the third netlink call can meet the answer to the
first; five connections share two slots and three descriptors; the four slabs pass
through both caches with every ring at its limit (completion rings of 2 entries, as long as the
others, add 38,344 states and change nothing); the procedures are small and
searched completely, with loops of any length.

What they show:

- **static_queue**: each `dequeue` yields the next datum (`InOrder`); the nodes between
  head and tail hold exactly what is in flight (`RingWindow`); a thread is blocked only
  while the ring is full or empty (`NoLostWakeup`), although both sides share one
  condition variable; the queue `main` frees without a join is not used any more
  (`NoUseAfterFree`); the program ends (`Finishes`); the operations are those of
  a bounded FIFO (`ImplementsFifo`).
- **dynamic_queue**: the same for the linked list (`ListShape`, which includes that freed nodes are not
  used and none is lost).
  `enqueue` and `dequeue` do not test again after the wait. Without a spurious wakeup
  that does no harm; with one the program may dereference NULL but never delivers a
  wrong datum (`OrderedOrCrashed`).
- **channel_queue**: from any common start of the counters, and without spurious
  wakeups, the channel is correct and ends (`CleanRunsCorrect`, `Finishes`); in all
  runs success is reported only when everything was delivered and both threads were
  joined (`SuccessMeansAll`).
- **cmap_clients**: through every sequence of set, get and del of both threads, of the
  same keys and of absent ones, the lists have for each key and value as many nodes as sets that no
  del has undone, and do not grow while a node is free (`RepresentsStore`). `cmap_get` hands out
  a value that is in the store, and get and del miss exactly when the key has no entry
  (`AnswersFromStore`). That the value is the one set last is not claimed: it is so for a key
  that is deleted before it is set again.
- **rcu_cmap**: the reader's cursor is on allocated memory (`ReaderOnLiveNode`); what a
  section reads was current during it (`ReadIsCurrent`); no node leaks, also when an
  allocation fails (`NoLeak`); both kthreads end, unless rmmod comes before the writer
  first ran (`TasksEnd`).
- **list_rcu**: pointers in use are not freed (`PointersLive`), the list says what the
  calls did (`ListMatchesCalls`), every `synchronize_rcu` returns and every node is
  freed (`EverythingFreed`).
- **veth**: a stopped queue is woken without the watchdog (`QueueWoken`), and the receive
  queue drains (`QueueDrained`), as long as no status update is lost.
- **pairs**: with watchdog, failing allocations, restarts, drops and simulated lockups,
  every buffer is in exactly one place and belongs to the same side, and every packet is
  queued, passed on or dropped once (`PairConserved`); between two transmissions no
  skb is left in `priv->skb`, except after a lost status update, an early return of
  `hw_tx` or a simulated lockup (`SkbFreed`); a poll finds its packet
  (`PollFindsPacket`). The pool runs out, which leaves a lock locked, only after the
  watchdog, a restart or a wakeup for a buffer taken again (`NeverOutOfPool`). An skb is freed before it is copied only
  after a lost status update or a dropped interrupt (`DoneAfterCopyUnlessClash`).
- **programs**, the procedures: `NothingLeaked`, `NoStrayUse` and `NoticedIsReported`, but
  for what is recorded with each function. For instance the tasklet of `ktasklet.c` is not
  scheduled once the module is gone, because `free_irq` comes before `tasklet_kill`.
- **programs**, the rest: no update of the threads of `cmap.c` is lost, values below 0
  included and the load and store of the callback apart, nor of the lock demonstrations whose lock is sound (`NoLostUpdate`). Packets
  over the GPIO lines are received as sent unless a pulse was late or a packet overtook
  the poll (`SentIsReceived`). A netlink answer, and the answer of the wireless
  device, is that to the request waited for (`AnswersItsQuery`). An entry of the forking server's
  table is that of one child (`SlotIsItsChilds`), and as long as not every slot
  was lost to a child that died the server accepts again (`AcceptsAgain`). The forwarder neither loses nor
  doubles buffers (`BuffersConserved`) and no port is left without one
  (`NeverStarved`). Packets arrive and accepted requests are answered
  (`EverythingArrives`).

`TypeOK`, where a module has it, documents the shape of the state; it is proved for
StaticQueue, and the other proofs have types of their own in their invariants.

Deadlock is checked, with a stuttering step where a program has exited. It is not in
ChannelQueue, where a run that is not clean may leave a thread waiting for ever,
in CmapClients, where a miss keeps the mutex and the other thread waits for ever,
nor in DummVeth and PairDrivers, where the devices rest when the bounded traffic is over.

### Fairness

Threads and kthreads are scheduled: weak fairness of the steps of each of them. Weak
fairness is enough for the mutexes here because the other side blocks or exits after
finitely many calls. Grace periods end (weak fairness of the callbacks): read-side
sections contain no waits. Spurious wakeups, failing allocations, rmmod, restarts, new
packets and the watchdog have no fairness: they may happen, not must.
The handlers of the GPIO lines run when their interrupt is pending, the sender goes on with
its pulses, a scheduled poll is run, and kworkers take up queued work. In the forking
server the parent goes on with its loop and children that do not die finish. Nothing is assumed
of new packets, requests and connections, or of late pulses and dying children.

### Findings

- `cmap_get` and `cmap_del` of an absent key set `idx = -1` before the unlock and so keep
  the bucket's mutex (`cmap_clients_absent`, `cmap.c:125`).
- `is_borrowed_book` reads `b->borrow` after `rcu_read_unlock` (`list_rcu_ask`,
  `list_rcu.c:155`).
- The unlocked `status |=` in `dummveth_hw_tx` can bring back a TX_INTR that was already
  served; the next skb is then freed while it is copied (`veth_clash`, `core.c:404`).

Also met, and covered by conditions of passing properties or noted as hazards: a key set twice in
`cmap.c` of which `cmap_get` returns the older value; the missing
second test after the waits of `dynamic.c` and `chan.c`; rmmod of both RCU modules without
`rcu_barrier`; rmmod of `rcucmap` before its writer ran; the pool of the virtual pair
being empty after a restart; the test at `core.c:98`, made after the unlock, which with two
buffers or more can wake the queue of a pool that is empty again (the proof of
`NeverOutOfPool` found this one: with pools of one buffer no run had met it). No comment or test of
the repository says otherwise of these, so they are not findings; where a property has a condition
for one of them, the hazard's note names the condition, and the property is then about
everything else.

Recorded with the procedures, where a comment says which path it is: error exits that
release nothing (most of the OpenSSL programs, DMA), globals released again by the error
exit of a second round (`asym.c`), callbacks and timers that outlive their module, contexts
freed before the files that show them, a pool released once per port, an array freed in
place of its element (`server_handle.c:287`), registrations kept when a device goes, and loads
that fail with a value the kernel takes for success.

## Proofs

A theorem holds for every value of the constants. Beside the assumptions of the modules,
which the runs evaluate, seven theorems state what they need of the constants themselves. No
property below is inductive alone; each paragraph says what was added and why.

| module | theorem | statement |
|---|---|---|
| `StaticQueueProofs` | `TypeCorrect` | `Spec => []TypeOK` |
| | `Ordered` | `Spec => []InOrder` |
| | `RingCorrect` | `Spec => []RingWindow` |
| | `WakeupsKept` | `Spec => []NoLostWakeup` |
| | `FreedUnused` | `Spec => []NoUseAfterFree` |
| | `RefinesFifo` | `Spec => Fifo!FifoSafety` |
| `ChannelQueueProofs` | `SuccessIsTrue` | `Spec => []SuccessMeansAll` |
| | `CleanIsCorrect` | `Spec => []CleanRunsCorrect` |
| `DynamicQueueProofs` | `Ordered` | `Spec => []OrderedOrCrashed` |
| | `WellLinked` | `Spec => []ListShape` |
| | `RefinesFifo` | `Spec => ImplementsFifo` |
| `RcuProofs` | `CursorIsLive` | `Spec => []ReaderOnLiveNode` |
| | `ReadsAreCurrent` | `Spec => []ReadIsCurrent`, given `SomeKeyIsStored` |
| | `NothingLeaks` | `Spec => []NoLeak` |
| `CmapProofs` | `MapRepresents` | `Spec => []RepresentsStore` |
| | `AnswersAreStored` | `Spec => AnswersFromStore` |
| | `MutexReturned` | `Spec => []LockReleased`, given `~CallsAbsent` |
| | `UpdatesKept` | `M!Spec => []M!NoLostUpdate`, given `MainSizes` |
| `ProgramsProofs` | `BuffersStay` | `Spec => []BuffersConserved`, given `XskSizes` |
| | `PortsAreFed` | `Spec => []NeverStarved`, given `XskSizes` |
| | `LocksKeepUpdates` | `[]D!NoLostUpdate` from `D!Init` and `D!Next`, given `DemoSizes` |
| | `QueryIsAnswered` | `L!Spec => []L!AnswersItsQuery` |
| | `WlanAnswers` | `[]W!AnswersItsRequest` from `W!Init` and `W!Next` |
| | `WlanCancels` | `[]W!NoWorkOnFreed`, likewise |
| | `SlotsAreOwned` | `F!Spec => []F!SlotIsItsChilds`, given `ForkSizes` |
| `PairDriversProofs` | `EveryBufferInOnePlace` | `PairSpec => []PairConserved` |
| | `EverySkbFreed` | `PairSpec => []SkbFreed` |
| | `NoneFreedEarly` | `PairSpec => []DoneAfterCopyUnlessClash` |
| | `PoolNeverEmpty` | `PairSpec => []NeverOutOfPool` |
| | `EveryPollFindsPacket` | `PairSpec => []PollFindsPacket` |

**Static queue.** Order rests on what the nodes hold (`RingWindow`); that rests on the tests
meaning *full* and *empty*; and that rests on what a thread remembers. Hence

    IInv == TypeOK /\ Control /\ Indices /\ RingWindow /\ InOrder /\ NoLostWakeup

`Control` ties the lock, the waiters and the ends of the loops to `pc`. `Indices` says that
the wrapped counters are the loop counters modulo `UINT32`, and which remembered index
is still current: after a wait only a thread's own one. `TestsSound` derives
from it that `Full` and `Empty` are right, before and after a wait. The arithmetic
of the ring (counters nearer than a ring length are at different nodes; wrapping a counter
does not move its node) is in `ModArithmetic`, proved from
division with remainder (`DivMod`), which the SMT solver knows. The refinement maps the
nodes between head and tail onto the sequence of `BoundedFifo`: the unlock of `enqueue`
is `Put`, that of `dequeue` is `Get`, every other step stutters. That leaves out the
fairness of `BoundedFifo`, which `ImplementsFifo` includes and TLC checks.

**Channel queue.** The counters start from any two words t0 and h0 of the heap, and no
variable remembers them, so the invariant says that there are such words, with
`tail = (t0 + i) % UINT32` and `head = (h0 + taken) % UINT32`. When they are at the
same node and no wakeup was spurious, the window of the ring is the one of the static
queue, shifted by h0. Since `chan.c` does not test again after the wait, `Wakeups` says in
addition that a thread which a signal has woken finds what it waited for. `SuccessIsTrue`
holds in every run, and needs only `Basic`, the part about control.

**Dynamic queue.** Nodes are known by their contents: `Content` says that the allocated
nodes hold exactly the numbers from `taken` to `i - 1`, each once, and `Links` that `next` and
`prev` of the node of k are the nodes of k - 1 and k + 1. So no induction along
the list is needed. `Wakeups` is part of the invariant as long as no wakeup was spurious: then
the length is within the limit and NULL is not dereferenced. The refinement gives
`BoundedFifo` the capacity LIMIT if no wakeup can be spurious, and more if one can.

**Hash map.** `CmapInv` says of the list of each bucket (`Holds`) that every node in use is an
entry of a key of this bucket, that each entry has as many nodes as the store counts, and that the
list is no longer than allowed; of each call (`CallOf`) that its thread holds the mutex of the bucket,
and that the node its walk has found is still the one the walk would find; and of each
mutex (`MutexOf`) that its holder is in a call, when none misses. The part on calls is what makes
the rest inductive: without it a set could fill a node that another thread has filled since. The
lemmas on lists count nodes when one is replaced (`ReplaceCount`) and when one is put in front
(`FrontCount`); a list grows only when no node is free, and then it has as many nodes as
entries, fewer than `MaxEntries`. `MutexReturned` has the hypothesis that get and del are not
called for absent keys; without it `cmap_clients_absent` finds the mutex kept.

For `main`, no variable says what a value should be: `Tally` computes it from the loop
counters of the threads, modulo 2^64 (`UINT64`), and `Made` is the map of these values over
the keys inserted so far. `MainInv` is that the lists are `Sound` for `Made`, one node to a key,
since `main` sets each key once. `Held` says that a thread between the load and the store of
its callback has the mutex, the node of its key and the current value. `MainInv` adds that free nodes hold 0 (`Zeroed`), since `main`
looks at them too, and that a thread finds its key and so never gives up (`ThreadInv`). When
all threads are joined each counter is at its end, as many threads have added as
subtracted, and every tally is 0. `MainSizes` is what `cmap.c` has: keys counted from 0, and
`TOTAL_THREAD_COUNT` threads of each kind, none of them `main` or the value for *no holder*.

**RCU map.** The lists come first. A list is `Linked` (each node has one predecessor),
and `Sorted` by some assignment of positions: this replaces the induction that *the walk reaches
every node and ends* would otherwise take. `list_add_rcu` gives the new node a position
before all others, `list_replace_rcu` that of the old node. `NodeInv` says where an
allocated node is: on the list of its bucket, retired, or in the writer's `old_n`; and `GraceInv`
that grace periods wait for the reader only in its section. `WalkInv` says what
a section can meet: there is a set V of nodes, none freed before the
section ends (`Protected`), that contains what is on the list now and is closed under
`next`; every node of V with the key holds a value the key had during the section; and
as long as the key was never missing, some part T of V is closed under `next` until the key is
found, so that the reader does not miss it. The writer removing a node cuts it out of T, and
one replacing a node adds the new one to both. `SumInv` and `DoneInv` are about the sum of
`task_reader`: some key other than 0 was stored, and when that one is found
missing so are all the keys read after it. This needs `SomeKeyIsStored`, which is that fewer
kzallocs fail than there are keys after key 0. If all of theirs fail, the reader may end on a map
that still holds key 0, whose value is 0 at first.

**Forwarder.** `XskSizes` are the proportions of `main.c`: four slabs or more, and half the fill
queue and the transmit queue together smaller than a slab (8192 / 2 + 8192 < 16384). The
rings are exact counts (`FillInv`, `SentInv`). `FlowInv` says that all buffers of a direction
together fill whole slabs, because only whole slabs are exchanged with the pool. A
direction whose cache is empty has fewer than two slabs and the other one at most
two, so one of four is in the pool.

**Forking server, netlink query, wireless device.** `ForkInv` says what the parent knows of the
entry at each place of its loop (free when it accepts, nobody's when it forks) though children
clear entries at any time. `ForkSizes` says only that the table has an entry and that descriptors
are natural numbers. `QueryInv` says that the kernel has answered no sequence number
later than the current one, and the current one only with the answer to this call.
`WlanInv` ties the field, what cfg80211 waits for and the work item of a
callback together, also between the two steps of the callback, and says which items were queued
after `virtual_wifi_exit` cancelled them.

**Lock demonstrations.** `DemoInv` says that at most one thread is inside unless the spin lock of
`data-sync-spin-atomic` let both in (`Exclusive`), that a thread about to add has read the
current counter (`CountInv`), which slots of the queue belong to which round while the producer
or the consumer is in its loop (`SlotInv`), and which values the counter has while one thread
waits for the other (`CondInv`). `DemoSizes` is that loops run at least once.

**Virtual pair and its drivers.** Five invariants, each proved from those before it and for all
seven drivers at once. `BufferInv`: pool, transmission, receive queue and polls partition the
buffers of a device, also those returned after the poll. `DataInv`: a buffer has
contents just while it is queued, and every skb counted as sent is in one buffer, received or
dropped. `StatusInv`: as long as no update of `status` is lost, TX_INTR is set only around the
interrupt of the transmission that set it, so the skb freed is the one that was copied.
`FlowInv`: an empty pool has a stopped queue, until one of the three disturbances wakes it.
`PollInv` counts: polls scheduled or announced for a device are never more than the
packets on its queue, which is what a native XDP poll relies on when it takes a packet
without looking.

The inductive invariants were model-checked on the instances of the runs before they were proved.

Only model-checked:

- liveness (`Finishes`, `TasksEnd`, `EverythingFreed`, `QueueWoken`, `QueueDrained`, `AcceptsAgain`,
  `EverythingArrives`) and the fairness of `BoundedFifo`, which the prover does not handle;
- `PointersLive` and `ListMatchesCalls` of the book list, which depend on the script:
  for some scripts they are false, as `list_rcu_ask` shows;
- the procedures, whose properties are facts about the tables; a search
  that covers them completely is the proof;
- `SentIsReceived` of the GPIO link, which folds over the bits of a packet.

## Not modelled

In the modelled parts: a failing `malloc` in the user-space queues and the hash map, whose result the
code uses untested (`dynamic.c:87`); other results of `do_dequeue`
than 0 when all data were right (`static.c:208`, `dynamic.c:163` have no `return`; what the caller
finds is the 0 that `clock_gettime` left); the skb
that a native XDP program's XDP_DROP leaves behind (`kxdp.c:226`); the spin-lock variants of the queues that macros switch off; NAPI switched off
(`use_napi=0`), headers and MTU of the pair; the contents of packets, keys and certificates;
condition variables, stacks and tables of several connections in the asynchronous pool, the
threaded servers and `var-ten-k`, which are procedures for one connection; user-space callers of
the module files; calls to the wireless device before its work items are initialised, and network names
longer than the field they are copied to; time, so that a timeout is a choice; timing
output. Memory is sequentially consistent: the mutexes, RCU primitives and
spin locks order every access that matters except the `status` word of the pair and the flag
of the spin lock demonstrations, whose load and store are separate steps.

Not modelled at all, with the reasons in PROJECT.json: XDP programs, DPDK, hardware
demonstrations (GPIO, serial lines, infrared, sonar), build scripts and configurations,
demonstrations of single system calls (namespaces, signals, seccomp, cgroups), layout and
conversion of data, small filters, notes and the examples in other languages. They are
sequential, or their state is that of the kernel, the hardware or a library.

Hazards seen and not covered by a property, beside those in PROJECT.json: the writers of
`var-ten-k/tenk.c:11`, whose range is empty for all threads but the first; `TLSCH_HEAD`
(`dev-sock-tls-thread/server/server_tls.c:103`), decremented whichever entry is released;
the time left in `dev-sock-poll-tcp/client_p.c:108`; `rx_flush`
(`dev-sock-raw-mmap-packet-ip/server/server.c:424`), which gives back frames that were not
looked at; the one `fd` per slot of the asynchronous pool (`server_handle.c:143`), which is that
of the last datum pushed, and its worker, which waits without a test (`server_handle.c:171`) and
so misses a signal sent while it works; a packet of the GPIO link that completes while the poll
ends (`kgpio_irqsk.c:121`).

## Plan

Prove more: `PointersLive` for the book list, for the scripts that do not ask while another
task deletes.

Model more: `AsyncPool` for the stacks and condition variables of
`dev-sock-epoll-tcp-async-pool`, and the tables of the threaded servers.
