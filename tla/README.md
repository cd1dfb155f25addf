# TLA+ verification of go-example

`go-example` is a collection of Go libraries and programs. This project models the
parts of it that carry concurrent or stateful logic of their own, model-checks them
with TLC on small instances and proves their most important safety properties with
TLAPS for every value of the constants.

Paths below are relative to the repository's root. `PROJECT.json` gives, for every
definition, the source lines it models (`map`), the hazards the properties are aimed
at (`hazards`), and for each property a plausible bug that breaks it (`mutants`: the
operators named `X_Something` placed before `X`, used nowhere else).

## 1. Inventory

### Modelled

**Write-behind strategy** (`go_cache_strategy/strategy/writebehind`, and the bulk update of
`internal/database`). State: the queue channel, the worker's batch, the context, a `sync.Once`,
cache and rows. Operations: `UpdateUser`, `dbWriterWorker`, `flushBatchToDB`, `Stop`. Callers and
one worker goroutine meet at the queue. Hard: the select between queue, ticker and cancellation; a
shutdown that drains while callers go on; a batch that is written twice; transactions that fail.
Correct if accepted updates reach the database in order and none is lost, and if `Stop` returns,
not too early, and kept waiting by nothing but clients that go on queueing.

**In-memory cache** (`go_cache_strategy/internal/cache`). State: a map of items with
expiry, a cleanup goroutine. Operations: `Set`, `Get`, the cleanup, `StopCleanup`. Used by
all strategies. Hard: `Get` drops the read lock before it deletes an expired item. Correct
if a fresh item is never removed and `StopCleanup` returns.

**Cache-aside, read-through, write-through, write-around**
(`go_cache_strategy/strategy/*`). They run in the caller's goroutine and use cache and
database in separate steps. Hard: a fill overtaken by a write. Correct if the cache is
never ahead of the database and stale only through that race.

**Bytes queue** (`go/container/bytesqyeye`). State: indices, margins and the flag `full` of
a ring in one byte array. Operations: `Push`, `Pop`, `Reset`, and reads. Sequential. Hard:
wrap-around, growth while wrapped, header sizes at their boundaries. Correct if every
index handed out reads its entry, and entries come out in order.

**uvgo timers and event loop** (`uvgo/loop.go`, `timer.go`, `eventloop.go`,
`loop_meta.go`). State: handles, the timer list, the wake and `fire` channels. Operations:
`TimerStart`, `Timer.Stop`, the scheduler goroutine, `RunMode`, `RequestStop`. API
goroutines, scheduler and loop pass handles to each other; callbacks use the API. Hard:
pings that are dropped, handles written without a lock, a full channel. Correct if a
handle has one owner, callbacks are never early and do run, and `Run` returns.

**geecache group and LRU cache** (`gocache/lrucache`, `lru`). State: list, map, byte count.
Operations: `Group.Get`, `Add`, `Get`, `RemoveOldest`; the getter is called without a lock.
Hard: concurrent loads of one key with values of different length. Correct if list, map
and count agree and eviction is least-recently-used and ends.

**geecache singleflight** (`gocache/lrucache/singleflight`). State: the map of calls under
way, their wait groups. Operation: `Group.Do`. Hard: the window between `wg.Done` and the
deletion. Correct if `fn` runs once at a time per key and every waiter gets its result.

**UDP session listener and reverse proxy** (`net/proxy/udp_conn.go`, `udp_proxy.go`). State:
sessions by address, the accept channel, a queue per session, a backend socket per session.
Operations: the listener's `readLoop` and `getConn`, `Accept`, `Shutdown`, a `readLoop` per
session, `Read`, `Write`, `Close`, `ServeUDP` and its two copies. Hard: a lock held across
a channel send, deadlines, three goroutines closing what the others use, sessions closed
twice. Correct if open sessions lose nothing, the shared loop never waits for a handler, and, as
long as somebody accepts, a closed session releases everything and `Shutdown` returns.

**uvgo sockets and file polling** (`uvgo/tcp.go`, `udp.go`, `fspoll.go`, and the pending queue,
hooks and teardown of `eventloop.go` and `loop.go`). State: listeners, sockets, the channels their
goroutines fill, the poll's `busy` and `prev`. Operations: `ListenTCP`, `ListenUDP`, `UDP.Send`
and `Close`, `FSPollStart` and `Stop`, `Post`, `Stop`, `RequestStop`. Hard: a listener is added
after the check of `stopped` (`tcp.go:31`); `UDP.Close` takes the socket away before it closes it
(`udp.go:152`); the pending phase runs whatever its functions post (`eventloop.go:183`); a full
pending queue drops a function (`eventloop.go:94`); `FSPoll` checks `active` under the lock and
calls back after it (`fspoll.go:228`). Correct if the teardown leaves no socket, item or goroutine
and the poll's callback has been told the last outcome.

**TCP and HTTP reverse proxies** (`net/proxy`). State: the transport manager's three maps and
the configuration map it shares with its caller, per connection two copies and a deadline,
per authenticated connection a sticky round tripper. Operations: `Update` and the lookups,
`Build`, `DialContext`, `ServeTCP`, `connCopy`, `ServeHTTP` with `Rewrite` and `ErrorHandler`.
Hard: `Update` compares a map with itself (`http_transport.go:114`); a copy reports its end
before it half-closes its destination (`tcp_proxy.go:61`); dials that fail half-way; two first
requests of one connection (`http_transport.go:369`). Correct if nothing that still flows is
cut, every connection is closed, transports are those of the configuration, and paths and
forwarding headers survive the rewriting.

**Entry point and client address** (`net/tcp`, `net/ip`). State: the listener, its accepted
connections, a request's chain of proxies. Operations: `buildListener`, `Accept`, the parsers
of `Duration`, `Checker` and the three strategies. Hard: the several forms of an address, a
policy that must survive a restart. Correct if a header counts only when it comes from whom
the configuration trusts, and the client is found behind trusted proxies.

**Tunnel services** (`net/grpc`). State: routes, the pool of waiting requests, a channel per
request. Operations: `OpenTunnel`, `ServeHTTP`, the agent's `recvLoop` and `handleRequest`. Hard:
agents that take over a prefix, answers after the timeout, streams that break, concurrent
`Send`, a body that never ends (`server.go:116`). Correct if a request gets its own answer or an
error, and gets one unless its own client stalls.

**gRPC order and product services** (`gRPC/*`). State: a global map without a lock, batches of
shipments per stream. Operations: the five order methods of seven servers and two product
methods of four, interceptors, clients. Hard: concurrent map accesses, errors of a stream that
are not looked at, a deadline in the middle of a batch. Correct if every order ships once, an
answer says what was done, and the clients end.

**Exporter** (`exporter`). State: the handler and, per scrape, a wait group and a goroutine per
collector. Correct if every collector's outcome is in the answer and nothing is sent to a
channel after it is closed.

**Locked files and pid file** (`linux/lockedfile`, `utils/pidfile`). State: contents, `flock`
locks, the in-process mutex. Operations: `Read`, `Write`, `Transform`, `Mutex.Lock`,
`CreatePidFile`, `RemovePidFile`. Hard: failing writes, crashes in the middle of a write,
`O_TRUNC` before the lock (`pidfile.go:21`). Correct if a reader sees the last successful write,
and a lock excludes.

**geecache peers** (`gocache/lrucache/http.go`, `consistenthash`). State: the hash ring, the
registry of groups. Hard: colliding hashes, names that need escaping. Correct if adding nodes
moves keys only to them and the peer looks for what was asked for.

**Containers** (`go/range`, `go/container/queue`, `stack`, `list`). Sequential; correct if they
are the sequences they stand for.

**Channel pipelines** (`concurrency/channel/pipeline.go`, `cmd/pipleline`). Stages over
unbuffered channels, `Or`. Hard: a stage sends without looking at `done` (`pipeline.go:65`).
Correct if results come in order and, as long as somebody receives, every stage ends.

### Not modelled

* Generated protobuf and API documentation code.
* The greeter example of gRPC, `net/http` helpers, `exit` (one goroutine and a counter),
  utilities, YAML, JSON and database examples, command line programs, design pattern and
  language examples: they call libraries, do I/O or compute one result, and keep no state that
  an interleaving or a sequence of calls could spoil.
* Inside modelled parts: the pool of copy buffers of the HTTP proxy; configuration fields that no
  code reads (the health checks of `tcp_dialer.go:197`); `net/tcp/domains.go`, four pure functions
  on domain names that nothing calls; `OnEvicted` of the LRU cache, always nil; `GetProtocol` and
  `GetAddress` of an entry point, because `buildListener` does not look at the protocol; a
  completion callback that sends again while the teardown drains its queue; a panic in
  singleflight's `fn`; overlapping calls of the cache's `StopCleanup` (the program makes one);
  `HTTPPool.Set` and `PickPeer`, which cannot work as they stand (the default hash function is
  assigned only after the ring was built with nil, `consistenthash.go:26`, and the test at
  `http.go:89` is the wrong way round), so that a remote `Get` starts from a peer the caller
  knows.

`PROJECT.json` lists every component with its status.

## 2. Modules

A component has a module with its state and actions; the theorems are in eight `*Proofs` modules,
one for a group of components (section 5). Parts that share no state are model-checked together:
an `MC*` module extends several components, a variable `part` chosen at the start says which of
them a behaviour is about, and the others keep one initial state. To make that possible the names
of a module carry a prefix (`WD`, `CS`, `BQ`, `GC`, `SF`, `UT`, `UI`, `TP`, `TM`, `HP`, `EP`,
`TN`, `OS`, `PS`, `LF`, `PF`, `RB`, `LL`, `PL`, `GP`, `EX`) where they would clash.

| Module | Extends | Models |
|---|---|---|
| `Outcomes` | | the two values `Nil` and `Failed` |
| `WriteBehind` | | the strategy with clients, worker, `Stop` callers and a database that may fail |
| `WriteBehindDepth` | | the strategy without its data, with clients that are not bounded; `WriteBehind` implements it |
| `MemCache` | | the in-memory cache: the effect of each call, expiry, the cleanup goroutine |
| `CacheStrategies` | `MemCache` | the four strategies that run in the caller's goroutine, composed with the cache |
| `BytesQueue` | | the ring of bytes |
| `UvTimers` | | uvgo's timers, the scheduler and the loop |
| `UvIO` | `Outcomes` | uvgo's sockets, polls, posts and hooks, and the teardown |
| `GeeCache` | | `Group.Get` over the guarded LRU cache |
| `SingleFlight` | | `Group.Do` |
| `GeePeers` | `Outcomes` | hash ring, registry of groups, remote `Get` |
| `UDPListener` | | the listener and its sessions; the effect of the calls on a session |
| `UDPProxy` | `UDPListener` | the handlers of accepted sessions, composed with the listener |
| `ProxyTLS` | `Outcomes` | TLS configurations and the judgement of certificates |
| `TCPProxy` | `ProxyTLS` | dialer manager, dial, `ServeTCP` |
| `HTTPTransport` | `ProxyTLS` | the transport manager |
| `HTTPProxy` | `HTTPTransport` | requests through the handler and its round trippers |
| `EntryPoint` | `Outcomes` | listener, PROXY protocol policy, durations, client address |
| `Exporter` | `Outcomes` | handler and scrapes |
| `Tunnel` | `Outcomes` | tunnel server and agents |
| `OrderServices` | `Outcomes` | seven order servers and their clients |
| `ProductServices` | `Outcomes` | four product servers and their clients |
| `LockedFile` | `Outcomes` | files, `Transform`, `Mutex` |
| `PidFile` | `Outcomes` | `CreatePidFile`, `RemovePidFile` |
| `Fifo` | `Outcomes` | the abstract queue |
| `RingBuffer` | `Outcomes` | the range buffer; implements `Fifo` |
| `LinkedLists` | `Outcomes` | queue, stack and list; the queue implements `Fifo` |
| `Containers` | `RingBuffer`, `LinkedLists` | what the containers promise together |
| `Pipelines` | `Outcomes` | pipelines and `Or` |

### How they correspond to the code

**WriteBehind.** `queue` is `updateQueue`, `batch` and the program counter `worker` are the locals
of `dbWriterWorker`, `cancelled` the context, `once` and `stopper` the `Stop` calls. Each case of
the worker's select is an action (`RecvUpdate`, `Tick`, `RecvDone`), and each call of
`flushBatchToDB` is a step of its own, so that `Stop` can cancel the context between the choice
and the transaction. `UpdateUser` is two steps, the cache write and the non-blocking send, as
other goroutines can come between. The shutdown branch is `FlushShutdown`, the drain loop and
`FlushFinal`; as in the code, the first flush leaves the batch as it is. A user's value is the
number of the call that wrote it; `seq` (the order of acceptance) is a history field. With
`DbMayFail` a transaction may roll back, and a single statement may fail while the transaction
commits without it, as in `BulkUpdateUsers`.

**WriteBehindDepth.** The same program with the lengths of queue and batch for their contents, and
without the bound on calls: a client that has returned from `UpdateUser` may call it again, for
ever. This is where `StopReturns` belongs, because the drain loop (lines 110-125) ends only on an
empty queue. `WriteBehind` implements it (`ImplementsDepth`, with `Queueing` as the calls between
the cache and the queue), so that the two cannot drift apart.

**MemCache, CacheStrategies.** An item is its value and whether it is fresh; `Expire` may
happen to a fresh item at any time. `Get` has three outcomes; the one for an expired item
leads to `LazyDelete`, a second step, because the read lock is released first. A read
strategy is lookup, query and fill, each a step of its own; a write commits the row and
then sets the cache. A row's version counts its writes. `readthrough` caches the nil
pointer its loader returns for a user that does not exist; that is version 0 in the cache.
`StopCleanup` calls do not overlap in the model (the program makes one): the
check-then-close in it is not safe against itself.

**BytesQueue.** The fields are the code's. The array is abstracted to the set of blocks
intact in it, each with its place, its total size and its entry; a write destroys what it
overlaps, so a wrong index shows as a missing block. `Push` has five outcomes, each an
action: after the tail, before the head, refused, grown, grown while wrapped (with the
filler block written over the gap). The header size that is reserved and the uvarint that
is written are two separate definitions, as in the code.

**UvTimers.** Time is relative: `left[t]` is the time until `th.next`, and `Tick` shortens
everything that runs. A handle travels from `timers` to `due` to `fire` to the dispatcher
and back; `wake` is the one-place ping channel, `sched` the scheduler's program counter. A
call of the API and the ping it ends with are two steps, because the lock is released
between them. A callback is any sequence of API calls by the loop's goroutine between
`CallbackBegin` and its end. `FireDueTimers` splits the list into due and later handles, each in
the list's order (`InOrder`). Events of the other sources are `PollOther`, which changes no
timer state.

**GeeCache.** `ll` and `cache` are the list and the map, `nBytes` the counter. The getter is
called outside the lock: `GetMiss`, `GetterReturns`, then `AddNew` or `AddUpdate`. Under the
lock the eviction loop is a step per turn, during which nobody else uses the cache
(`Unlocked`). `SourceChange` is the data source returning something else later. `later`, a history
variable, has the pairs of keys of which the first was used after the second.

**SingleFlight.** One action per lock region or blocking point of `Do`: `Join`, `Lead`,
`FnReturns`, `WgDone`, `DeleteAndReturn`, `WaitReturns`. `fn` returns; a panic in it is left
out.

**UDPListener, UDPProxy.** Unbuffered channels are rendezvous, one step of both sides.
`l.mu` is held over more than one step only while `getConn` offers a session to `Accept`, so
the lock is free unless the loop is there (`MuFree`). `Shutdown` is called by several goroutines
(`Closers`): the call is one step, and what it does under the lock (`StopAccepting`) another, for
which it may have to wait. A datagram is its number. Reading it
and `getConn` are two steps: the listener may be closed in between. Any time may pass
between steps, so a session's deadline may always be found passed. `UDPProxy` says when
sessions are read and closed: `ServeUDP` and its two copies, each handing its error over
before it closes its destination. The backend fails at any time.

**UvIO.** A loop is used for a listener, a UDP socket that also sends, a poll, or posts and hooks
(`uiUse`). A listener and a socket work alike: a goroutine reads an item and pushes it to a
channel, with the loop's context as the other case of its select. `Listen` is the check of
`stopped`, the socket, the addition to the list and the start of the goroutine, each a step;
`StopLoop`, `RequestStop` and the loop's own teardown take the lists apart at the same time.
`UDP.Close` is what it does under `u.mu`, the closing of the connection, and the removal from the
list, each a step (`uiClose`), between which `recvLoop`, a second `Close` and the teardown run.
`Post` may be called at any time by any goroutine, the running function included, and is not
bounded. `uiPushed` are the items queued after the teardown had drained the queues. `uiRaced`
records the sockets added to a list that had already been taken, the case in which nothing closes
them. A job of the poll is a `stat` with its outcome, which the loop's goroutine dispatches;
`fpTold` is what the callback was last called with.

**ProxyTLS, HTTPTransport, HTTPProxy, TCPProxy.** Certificates, files and names are opaque;
which contents parse and which pairs match are constants. The TLS configuration is built the
way the code does, errors that are only logged included. The caller's map and the objects it
points to are variables of `HTTPTransport`, because `Update` keeps both: `tmTainted` are the
names the caller changed behind the manager's back. A request of `HTTPProxy` goes through
`Rewrite`, the Kerberos round tripper (look at the sticky holder, send, remember the clone: three
steps) and `ErrorHandler`. In `TCPProxy` a copy is `copy`, `report`, `closewrite`, `deadline`, and
`ServeTCP` takes the two reports in between; the peers send, half-close and reset at will.

**EntryPoint.** `buildListener` panics where a PROXY protocol part comes without a transport part
(`tcp_listen.go:225`): the process ends (`CanListen`). An address is its family and bits, so that
masks, mapped addresses and zones are computed, not assumed. A duration has `DurationWidth` bits
and a second takes `SecondUnits`, which makes the product wrap. A restart marshals the
configuration and reads it again.

**Tunnel.** `OpenTunnel` of a stream, `ServeHTTP` of a request and `recvLoop` of an agent are
interleaved step by step. `ServeHTTP` reads the body (`ReadBody`) between the routing and the
registration, and writes the answer last; both are up to the request's client. A `Send` that
overlaps another on the same stream may lose its message, which is how the data race in the code
is modelled.

**OrderServices, ProductServices.** The servers of the examples are the same program with small
differences, so each is a record of switches (does it look at the deadline, at cancellation, what
does it do with an error of `Recv`) given to one set of handlers; `map` has an entry for each.
Beside the stream there is one unary call in a behaviour, made at any time; a client of
`UpdateOrders` sends three orders, as the repository's does. The call's context is live, past its
deadline or cancelled; where `AddOrder` looks at it, it looks for the deadline only
(`cancellation/server.go:44`). The products of `sendmessage` are stored under the id their client
chose, those of the others under a fresh one. `ProcessOrders` files an order with the number of
its id in the stream, so that `osShipped` can say which were shipped. A write to the map that
meets another access may end the process.

**LockedFile, PidFile.** A lock belongs to an open file. A write that fails or is cut off by a
crash has written some prefix. `lfErr` is the variable of `Transform`'s own scope and `lfRet` what
the call returns: the code sets only the latter when a write fails.

**Fifo, RingBuffer, LinkedLists.** `RingBuffer` and `LinkedLists` instantiate `Fifo` with the slots
between head and tail, or the chain from the root, as the queue; every step maps to a step of
`Fifo` or a stutter (`RingIsFifo`, `LinkedQueueIsFifo`).

**Pipelines.** Stage 0 makes values and every channel is a rendezvous of neighbours (`Hand`). `Or`
is a tree of calls, each a goroutine that sees one of its channels closed.

**GeePeers.** The ring has a hash function of its user; `Sorted` is `sort.Ints`, said by counting.
A path is escaped and split as the code does it, character by character, because what a name turns
into is the property.

**Exporter.** A scrape starts a goroutine per collector, which sends its metrics and its outcome
and calls `wg.Done`; the registry closes the channel when `Collect` has returned.

## 3. Runs

`CHECK_DEADLOCK FALSE` is set everywhere because every system here may come to rest: the
bounds on calls are reached, or the program has been stopped. Most properties are conjunctions
of named parts that belong together; each part has its own comment in its module.

| Run | Instance | Distinct states | Shows |
|---|---|---|---|
| `safety` | write-behind: 2 users, 2 clients, 2 `Stop` callers, queue 2, batch 2, 3 updates; 3 goroutines of 2 processes on a locked file; 2 instances of the pid file; 2 timers, `RunNoWait`, `fire` of capacity 1; symmetry | 706,366 | `AcceptedSafe`, `FlushesSafe`, `CacheMatchesDbWhenFlushed`: accepted updates are ordered, not lost before `Stop`, complete after it, and rows never go back. `LockedFileSafe`: a read returns the last successful write unless a call failed or crashed, the mutex excludes. `PidFileSafe`. `TimersConsistent`: one owner, none lost, never early, a one-shot once, `Stop` cancels |
| `goroutines` | write-behind over a failing database, 3 updates; the same without a bound on updates, 2 clients, 2 `Stop` callers; singleflight with 2 keys, 3 callers, 3 calls; pipelines of 3 values and 3 stages, `Or` of 6 channels | 16,766 | `ImplementsDepth`, `StopReturns`, `AcceptedEventuallyFlushed`, `FlightsShared`, `DoReturns`, `PipelineResults`, `PipelinesEnd` |
| `uv_io` | a listener, a socket that also sends, a poll, or a hook and posts without end, 2 items, channels of 1; or 1 timer, delays up to 2, `Run` and `RunNoWait` | 186,968 | `TornDown`, `PollTold`, `LoopReturns`; the timer is called back, and again after every repeat (`TimerIsCalledBack`), until `Run` returns (`RunReturns`) |
| `udp_sessions` | 1 address, 2 sessions, 2 datagrams, 2 `Shutdown` callers, an `Accept` that may cease | 209,888 | `SessionsSafe`: open sessions are lossless, nothing is sent on the closed channel, the loop never waits for a handler; `SessionReclaimed`, `ShutdownReturns` |
| `net_proxy` | 5 load balancers, 4 transport configurations, 2 requests on a connection, 9 entry points, chains of 3 proxies, 2 scrapes | 117,163 | `CutOnlyAfterHalfClose`, `NoConnLeft`, `ServeTCPReturns`; `TransportsCurrent`; `RequestsForwarded`; `EntryPointRight`; `ScrapesReported` |
| `grpc` | 2 agents for one prefix, 2 requests; 7 order servers with 3 orders, scripts of 2 and 3 ids, a second call, streams of 3 updates and batches of 1; 4 product servers, 2 calls, 2 ids | 297,358 | `TunnelCorrect`, `EveryRequestAnswered`; `ShippedOnce`, `CallsExplained`, `ClientEnds`; `ProductsSafe` |
| `libs` | strategies: 1 user, 1 log, 2 clients, 3 versions; LRU: 3 keys, 2 clients, limit 4; bytes: lengths 3, 20, 127, 7 pushes; rings up to 5 slots; 4 nodes; 3 hash nodes, 2 replicas; 5 names | 170,182 | `CachesAgree`, `LRUCorrect`, `QueueCorrect`, `ContainersCorrect`, `PeersCorrect`, `CacheLoopsEnd` |
| `wb_drain_guarantee` | 1 client, 1 `Stop` caller, 3 updates | | violated, see 4 |
| `uv_two_timers` | 2 one-shot timers | | violated, see 4 |
| `uv_post_next` | posts and a hook | | violated, see 4 |
| `udp_stale_close` | 1 address, 2 sessions | | violated, see 4 |
| `lf_rollback` | 2 goroutines | | violated, see 4 |

Why the bounds are enough for the cases that matter:

* Write-behind: three updates over a queue and a batch of two overflow the queue while the worker
  has none of them, or fill the batch and leave one for the drain loop; two clients reach cache
  and queue in opposite orders; the second `Stop` arrives before, during and after the first.
* Bytes queue: 127 is the first length whose header takes two bytes, and such an entry does
  not fit the initial array, so the queue grows, grows while wrapped, wraps, and reaches
  its maximum.
* Timers: with a channel of capacity one the scheduler blocks on the second due timer; the
  violation needs two timers, because the ping of one is used up while the scheduler is
  armed for the other. Delays of 0, 1 and 2 give due, next and later deadlines.
* Sockets and polls: one item in the channel and one in the goroutine's hands fill everything
  there is; two file states and errors of both signs give every case of the dispatch. Posts are not
  bounded, only the queue is.
* LRU: two entries of length 1 + 2 exceed the limit of 4, entries with an empty value
  do not; replacing an empty value by a longer one exceeds it without eviction.
* Singleflight: the third caller arrives while the first is between `wg.Done` and the
  deletion and the second still waits; the third call starts afresh after one that was shared.
* Strategies: a race needs two calls, a fill and the write that overtakes it.
* Pid file: two instances overlap in every step of `CreatePidFile` and `RemovePidFile`, and three
  files let one recreate what the other has removed.
* `Stop` without data: a queue and a batch of two are filled and emptied in every way while two
  clients go on for ever.
* UDP: sessions of different addresses share nothing but the loop and the lock, and a
  client that returns while its old session is being closed needs one address and two
  sessions; the theorems have no bound.
* TCP proxy: one chunk each way is sent before or after the other side's half-close, and copied
  or still under way when it comes.
* Entry points: a chain of three has a client, a proxy inside the trust and one outside.
* Tunnel: two agents compete for a prefix, and two requests make overlapping sends and late
  answers.
* Orders: with a batch size of one, three ids make a first batch and a longer one, for one or two
  destinations, with nothing left at the end; two ids leave a rest. One unary call is beside the stream:
  what two of them can do to each other, they can only do through the map, and either meets the stream there.
* Locked file: two goroutines of a process contend for the mutex's inner lock and the third, of
  another process, for the file's; contents of two lengths make `Transform` grow and shrink.
* Ring: sizes up to 5 are grown from 2 and from 3, wrapped and not.

### Fairness

Fairness is assumed only where Go's scheduler, a ticker or `select` gives it. In the composed
runs no fair action is enabled in the initial state a part keeps when it is not chosen, so the
fairness of the other parts asks for nothing.

* `WriteBehind`: weak for the worker and for a waiting `Stop`; strong for each case of the
  worker's `select`, which chooses at random among the ready cases, so that a case that is
  ready again and again is taken. The ticker keeps firing. Nothing is assumed of clients.
* `WriteBehindDepth`: weak for the worker and for a `Stop` under way, strong for the done case of
  the worker's `select`. Nothing is assumed of clients, who are not bounded: `StopReturns` excepts
  the behaviours in which updates are queued while the worker drains again and again.
* `UvTimers`: weak for time, pings under way, the scheduler, the loop, and the second half
  of a `RequestStop` that has begun; strong for the scheduler's choice of a done context, the loop's
  of a due timer, and the end of callbacks (a callback returns, however many API calls it makes). No
  socket event is promised. `uv_two_timers` assumes that no case of a select is passed over at all, and
  is violated nevertheless.
* `UvIO`: weak for the loop, for each goroutine, and for calls of the API that have begun,
  `UDP.Close` included. No connection, datagram or change of a file is promised, nor that anybody
  stops posting.
* `GeeCache`: weak for the goroutine inside `Add`. `SingleFlight`: weak for every caller's
  steps, `fn` returning included.
* `CacheStrategies`: strong for the stop case of the cleanup's select, weak for the return
  of `StopCleanup`.
* `UDPProxy`: weak for each goroutine; strong for the steps that take `l.mu`, because a Go mutex
  starves nobody. `Accept` is not promised: the properties say what follows when nobody accepts. A
  read of the backend is sure to end only when the backend is closed, and a session's deadline is
  sure to pass only when no handler uses the session any more. Nothing is assumed of clients, and
  of `Shutdown` only that a call that has begun goes on.
* `TCPProxy`: weak for `ServeTCP`, for each copy (a write to a peer ends) and for an armed
  deadline. Nothing is assumed of the peers.
* `Tunnel`: weak for `OpenTunnel` and `ServeHTTP`, whose timeout is one of its cases; agents
  may never answer. That a request's body ends and that its answer is read is not assumed. A `Send`
  ends: the agent's `recvLoop` reads, or the keepalive breaks the stream.
* `OrderServices`: weak for the server's and the client's goroutines and the client's deadline.
* `Pipelines`: weak for stages and consumer, as long as it receives; strong for a stage's
  choice of `done`. `Exporter`: weak for collectors and for `Collect`.

## 4. What the checks found

Five runs show that the code does not do what one of its comments says. They are expected
to be violated.

* **`DrainGuarantee`** (`wirtebehind.go:146`). The comment at line 109 promises that the
  cached data is written to the database at shutdown. After `Stop` has cancelled the
  context the worker may still be about to flush a batch, or its select may take the queue
  or the ticker case; that flush runs under the cancelled context, fails, and the batch is
  discarded. `LostOnlyByCancelledFlush`, checked and proved, says this is the only loss.
* **`TimerIsCalledBack`** with two timers (`uvgo/loop.go:251`). A ping that arrives while the
  scheduler is armed makes it disarm and wait for yet another ping, so that an active timer
  may never be called back. With one timer the property holds (`uv_io`).
* **`PostIsForNextIteration`** (`uvgo/eventloop.go:186`). The comment at line 86 says that `Post`
  schedules a function for the next iteration. The pending phase receives from the queue until it is
  empty, so that what a running function posts runs in the same phase. While functions keep posting,
  the loop comes to neither its sockets nor its context, and `Run` does not return although
  `RequestStop` has cancelled it (`loop_meta.go:42`).
* **`OpenSessionRegistered`** (`net/proxy/udp_conn.go:235`). `Close` deletes whatever session
  is registered under its address. A session is closed by its handler and again by its own
  `readLoop` at its deadline; if the client came back in between, its new, open session is
  unregistered.
* **`FailureRollsBack`** (`linux/lockedfile/lockedfile.go:163`). The comment at line 160 promises a
  best effort to roll back in case of failure. The deferred function looks at the `err` of
  `Transform`'s own scope; the writes that fail set an `err` of an inner scope, so nothing is
  rolled back.

Where the code does less than a comment suggests, but consistently, the property states
what it does:

* `bytes_queue.go:26` and `:214` call the queue FIFO; growing while wrapped puts newer
  entries first. `FifoUntilRegrown` is the exact condition.
* The comment on the eviction loop (`lru.go:50`) speaks of every `Add`; replacing a value
  skips the loop. `OverLimitOnlyByReplacing`.
* `getConn` sends on the accept channel under `l.mu` (`udp_conn.go:169`). If nobody accepts any more,
  a `Shutdown` just called, and every session's `Close`, wait for that lock for ever, which
  `ShutdownReturns` and `SessionReclaimed` except (`NobodyAccepts`), and nothing else.
* `Stop` of the write-behind strategy waits for as long as clients keep the queue from becoming empty
  (`wirtebehind.go:110`), which `StopReturns` excepts.
* `EveryRequestAnswered` excepts a request whose client does not send its body or does not read its
  answer: neither is under the 35 seconds of the select (`server.go:116`), and the server has no
  timeouts (`:273`).
* `AddedProductKept`: `sendmessage` stores under the id its client chose (`server.go:34`), and its client
  always chooses 1, so that a second `AddProduct` replaces a product that was acknowledged; and two
  first calls may each make the map. The property says that nothing else loses a product.
* `AddOrder` of the servers with a deadline answers a call that was cancelled as if it were not
  (`gRPC/cancellation/server.go:44`).
* `CacheMatchesDbWhenFlushed` excludes users that two clients update (cache write and queue
  send are not atomic) and updates that a full queue turned away after the cache had been
  written.
* The pid file's lock is to prevent a second instance (`pidfile.go:12`), but it is released when
  `CreatePidFile` returns, and the file is truncated before the lock is tried. `PidFileSafe` says
  what is left: the record is whole and the instance's own as long as no other instance has
  started or stopped meanwhile, and, of calls that did not overlap, the last one's.
* A socket that `ListenTCP` or `ListenUDP` adds after `Stop` has taken the list is closed by
  nobody, and the loop may wait for its goroutine for ever (`tcp.go:31`). `TornDown` and
  `LoopReturns` except behaviours with such a socket, and `LoopReturns` the loop whose functions go on posting.
* `RunMode` may return while a `Stop` or a `UDP.Close` it has overtaken still has a socket to close
  (`udp.go:152`). `TornDown` says that only such a call may be left; `LoopReturns`, that it closes it.
* `PollTold`: a file that comes back as it was after an error is not told of, nor an error with
  errno 1 after a success.
* `TransportsCurrent` holds for the configurations the caller has not changed in place between
  calls of `Update` (`http_transport.go:114`).
* `StickyKept`: only two requests at once on one connection can replace its round tripper.
* `CrashIsExplained`: the order servers die of a race on the map, or, in those that ignore
  `Recv`'s error, of a nil order.
* `AskedIsServed` excludes a space, which arrives as a plus, and a slash in a group's name.

## 5. Proofs

69 theorems and 383 lemmas in eight modules. Every property the passing runs check that is not about
liveness is stated by a theorem (twenty-six of them), and so is the safety part of `ScrapesReported`. A
theorem has no bound: the numbers of clients, timers, sessions, requests, files, users and keys are
arbitrary sets, and `MaxUpdates`, `MaxPushes`, `TPMaxChunks` and so on arbitrary natural numbers.

The only assumptions are the named `ASSUME`s of the modules, which TLC evaluates on the instances:

* sizes, capacities and bounds are natural numbers; `QueueSize`, `BatchSize`, `RINGBUFFER_MIN` are
  positive (the code applies defaults or has a constant); entry lengths fit the five-byte header;
* `Nil`, `Failed` and similar marks are none of the values they stand beside, and users and logs have
  different keys;
* a pid record is not empty; contents are sequences of bytes; the round tripper built from a
  configuration is not the mark for none, nor is a connection;
* there are finitely many collectors, none of whose fields is called like the two metrics `execute`
  adds; the sample orders are a map from order ids, and the id that validation refuses is one of them;
  a client that sends ids sends at least one;
* the values of a pipeline are positive, it has a stage, and `Or` two channels; the configurations of an
  entry point are ones that can be decoded, addresses are bits of their family, a header the client
  brings along is not empty, and a duration has at least one bit;
* the segments of paths are strings, and a request whose URI does not parse says so; hashes are natural
  numbers, the ring has at least one replica of a node, and a name consists of characters, none of which
  is the escape of another.

The argument is the same everywhere: an inductive invariant stronger than the property, one lemma per
action (or group of actions that disturb the same conjuncts), and the property as a consequence. What
the invariant adds is what the code relies on without saying so:

* **ChannelProofs** (`WriteBehind`): `AcceptedUpdatesSafe`, `FlushesAreSafe`,
  `CacheAgreesWhenFlushed`. `TypeOK` alone is not inductive: an append is safe only where the batch has
  room, which is `BatchHasRoom`. `StopInv` ties the stages of `Stop` to those of the worker.
  `RowsBehindQueue` relates the rows to the updates still pending; with the FIFO order it gives
  `NoRegression`, the double write included. For the cache, `WritersCounted` says that the only writer of
  a user holds what the cache holds, and `CacheOnItsWay` where that value is: turned away, in a client's
  hands, the user's last among queue and batch, or in the row when nothing of the user waits.
  `StrategyImplementsDepth` maps every step of the strategy to one of `WriteBehindDepth` or a stutter.
  `PipelinesAreRight` (`Pipelines`), from `PLInv`: a count per stage says how many values it has taken,
  one more than the next stage if it holds one, and that one is what the stages up to it make of the
  value of that number (`InFlight`). `StageByStage` shows that the recursion over the stages has a solution.
* **ContainerProofs** (`BytesQueue`, `RingBuffer`, `LinkedLists`, `Containers`): `QueueIsCorrect`,
  whose invariant `RingInv` describes the layout of the blocks between the margins, wrapped or
  not, with one lemma per outcome of `Push`. `RingImplementsFifo` is the refinement of `Fifo`,
  proved by step simulation: the abstract queue is `Contents`, the slots from the head on
  (`View`), and every operation maps to one of `Fifo` or to a stutter. It needs `RBInv`: head and
  tail lie in the slice, and exactly the slots between them hold a value (`OnlyLive`), which is
  also what `RingIteratesInOrder` is about. `LinkedQueueImplementsFifo` is the same for the linked
  queue: `LinkInv` says that some chain of nodes leads from the root, and that a pointer leads to
  an older node (`OlderNext`), so that the loop along the pointers ends and meets the chain; the
  abstract queue is that chain read backwards. For the list, `ListShape` has the links of both
  directions. `ContainersAreCorrect` puts the two together.
* **CacheProofs** (`SingleFlight`, `CacheStrategies`, `GeeCache`, `GeePeers`): `SharedFlights`,
  from an invariant that relates the map to the callers: a call under way has exactly one leader,
  the leader of a registered call has not returned, and a call that is done carries its result.
  `CachesInAgreement`, from one that says of every call that holds a row what that row is relative
  to the database, unless the key was raced. `LRUIsCorrect`, from `GCInv`: the list has the keys
  of the map, each once, and of two entries the first was used later (`ListInv`), so that the last
  is the one to evict; the byte count follows from lemmas on the sum of a list to which an entry
  is added, moved, replaced or taken away (`SumPush` to `SumReplace`). `PeersAgree`, from `GPInv`:
  the ring is in order and has the hashes the map knows (`RingInv`; `SortedIs` says what `Sorted`
  returns), and a key's node is that of the hash that follows its own (`Follows`), which only a
  new hash can change; a path on its way is that of the group and the key (`CallInv`), and is
  split where they were joined (`PathIs`, `SplitIs`).
* **UDPProxyProofs** (`UDPListener`, `UDPProxy`): `SessionsAreSafe`. The invariant adds that no session
  is accepted from `Shutdown` on, that a session's `readLoop` ends only after the session is done, and
  that it runs whenever the session can be found. It mentions no variable of the handlers: it needs to
  know of them only which calls they make on a session.
* **NetProxyProofs** (`TCPProxy`, `HTTPTransport`, `HTTPProxy`, `Exporter`, `EntryPoint`):
  `NoEarlyCut` and `ConnectionsClosed`, from `TPInv`: where `ServeTCP` is tells how many copies
  have reported (`CopiesCounted`), which connections are open (`ConnsHeld`) and which deadlines
  can be armed (`CausesKnown`). `TransportsAreCurrent`, from `TMInv`: what `Update` has derived is
  right for every name the caller has not changed behind its back. `StickyIsKept`, from `HPInv`:
  two requests under way on a connection have been recorded (`OverlapSeen`), and one that saw no
  sticky round tripper and was alone still finds none (`StillNone`). `ScrapesAreComplete`, from
  `EXInv`: the wait group counts the goroutines that are not done (`WgCounts`), and what has been
  sent follows from how far each is (`SentSoFar`). `RequestsAreForwarded` adds `RewritesAgree`:
  unescaping goes through a concatenation (`UnescapeConcat`), and the joint of two paths has one
  slash (`JoinIs`, `JointIs`); the theorem showed that a slash can be doubled behind an escaped
  one of either path, which the instance does not have and the property now says.
  `EntryPointIsRight`: `CheckerIsRight` says when a checker trusts an address, whatever form
  either was written in; the rest follows from `ChainInv`, behind n proxies the header ends with
  the client and the first n - 1 of them, and from the listener being what its configuration says
  (`ListenerInv`), from which it follows as well that a restart keeps the policy, because a
  duration survives being marshalled and read (`DurationRoundTrip`), wrapped around or not.
* **OsProofs** (`PidFile`, `LockedFile`): `PidFileIsSafe`, from `PFInv`: a lock is held by a call
  that is about to write or to return (`LockHeld`), a file that is not shared is created by one
  call at a time and is as that call left it (`Alone`), likewise for instances nobody disturbs
  (`Undisturbed`, `LastKept`). `LockedFileIsSafe`, from `LFInv`: the lock follows from the place
  in the call (`WellPlaced`), `flock` excludes (`Compatible`), how much of the new contents is in
  the file follows from how far the writer is (`Progress`), and without a failure the file is good
  whenever it is not locked for writing (`FromGood`, `GoodWhenFree`). It rests on lemmas about
  `WriteAt` and truncation, one for each of the three writes of `Transform`.
* **GrpcProofs** (`ProductServices`, `Tunnel`, `OrderServices`): `ProductsAreSafe`, from `PSInv`:
  no handler runs before the interceptor let the call through (`LetThrough`), `AddProduct` has
  made the map when it writes it (`MapMade`), what is stored under an id was added for it
  (`StoredUnderItsId`), and an id that was given back has a product (`IdHasProduct`).
  `TunnelIsCorrect`, from `TNInv`: whatever travels on a stream, in either direction, is for a
  request that was routed to that stream (`OnItsStream`, `InItsChannel`), and a request is routed
  once (`Routed`). `CallsAreExplained`, from `OSInv`: the sample data is there until a handler
  writes (`NotYetDone`), and only some calls and servers can come to some ends (`CallCauses`).
  `OrdersShipOnce`, from `ShipInv`, which adds that a destination has one shipment, and that
  `batchMarker` bounds what is filed at the moments the code looks at it, although it starts at 1
  and later at 0. `OneMore` says what appending an order to a shipment does to the numbers of all
  of them.
* **UvProofs** (`UvTimers`, `UvIO`): `TimersAreConsistent`, from `UTInv`: list, scheduler, channel
  and dispatcher share no handle (`Distinct`), an active handle is with one of them (`Somewhere`),
  a handle past the list has no time left (`TimeOver`), and one whose last callback has begun is
  nowhere on its way (`OnceOnly`, `LateOnce`). `TeardownIsComplete` rests on `SocketsAreOwned`,
  every open socket has somebody who will close it, be it a `UDP.Close` between taking it away and
  closing it, and `ItemsAreKept`; `PollIsTold` on `JobKept` and `ToldKept`, which relate what the
  callback was told to `busy` and `prev`.

Only model-checked, and why:

* All liveness properties (`StopReturns`, `AcceptedEventuallyFlushed`, `DoReturns`, `PipelinesEnd`,
  `TimerIsCalledBack`, `RunReturns`, `LoopReturns`, `SessionReclaimed`, `ShutdownReturns`,
  `ServeTCPReturns`, `ClientEnds`, `EveryRequestAnswered`, `CacheLoopsEnd`, and the part of `ScrapesReported`
  that says a scrape ends): liveness under fairness is out of the prover's reach.
* The five violated properties, of course.

Where a proof needs induction over data (the stages of a pipeline, a list and the sum of its bytes, a
chain of pointers), it takes the least counterexample instead, which natural numbers have because their
order is well-founded (`LeastNumber`); where a definition is recursive, a lemma shows first that the
recursion has a solution.

## 6. Plan

Every safety property has its theorem. What could follow:

* a loop that has timers and sockets at once, which composes `UvTimers` and `UvIO`;
* a group that asks its peers, once `HTTPPool` can be used;
* for the liveness properties, the safety part of their argument: that in every state in which the
  promised has not happened yet, one of the fair actions could be taken or time could pass.
