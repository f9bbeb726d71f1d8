# A verification of the distributed cache system

The system is a small distributed key-value cache in C++. One **master** tells
clients which **cache server** holds a key, watches the servers' heartbeats and
replaces or retires them; a **client** asks the master, remembers the answer,
and talks to the cache server. This directory holds TLA+ models of its parts,
TLC configurations, and TLAPS proofs. Paths below are relative to the
repository.

## Inventory

| Part | State | Operations | Talks to |
|---|---|---|---|
| Hash ring, `master/mastertry/ConsistentHash.cpp` (identical copy in `cache/src`) | `nodes`, `key2Index` (hash point → index) | `initialize`, `addNode`, `deleteNode`, `GetServer` | called by the master and by a dying cache server |
| Master, `master/mastertry/master.cpp` | `fd_node` (primaries by ring index), `caches_list` (descriptor → role, address, partner), stacks `pcache`, `rcache`, time stamps `cacheAddrMap`, the ring | accept, first and later heartbeats, detection of silent servers with failover or removal, shrink on `s`, client lookup | servers: heartbeat and its answer, broadcasts `N` `K` `C` `D`; clients: key → address. Four threads, no lock |
| Cache server, `cache/src/cache.cpp` | role `status_`, `cache_list`, `dying_cache_IP_`, keys | heartbeat timer with `initial` and `ReadFromMaster`; `cache_pass` (hand keys over, or receive them); `Client_chat` | master, other servers, clients. Three threads, shared fields with no lock |
| LRU cache, `cache/src/LRU_cache.hpp` | doubly linked list, map, size | `get`, `put`, `check`, `all_key` | called by the client task and by both ends of a hand-over |
| Client connections of a cache server, `Client_chat` in `cache/src/cache.cpp` | epoll set, one request buffer, one reply string, `kv_to_replica` | accept, receive, hand the request to the pool, reply | clients; the thread pool; the LRU cache, which migrations use at the same time |
| Thread pool, `cache/src/threadPool.hpp` | task queue, condition variable, count of active threads | `enqueue`, the workers' loop | `Client_chat` |
| Timers, `Client/src/timer.cpp` (same code in `cache/src/Timer.cpp`) | per timer: time left, running, periodic | `start`, `reset`, `stop`, the handler of SIGALRM with its callbacks | client, heartbeat |
| Client, `Client/src/client.cpp` | `request_map_` (server → unanswered keys), a timer per server and one for the master, `local_lru_`, `cache_sever_addr_` | the child's key, the master's answer, a server's answer, resend, give a server up | master, servers; the resend runs in a signal handler on the same thread |
| Client's local cache, `Client/include/lru.hpp` | `std::list` of pairs, map key → iterator | `put`, `get`, `erase` | the client's main loop |
| Log of the client, `Client/src/easylogging++.cc` (third party) | the registry of settings, typed settings per level, shared file streams, one string stream per logger, `m_data` | read `log.conf`, configure, `LOG`, flush, roll | the client's main loop, its signal handler and its child process |
| Replication to the backup, `primary_cache`, `replica_cache` | `kv_to_replica` slot | send, apply | not started at this commit (`cache.cpp:30,35`) |

What is hard here: the master's threads interleave over shared tables;
descriptors are closed, reused and still referred to; a server may die, be
suspected while alive, or restart at any moment; a shrink takes seconds during
which anything else may happen; servers see the master's broadcasts with delay;
a dying server computes key owners from a ring of its own, which has to equal
the master's; both caches keep two data structures in step; the client's
timers interrupt its main loop anywhere and share its variables; all replies of
a server pass through one string; and the client logs from a signal handler and
from a forked child through a library built without locks. What has to
hold: routing stays inside the vector and finds a registered primary; keys move
for a good reason only; partners name each other; silent primaries leave;
servers agree with the master on list and ring; a shrink hands all keys over
and ends; the caches implement what they are called; no key of a client is
forgotten; a reply is the client's own and true; the log has what was logged.

`PROJECT.json` lists the hazards line by line, with the properties that cover
each.

## Modules

| Module | Models |
|---|---|
| `ConsistentHash` | The ring. The hash function is the constant `Point`; `RingSpec` drives the ring alone. |
| `ConsistentHashProofs` | Theorems about it. |
| `Master` | The master over `ConsistentHash`: environment actions (`Expire`, `Down`), `start_cache` (`Accept`, `RegisterPrimary`, `RegisterReplica`, `HeartbeatAgain`, `HeartbeatFault`, `Stamp`), the detector (`DetectReplica`, `DetectPromote`, `DetectLost`, `DetectUnregistered`, `DetectErase`), the shrink (`ShrinkBegin`, `ShrinkEnd`), `ClientRequest`. |
| `MasterProofs` | Theorems about it: types, routing and ring; pairs, stacks and rerouting. |
| `CacheServer` | Several servers with their queues of broadcasts, over `ConsistentHash`; the master reduced to membership, ring and what it sends. The heartbeat timer is `Initial`, `ReadNew`, `ReadPrimary`, `ReadChange`, `ReadDelete`, `ReadKill`, `KillEnd`, `EraseFails`, `Ignore`; `cache_pass` is `PassListen` and `PassReceive` at a receiver, `PassPlan`, `PassSend`, `PassRefused`, `PassExit` at the dying server. `Listens` says whether a port is open, `conn` what has been sent over the connection that `accept()` will return. `store` has, for each key, the number of the put whose value is there; `Put` lets a full cache drop another key. |
| `CacheServerProofs` | Theorems about it: types and what is still to be sent, lists, targets, keys. |
| `Lists` | `Dropped`: the erasure of an element of a list where it stands. |
| `LRU`, `LRUCache` | What a least-recently-used cache promises, and the pointer-level code that implements it. |
| `LossyMap`, `ClientLRU` | What a client may rely on from its local cache, and the code with list nodes and iterators that implements it. |
| `LRUCacheProofs`, `ClientLRUProofs` | Theorems about the two caches, refinements included. |
| `ThreadPool` | The pool: `Enqueue`, `Sleep`, `WakeUp`, `Take`, `after_task_hook`, each one critical section. |
| `ClientChat` | `Client_chat` over `ThreadPool` and the abstract `LRU`: `epoll_wait`, `Accept`, `Recv`, `SendReply` on its thread; `LRU_handle_task` (with `check()`), `ReadGet` (`get()` up to its unlock) and `ReadValue` (the value read after it) on a worker; `MigrateIn`, `MigrateOut` on the thread of `cache_pass`; clients that connect, send, leave. Sockets are edge-triggered as in the code. |
| `Timer` | A timer, and what the signal handler does to it: `Counted`, `Due`, `Settled`. |
| `Client` | The client over `Timer` and the abstract `LossyMap`: `dealwith_child`, `dealwith_master`, `dealwith_cache_server` and `StopTimer`, the check of the request map (`GiveUp`, `CheckEnd`), `send_request_to_cache_server` (`SendBegin` books the key and stores the host, `SendPort` the port, `SendEnd` connects to what is there by then and arms the timer), and `Tick`, the whole handler of SIGALRM. Ends of connections are `ServerEof` and `MasterEof`. |
| `ClientProofs`, `ClientChatProofs` | Theorems about the client and about a server's connections. |
| `SequenceLemmas` | Lemmas about sequences that the proofs share: elements and places after an append, an erasure, a move to the front; a set of naturals has a least element. |
| `LogFormat` | How a format is read and a line is built: specifiers, escapes, and what is replaced when. |
| `LogConfig` | The registry of settings and its copies; the typed settings it is compiled into. |
| `Logging` | The log over `LogConfig`: `ParseLine`, `ParseEnd`, `reconfigureLogger`, `reconfigureAllLoggers`, `Fork`; a `LOG` of the main program in steps (`Log`, `CopyText`, `HandleData`, `WriteLine`, `FlushLine`, `RollFile`, `ClearText`); the handler's `LOG` as one step between any two of them; `ChildExits`. A line waits in the stream's buffer until it is flushed or the buffer spills (`Writes`). |
| `MC*` | TLC instances. |

**How the code's steps become actions.** An action is the part of a thread's loop
that other threads see as one. It is split where the code leaves a long or decisive
gap: a registration and its time stamp (`master.cpp:238` and `335`), the detector's
`close` and its `erase` (`594`, `602`), the two ends of a shrink, the two halves of
the handling of `K` (`cache.cpp:432`, `436`), the unlock and the read in
`LRU_Cache::get`, `check()` and `get()` in a client's task, the two assignments of
`parse_str_addr` (`tools.cpp:56-57`) and the `connect()` that follows in the client
(`client.cpp:173`, `180`), the erasure of a request and the stop of its timer, the
parts of a `LOG`. A null pointer that the code follows, or a SIGPIPE, ends the
process (`Crash`, `Dies`). Undefined behaviour is a choice of outcomes: a read past
`fd_node` survives or crashes; `vector::erase(end())` drops the last element or
crashes; the lambda without a return value in the handling of `C` throws or does
nothing; `m_data` that points into a frame that is gone yields any level or ends the
client; reading the parts of an empty answer ends it; a value that is read while it
is assigned, or after its node has been freed, may be anything. Where the C++
standard leaves a choice that the C library makes, the library's is taken: `fopen`
for appending puts the position at the end of the file, so that `tellg()` is its
length there.

Two steps of a hand-over are wider than the code's: `connect()`, `get()` and
`send()` of one key are one step of the sender, `accept()`, `recv()` and `put()`
one of the receiver. A dying server does nothing else between, and a sender that
dies between `connect()` and `send()` is left out. Whether a connection finds its
receiver listening is open: a live one that has not yet read `K`, or not yet come
back to `accept()`, refuses, and the sender exits (`cache.cpp:897-899`). The four
seconds that the sender sleeps make this rarer and are not relied on.

**History variables.** `aliased`, `revived`, `overlap` (Master), `replaced`,
`disturbed`, `newest`, `late`, `early`, `orphaned`, `evicted`, `unsent`
(CacheServer), `since`, `latest` (the caches), `asked`, `astray`, `gaveUp` (Client),
`seen`, `spoilt` (ClientChat), `lines`, `done`, `rolled`, `strayed`, `parted`
(Logging) record what has happened; the steps they let through or hold back are the
same, except that `spoilt` also says when a read may yield anything. They record
that one of the code's races has happened, so that a property can say exactly up to
which race it holds.

## Runs

| Run | Shows | Bounds |
|---|---|---|
| `ring` | `HistoryIndependent`, `IndexInRange`, `LookupIsClockwise`, `MinimalDisruption` | up to 100 primaries with two virtual nodes each, points of neighbours interleaved |
| `master_safety` | routing in range, ring complete, routed primaries known, pairs mutual, lone primaries queued once, keys rerouted only for listed reasons | two primaries and a backup on three descriptors, three connections in any order (restarts and reuse of descriptors included), one shrink; descriptors and primaries symmetric |
| `master_liveness` | a silent primary leaves the ring | the same on two descriptors, no symmetry |
| `shrink_join` | **violated**: a shrink removes a primary that joined meanwhile | |
| `lru` | `LRUCache` implements `LRU`; list and map agree; how long the late read of `get` is safe | capacity two, three keys, two values, four addresses, two threads |
| `client_lru` | `ClientLRU` implements `LossyMap`; no dangling iterator; growth bounded by the erasures | room for two, three keys, three erasures |
| `servers` | servers' lists follow the master's, an address to erase is there, keys go to the owner the master will name; a shrink keeps every key with its newest value, except those not sent, put at the wrong moment, or put before a primary was lost | three primaries, one failure, two shrinks, two keys that are put twice, so that a dying server has a choice of targets and one that has received keys is retired next |
| `servers_liveness` | a shrink ends unless the dying server is the last one or sits in `accept()` since before it knew; keys are lost to refused, further and broken connections and full caches only | two primaries, a backup, one failure, two shrinks, three keys with room for two in each cache, so that a receiver has to listen twice and may be full |
| `shrink_hangs` | **violated**: a dying server blocks in `accept()` and the shrink never ends | two primaries that do not fail |
| `client` | no key forgotten; resends are of booked requests; servers are given up for unanswered requests only; every answer finds its timer, except from a server at the crossing of two addresses | two keys, two primaries (both symmetric), a backup at each crossing of their addresses, two open connections; `LOST_MAX_NUM` 1, so that a server is given up with two keys, and `WAITING_TIME` 1, so that every running timer may fire at any tick |
| `front` | a client gets its own reply, true of a moment since the request, and gets it | two connections that are used again and again, two workers, room for one of two keys so that every migration evicts, one key asked for |
| `logging` | every level works with what the file said last for it; no message lost outside the named races; lines beyond a limit are ones no check has followed | files of four lines out of eight, two levels, two formats (one with every case of the escape), three `LOG` statements, files that start below their limit of two lines or at it |

The bounds are enough for every action and every disjunct to fire and for each
race the history variables name to happen. Three connections are what the races
over a reused descriptor take: two servers and one that comes back or replaces
one. Three primaries are what it takes for a dying server to have a choice of
targets. Two keys on one server with a limit of one are what a give-up takes;
two connections that arrive in one event are what leaves one in the backlog.
Three keys and room for two are what it takes for a server to have two keys to
send and for its receiver to be full.
`CHECK_DEADLOCK FALSE` is set where the system may come to rest: a dead master,
servers that have nothing to do, a client that has crashed, a server ended by
SIGPIPE, a program that has executed all the `LOG` statements of the bound.

**Fairness.** `SilentPrimaryLeaves` assumes weak fairness of the detector only:
its loop is unconditional and waits for nobody but `sleep(1)`. `ShrinkEndsOrSticks`
and `ShrinkCompletes` assume weak fairness of each server's timer and of its
`cache_pass` thread, which the operating system schedules and which block only
in `accept()` (modelled), and of the loop in which the master waits. Nothing is
assumed there of servers joining, failing or clients calling. `RequestIsAnswered`
assumes weak fairness of the thread of `Client_chat` and of each worker, and that
some client can always go on (connect, send, close once answered): the code needs
it, because one connection is accepted per event of an edge-triggered socket, and
a second one that came with it waits for a third.

**What the two violations say.** `pop_back()` at the end of a shrink takes
whatever is last by then. On `K`, `dying_cache_IP_` is visible to `cache_pass`
before `status_` is.

**What the models show besides.** Each of these is excluded by name in a
property, or is an outcome in a model that no property forbids.

* `pcache` keeps primaries that have been removed (`master.cpp:306`, `558-595`):
  a new backup may be given to one that is gone, while 通信格式.md:25 says that
  it goes to one of the primaries without a backup.
* `erase()` of the client's cache leaves its pair in the list; evicting that pair
  later removes the live entry of the same key, so that a put may evict what it
  has just put (`Client/tests/lru_test.cpp:11-12` expects it to exist).
* A value that a dying server sends overwrites a newer one at its new owner
  (`early`).
* The loss of a primary without a backup shifts the indices behind it, so that
  keys are looked for elsewhere while their old values stay where they were. A
  server that is retired later sends such a value too, over a newer one
  (`orphaned`): three primaries, a key put on the third, the first lost, the key
  put again on what is now its owner, a shrink. The proof of `ShrinkKeepsKeys`
  brought this up; TLC then found it in another layout of the ring.
* A dying server whose connection is refused exits with the keys it has not sent,
  also when the receiver runs and is only late. A receiver listens with a backlog
  and accepts once: a further connection is made, written to and reset, and its
  key is lost (`unsent`). A full receiver drops a key for each that it gets
  (`evicted`).
* A server that is the only one left, told to die, never ends: its thread has
  returned and its heartbeats go on (`Stuck`).
* A resend between `parse_str_addr` and `connect()` sends the main loop's request
  to another server (`astray`). Its answer still finds a timer, and the key is
  still booked, for the server that was meant. A resend between the two
  assignments of `parse_str_addr` leaves the host of one server with the port of
  another; if a server listens there that the client has never asked, its answer
  makes `dealwith_cache_server` follow a null timer (`Crossed`). With all servers
  on one host, or all on one port, this cannot happen (`ClientOneHostIsSafe`).
* A give-up leaves the server's timer running, which resends to it once more.
  It takes more than `LOST_MAX_NUM` keys (`client.cpp:132`), where the comment at
  `client.h:41` says six.
* An event with nothing behind it (a reset, or data read by an earlier event)
  gives a request of no characters, which is answered `FAILED`; a reply to a
  client that has reset raises SIGPIPE and ends the server.
* A key that a migrating one evicts between `check()` and `get()` is answered
  `SUCCESS` with an empty value: true of that moment, but not told from a value.
  If it is evicted or put again between the unlock of `get()` and the reading of
  the value, the reply may be anything (`spoilt`).
* The log: without `ELPP_THREAD_SAFE` the library's locks are empty. A `LOG` of
  the signal handler puts the interrupted statement's text into its own line,
  clears it if its level is disabled or not written, and leaves `m_data`
  dangling. Rolling reopens a file without appending, so that parent and child
  overwrite each other afterwards. Levels set before `GLOBAL` in a file are lost
  in the copy to the logger, since the copy replays settings in the order of
  first registration. A name that cannot be opened for `GLOBAL` turns files off
  for levels that have a good one. A specifier that stands escaped only keeps
  both percent signs. A file that is too long at the start is
  rolled when it is configured, because glibc opens it with the position at the
  end; a buffer that is full spills before any check of the size; and the child's
  exit writes without one.

## Proofs

All for every value of the constants: any number of servers, descriptors, keys,
clients, workers and threads, any capacity, any hash function unless an
assumption is named. `PROJECT.json` lists the theorems; each one that names a
property states what a run checks on a small instance.

**Ring** (`ConsistentHashProofs`).
`RingTypeCorrect` and `RingIndexInRange`: every index in the ring is below
`nodes` and belongs to its point, collisions included.
`RingHistoryIndependent`: under `NoCollision` the ring equals `RingOf(nodes)`
after any joins and leaves; the two key lemmas (`AddNodeRing`, `DeleteNodeRing`)
say that `addNode` and `deleteNode` take `RingOf(n)` to `RingOf(n ± 1)`,
whatever index the leave names. `RingMinimalDisruption` follows, by
`OneMoreShard`: in a ring with one shard more, a key has its old owner or the new
shard. `RingLookupIsClockwise`: `GetServer` finds the first point at or after
the hash, or the first of all.

**Master.** `MasterTypeCorrect`, `MasterRoutingInRange`: `RoutingInRange` is not
inductive. Its strengthening `IInv` adds the type invariant and `Bounded`: each
index in the ring is 0 or below `nodes` *and owns its point*. The second half is
what a leave needs, since `deleteNode` erases by point name and would otherwise
leave the last index behind; the case of 0 is the point that a request to an
empty ring inserts. `MasterRingCovers` rests on `CoverInv`, which adds what else
may be in the ring: that stray point at 0. It assumes `NoCollision` and
`NoPointAtZero`: a point at 0 would be overwritten by a request to an empty ring.
Both hold of the code's hash for the first 200 shards with 100 virtual nodes
(computed outside TLA+), and `MCMaster` assumes them of its layout.

`MasterPairingIsMutual` and `MasterLonePrimariesWait` need to know about every
entry, erased partners and the detector's window included: `PairInv` says which
entries are linked, that a stack holds no descriptor twice, and that what stands
in it has no partner. `MasterRoutedAreKnown` needs `RouteInv`, which follows the
descriptor that a shrink or the detector is retiring through its two steps.
`MasterRoutingIsStable` is an action property, proved step by step from
`RouteInv` and the ring's lemmas.

**Cache servers** (`CacheServerProofs`). The invariant has four layers.
`BaseInv`, which holds whatever happens, has the types and what each process
has: nothing when it does not run, nothing to send unless it is dying. It gives
`ServersTypeCorrect`: the types, and `PlansOwnKeys`, that a dying server's list of
keys to send stays one of its own keys and of servers in its list, whatever
messages, puts and failures come while it sends.

`ViewsAgree` speaks of servers that have read all their messages and says nothing
of the others, so it is not inductive. What is: the messages still in a server's
queue, replayed on the list it has, give the ring (`Views`, with `Replays` a
sequence of lists that starts with the server's and ends with the ring's). A
broadcast adds a message at the end of the replay (`ReplayAppend`), a tick takes
one off its head (`ReplayHead`). With it go the shape of `fd_node` (`Listed`,
`Running`, `Retiring`, `Counted`) and that the `K` for a server itself is its last
message (`Told`, `Dying`). `ServersViewsAgree` and `ServersEraseFinds` follow: an
empty replay means equal lists, and a replay that begins with an erasure has the
address in the list.

`OwnerInv` adds that the master's ring is `RingOf` of its number of primaries, by
the ring's lemmas `AddNodeRing` and `DeleteNodeRing`; since the dying server's list
is the ring's, in order, the two rings name the same server
(`ServersSendsToOwner`).

`KeepInv` follows the values. Primaries join and are retired at the end of the
ring, so the servers that have a key were its owners one after the other:
`Placed` says that each of them would own the key if it were the last, and
`Stacked` that the later one has the newer value. `OwnerStays`, consistent hashing
itself, shows that nobody above the present owner has the key. A shrink may
therefore send what the last server has over what it finds (`Newer`), and
`Latest` says where the newest value is at each moment of the hand-over. A value
that has been sent and not yet put counts as the receiver's (`Has`), since the
sender may have exited and the receiver may be the next to be retired. All of this
is said of the keys that no exception names: not refused, lost or broken off
(`unsent`), not dropped by a full cache (`evicted`), not put at the wrong moment
(`late`, `early`), not put before a loss (`orphaned`). This is
`ServersShrinkKeepsKeys`. The last two theorems assume `NoCollision`; the last
three layers hold as long as no backup takes over and no shrink is disturbed.
TLC checked each layer as an invariant before it was proved.

**Client's local cache.** `CacheInv` of `ClientLRUProofs` counts: the length of
the list is the number of keys in the map plus that of the orphans that `erase`
left, and an orphan exists for an erasure only. From it
`ClientCacheIteratorsValid`, `ClientCacheGrowthIsBounded`,
`ClientCacheTypeCorrect`, and `ClientCacheImplementsLossyMap`, the refinement:
each operation is mapped to a step of `LossyMap` or to none.

**Cache server's LRU cache.** The list is described by the sequence `L` of its
nodes: `Chained` says that the pointers lead through `L` in both directions,
`Filed` that map and contents agree with it. `RemoveChain`, `AddChain` and
`MoveChain` show that the three primitives on pointers are operations on `L`,
and `KeysFronted`, `FiledAdd`, `FiledFront` that the keys of `L` then change as
the abstract order does. `WalkList` connects `L` with `At`, the walk that
`ListMatchesMap` and the refinement mapping are about; it is an induction, done
as "there is no first place where two walks part". For `CacheLateReadIsSafe` the
invariant has a `Window` per thread: until the keys used since the unlock outgrow
the capacity, only those keys stand before the one that is about to be read;
an eviction of that key would then take as many distinct keys as the cache has
room for, and one. `CacheImplementsLRU` is the refinement, step by step.

**Client.** `ClientInv` has, besides the types: which timers are armed and with
how much time (`Timed`), where each key is (`Places`), and that every open
connection goes to a server that has a timer or to a crossing of two that have,
also the one that the main loop is about to make from an address of which it has
stored the host and not the port (`Connecting`). `ClientNoKeyForgotten`,
`ClientResendIsPending`, `ClientEntryIsOutstanding` and `ClientAnswersFindTimer`
are parts of it; `ClientOneHostIsSafe` says when no crossing exists. The signal
handler is one action that may come between any two of the main loop's.

**Client connections.** `ChatReplyIsOwn` needs the whole protocol between
`Client_chat` and the pool. `ChatInv` says where the one request at hand is (`Job`:
in the queue, with exactly one worker, or answered and in `buffer`), that an
event of a client that is still there announces a request not yet received and
is reported once (`Announced`), which excludes the empty request for it, and
that there is a connection to accept for every event of the listening socket
(`Listening`). `ChatReplyIsCurrent` adds that the history holds what the cache
holds now (`Current`), between the unlock of `get()` and the reading of the value
too, as long as nobody has put or evicted that node (`spoilt`).

Least elements come from the library's well-founded induction
(`LessWellFounded`, `LeastProperties`, `LeastNatural`).

**Assumptions on constants**, besides the two about the hash: sentinels,
descriptors and the values that stand for "none" are distinct from what they are
told apart from; workers are finitely many; capacities are positive; keys and
values exist; a shard 0 and a virtual node exist, so that a ring of one server
has a point (the code has 100 virtual nodes).

**Only model-checked**: all liveness (`SilentPrimaryLeaves`,
`ShrinkEndsOrSticks`, `RequestIsAnswered`), which is beyond the provers used; all of
`Logging`, whose settings, files and lines are computed
by folds over sequences: what a fold computes for every input takes an induction
over data that the provers cannot do.

## Not modelled

Socket set-up, framing of messages in the TCP stream, printing; the replication
threads `primary_cache` and `replica_cache`, which are not started at this commit
(`kv_to_replica` is written and never read); `LRU_Cache::all`, `del`,
`set_capacity`, and of the timers `pause`, `setInterval`, `setPeriodic` (never
instantiated or called); the destructor of the thread pool (the pool lives as long
as the process); data races inside STL containers, whose outcomes have no bound; the
client's random strings (`split` and `parse_str_addr` are part of `Client`); a
sender that dies between `connect()` and `send()`; of the logging library, standard
output, hit counts, verbose modules, performance tracking, syslog, crash handling,
colours, the date format, and the abort on a fatal log, none of which the client
uses or a property tells apart; the hand-driven test programs.

In `Client`, requests for one key that wait at the master at the same time count
as one, and the master may name any primary. In `Logging`, a line has size one,
and the levels and settings of `MCLogging` stand for the library's.

## Plan

Done: ring, master, the two caches, the servers' views and the hand-over with
values, client connections and thread pool, the client with its timers, its log.
Proved: all safety properties of the ring, the master, the cache servers, both
caches, the client and the client connections, with both refinements. Left: the
safety of `Logging`, which waits for a way to prove what a fold computes, and
liveness.
