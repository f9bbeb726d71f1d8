-------------------------- MODULE ClientChatProofs --------------------------
(***************************************************************************)
(* Proofs about how a cache server answers its clients, for any keys,      *)
(* values, capacity, connections and workers: a reply is the one to the    *)
(* client's own request, and a read returns a value the key had since the  *)
(* request was received, unless its node changed while it was being read.  *)
(***************************************************************************)
EXTENDS ClientChat, SequenceLemmas

(***************************************************************************)
(* The cache.                                                              *)
(***************************************************************************)

\* The keys o of the cache, none twice, and their values v.
CacheOK(o, v) == o \in Seq(Key) /\ NoRepeat(o) /\ v \in [ToSet(o) -> Val]

\* A key that is used moves to the front, or comes in there.
LEMMA TouchedElements ==
    ASSUME NEW s \in Seq(Key), NoRepeat(s), NEW k \in Key
    PROVE  /\ Main!Touched(s, k) \in Seq(Key) /\ NoRepeat(Main!Touched(s, k))
           /\ Main!Touched(s, k) # <<>>
           /\ ToSet(Main!Touched(s, k)) = ToSet(s) \cup {k}
<1> DEFINE d == Dropped(s, k)
           t == <<k>> \o d
<1>1. d \in Seq(Key) /\ ToSet(d) = ToSet(s) \ {k} /\ NoRepeat(d)
  BY DroppedElements
<1>2. Main!Touched(s, k) = t
  BY DEF Main!Touched, Main!Dropped, Dropped, Main!RemoveAt, RemoveAt, Main!ToSet, ToSet
<1> HIDE DEF d
<1>3. /\ t \in Seq(Key) /\ t # <<>> /\ ToSet(t) = ToSet(d) \cup {k}
      /\ NoRepeat(d) /\ k \notin ToSet(d) => NoRepeat(t)
  BY <1>1, ConsElements
<1> HIDE DEF t
<1> QED
  BY <1>1, <1>2, <1>3

\* get()
LEMMA GetKeeps ==
    ASSUME CacheOK(order, value), NEW k \in ToSet(order), get(k)
    PROVE  /\ CacheOK(order', value') /\ ToSet(order') = ToSet(order) /\ value' = value
           /\ \A j : Cached(j)' = Cached(j)
<1>1. order \in Seq(Key) /\ NoRepeat(order) /\ value \in [ToSet(order) -> Val]
  BY DEF CacheOK
<1>2. k \in Key
  BY <1>1, Elements
<1>3. order' = Main!Touched(order, k) /\ value' = value
  BY DEF get
<1>4. order' \in Seq(Key) /\ NoRepeat(order') /\ ToSet(order') = ToSet(order)
  <2>1. /\ order' \in Seq(Key) /\ NoRepeat(order')
        /\ ToSet(order') = ToSet(order) \cup {k}
    BY <1>1, <1>2, <1>3, TouchedElements
  <2> QED
    BY <2>1
<1> QED
  BY <1>1, <1>3, <1>4 DEF CacheOK, Cached

\* put()
LEMMA PutKeeps ==
    ASSUME CacheOK(order, value), NEW k \in Key, NEW v \in Val, put(k, v)
    PROVE  CacheOK(order', value')
<1> DEFINE t == Main!Touched(order, k)
<1>1. order \in Seq(Key) /\ NoRepeat(order) /\ value \in [ToSet(order) -> Val]
  BY DEF CacheOK
<1>2. /\ order' = IF Len(t) > Capacity THEN Front(t) ELSE t
      /\ value' = [j \in ToSet(order') |-> IF j = k THEN v ELSE value[j]]
  BY DEF put, Main!Kept, Main!Front, Front
<1>3. t \in Seq(Key) /\ NoRepeat(t) /\ t # <<>> /\ ToSet(t) = ToSet(order) \cup {k}
  BY <1>1, TouchedElements
<1> HIDE DEF t
<1>4. Front(t) \in Seq(Key) /\ NoRepeat(Front(t)) /\ ToSet(Front(t)) \subseteq ToSet(t)
  BY <1>3, FrontLast, FrontElements
<1>5. order' \in Seq(Key) /\ NoRepeat(order') /\ ToSet(order') \subseteq ToSet(order) \cup {k}
  BY <1>2, <1>3, <1>4
<1>6. value' \in [ToSet(order') -> Val]
  BY <1>1, <1>2, <1>5
<1> QED
  BY <1>5, <1>6 DEF CacheOK

\* What a read would find.
LEMMA CachedType ==
    ASSUME CacheOK(order, value), NEW k
    PROVE  Cached(k) \in Val \cup {Absent} /\ (Cached(k) # Absent => k \in ToSet(order))
BY DEF CacheOK, Cached

-----------------------------------------------------------------------------
(***************************************************************************)
(* The pool.                                                               *)
(***************************************************************************)

WorkerPlace == {Asleep, Awake, After, "task", "found", "read"}

Active(W) == {w \in Worker : W[w] \notin {Asleep, Awake}}

\* The workers that run a task.
Busy(W) == {w \in Worker : W[w] \in {"task", "found", "read"}}

\* The workers W, of which n are counted as active.
PoolOK(W, n) == W \in [Worker -> WorkerPlace] /\ n = Cardinality(Active(W))

\* The places of a worker are distinct.
LEMMA WorkerPlaces ==
    /\ Asleep # Awake /\ Asleep # After /\ Awake # After
    /\ \A place \in {"task", "found", "read"} : place \notin {Asleep, Awake, After}
    /\ IsFiniteSet(Worker)
BY PoolAssumption, ChatAssumption

\* The workers, once w has moved to a place.
Moved(W, w, place) == [W EXCEPT ![w] = place]

\* A worker that moves is active, and busy, as its new place says.
LEMMA MoveWorker ==
    ASSUME NEW W \in [Worker -> WorkerPlace], NEW w \in Worker, NEW place \in WorkerPlace
    PROVE  /\ Moved(W, w, place) \in [Worker -> WorkerPlace]
           /\ Active(Moved(W, w, place)) =
                 IF place \in {Asleep, Awake} THEN Active(W) \ {w} ELSE Active(W) \cup {w}
           /\ Busy(Moved(W, w, place)) =
                 IF place \in {"task", "found", "read"} THEN Busy(W) \cup {w} ELSE Busy(W) \ {w}
<1> DEFINE U == Moved(W, w, place)
<1>1. /\ U \in [Worker -> WorkerPlace] /\ U[w] = place
      /\ \A x \in Worker : x # w => U[x] = W[x]
  BY DEF Moved
<1> HIDE DEF U
<1>2. Active(U) = IF place \in {Asleep, Awake} THEN Active(W) \ {w} ELSE Active(W) \cup {w}
  BY <1>1 DEF Active
<1>3. Busy(U) = IF place \in {"task", "found", "read"} THEN Busy(W) \cup {w} ELSE Busy(W) \ {w}
  BY <1>1 DEF Busy
<1> QED
  BY <1>1, <1>2, <1>3 DEF U

\* The count follows the worker: unchanged, one more, or one less.
LEMMA CountWorker ==
    ASSUME NEW W, NEW n, PoolOK(W, n), NEW w \in Worker, NEW place \in WorkerPlace
    PROVE  /\ (W[w] \in {Asleep, Awake} <=> place \in {Asleep, Awake}) =>
                 PoolOK(Moved(W, w, place), n)
           /\ W[w] \in {Asleep, Awake} /\ place \notin {Asleep, Awake} =>
                 PoolOK(Moved(W, w, place), n + 1)
           /\ W[w] \notin {Asleep, Awake} /\ place \in {Asleep, Awake} =>
                 PoolOK(Moved(W, w, place), n - 1)
<1> DEFINE U == Moved(W, w, place)
           A == Active(W)
<1>1. W \in [Worker -> WorkerPlace] /\ n = Cardinality(A)
  BY DEF PoolOK
<1>2. /\ U \in [Worker -> WorkerPlace]
      /\ Active(U) = IF place \in {Asleep, Awake} THEN A \ {w} ELSE A \cup {w}
  BY <1>1, MoveWorker
<1>3. A \subseteq Worker /\ (w \in A <=> W[w] \notin {Asleep, Awake})
  BY DEF Active
<1>4. IsFiniteSet(A)
  BY <1>3, WorkerPlaces, FS_Subset
<1> HIDE DEF U, A
<1>5. CASE place \in {Asleep, Awake} /\ w \in A
  <2>1. Cardinality(Active(U)) = n - 1
    BY <1>1, <1>2, <1>4, <1>5, FS_RemoveElement
  <2> QED
    BY <1>2, <1>3, <1>5, <2>1 DEF PoolOK, U
<1>6. CASE place \in {Asleep, Awake} /\ w \notin A
  <2>1. Active(U) = A
    BY <1>2, <1>6
  <2> QED
    BY <1>1, <1>2, <1>3, <1>6, <2>1 DEF PoolOK, U
<1>7. CASE place \notin {Asleep, Awake} /\ w \in A
  <2>1. Active(U) = A
    BY <1>2, <1>7
  <2> QED
    BY <1>1, <1>2, <1>3, <1>7, <2>1 DEF PoolOK, U
<1>8. CASE place \notin {Asleep, Awake} /\ w \notin A
  <2>1. Cardinality(Active(U)) = n + 1
    BY <1>1, <1>2, <1>4, <1>8, FS_AddElement
  <2> QED
    BY <1>2, <1>3, <1>8, <2>1 DEF PoolOK, U
<1> QED
  BY <1>5, <1>6, <1>7, <1>8

-----------------------------------------------------------------------------
(***************************************************************************)
(* The inductive invariant.                                                *)
(***************************************************************************)

\* The variables of the two threads and of the workers.
Types ==
    /\ running \in BOOLEAN /\ chat \in Client \cup {"wait"}
    /\ recv_buff_client \in Request \cup {Empty, Silent}
    /\ buffer \in Reply \cup {NoReply} /\ future \in BOOLEAN
    /\ answer \in [Client -> {"none", "own", "foreign"}]
    /\ kv_to_replica \in Request \cup {Empty, Silent} /\ kv_update_flag \in BOOLEAN
    /\ seen \subseteq Val \cup {Absent} /\ spoilt \in BOOLEAN

SocketTypes ==
    /\ events \subseteq Client \cup {Listener} /\ batch \subseteq Client \cup {Listener}
    /\ backlog \in Seq(Client)
    /\ fd \in [Client -> {"none", "queued", "open"}]
    /\ peer \in [Client -> {"alive", "fin", "rst"}]
    /\ asks \in [Client -> Request \cup {Silent}] /\ unread \subseteq Client

\* An event of a client that is still there announces a request that has not
\* been received, and is reported once.
Announced(c) ==
    /\ c \in events \cup batch =>
          /\ fd[c] = "open"
          /\ peer[c] = "alive" => c \in unread /\ c \notin events \cap batch
    /\ c \in unread => asks[c] # Silent
    /\ c \in ToSet(backlog) => fd[c] = "queued"

\* There is a connection to accept for every event of the listening socket.
Listening ==
    /\ NoRepeat(backlog)
    /\ Listener \in events \cup batch => backlog # <<>>
    /\ Listener \in events \cap batch => Tail(backlog) # <<>>

\* The request at hand is in the queue, with one worker, or answered.
Job ==
    /\ chat = "wait" =>
          tasks = <<>> /\ Busy(worker) = {} /\ ~future /\ recv_buff_client = Silent
    /\ chat # "wait" =>
          /\ recv_buff_client # Silent
          /\ \/ tasks = <<chat>> /\ Busy(worker) = {} /\ ~future
             \/ tasks = <<>> /\ (\E w \in Worker : Busy(worker) = {w}) /\ ~future
             \/ tasks = <<>> /\ Busy(worker) = {} /\ future /\ buffer.to = recv_buff_client
    /\ \A w \in Worker : worker[w] \in {"found", "read"} => recv_buff_client.op = "get"

\* What was received is what the client asked, if it is still there.
Own ==
    /\ chat # "wait" /\ peer[chat] = "alive" => recv_buff_client = asks[chat]
    /\ chat # "wait" => fd[chat] = "open"
    /\ ReplyIsOwn

\* A request whose key was found was once true of a value; and while its value
\* is being read, its node is there or is known to be spoilt.
Reading ==
    \A w \in Worker :
        /\ worker[w] \in {"found", "read"} => seen \cap Val # {}
        /\ worker[w] = "read" /\ ~spoilt => recv_buff_client.key \in ToSet(order)

\* The history has what the cache holds now.
Current == Sight(recv_buff_client) \subseteq seen /\ ReplyIsCurrent

Pooled == PoolOK(worker, numActiveThreads) /\ tasks \in Seq(Client)

Wired == SocketTypes /\ Listening /\ \A c \in Client : Announced(c)

ChatInv ==
    /\ Types /\ Wired /\ CacheOK(order, value) /\ Pooled
    /\ Job /\ Reading /\ Own /\ Current

-----------------------------------------------------------------------------
(***************************************************************************)
(* What each part depends on.                                              *)
(***************************************************************************)

\* The types are those of the threads' and the workers' variables.
LEMMA TypesFrame ==
    ASSUME Types, UNCHANGED <<running, chat, recv_buff_client, buffer, future, answer,
                              slot, history>>
    PROVE  Types'
BY DEF Types, slot, history

\* The connections and their events are the sockets'.
LEMMA WiredFrame ==
    ASSUME Wired, UNCHANGED sockets
    PROVE  Wired'
BY DEF Wired, SocketTypes, Listening, Announced, sockets

\* The cache.
LEMMA CacheFrame ==
    ASSUME CacheOK(order, value), UNCHANGED cache
    PROVE  CacheOK(order', value')
BY DEF cache

\* The pool.
LEMMA PooledFrame ==
    ASSUME Pooled, UNCHANGED pool
    PROVE  Pooled'
BY DEF Pooled, pool

\* Where the request at hand is does not depend on the sockets or the cache.
LEMMA JobFrame ==
    ASSUME Job, UNCHANGED <<chat, recv_buff_client, buffer, future, tasks, worker>>
    PROVE  Job'
BY DEF Job

\* What a worker has found does not depend on the others.
LEMMA ReadingFrame ==
    ASSUME Reading, UNCHANGED <<recv_buff_client, history>>, ToSet(order') = ToSet(order),
           \A w \in Worker : worker'[w] \in {"found", "read"} => worker'[w] = worker[w]
    PROVE  Reading'
BY DEF Reading, history

\* Whose request it is depends on its connection.
LEMMA OwnFrame ==
    ASSUME Own, UNCHANGED <<chat, recv_buff_client, peer, asks, fd, answer>>
    PROVE  Own'
BY DEF Own, ReplyIsOwn

\* What a reply may say depends on the cache and its history.
LEMMA CurrentFrame ==
    ASSUME Current, UNCHANGED <<chat, recv_buff_client, buffer, future, history, cache>>
    PROVE  Current'
BY DEF Current, ReplyIsCurrent, Sight, Cached, cache, history

\* The operations that requests have.
LEMMA Operations ==
    /\ Silent.op = "none" /\ Empty.op = "empty" /\ Silent # Empty
    /\ \A r \in Request : /\ r.op \in {"get", "put"} /\ r.key \in Key
                          /\ r.op = "put" => r.val \in Val
                          /\ r # Silent /\ r # Empty
BY ChatAssumption DEF Silent, Empty, Request

-----------------------------------------------------------------------------
(***************************************************************************)
(* The thread of Client_chat.                                              *)
(***************************************************************************)

\* Every event that is fetched was reported, and none was left from before.
LEMMA EpollPreserves ==
    ASSUME ChatInv, epoll_wait
    PROVE  ChatInv'
<1>1. /\ Types /\ Wired /\ CacheOK(order, value) /\ Pooled /\ Job /\ Own /\ Current
      /\ Reading
      /\ SocketTypes /\ Listening /\ \A c \in Client : Announced(c)
  BY DEF ChatInv, Wired
<1>2. /\ batch = {} /\ batch' = events /\ events' = {}
      /\ UNCHANGED <<running, chat, recv_buff_client, buffer, future, backlog, fd,
                     peer, asks, unread, answer, history, cache, pool, slot>>
      /\ UNCHANGED <<tasks, worker, order>>
  BY DEF epoll_wait, pool, cache
<1>3. SocketTypes'
  BY <1>1, <1>2 DEF SocketTypes
<1>4. Listening'
  BY <1>1, <1>2 DEF Listening
<1>5. \A c \in Client : Announced(c)'
  BY <1>1, <1>2 DEF Announced
<1>6. Types' /\ CacheOK(order', value') /\ Pooled' /\ Job' /\ Own' /\ Current'
  BY <1>1, <1>2, TypesFrame, CacheFrame, PooledFrame, JobFrame, OwnFrame, CurrentFrame
<1>7. Reading'
  BY <1>1, <1>2, ReadingFrame
<1> QED
  BY <1>3, <1>4, <1>5, <1>6, <1>7 DEF ChatInv, Wired

\* The connection accepted is one that no event announced before.
LEMMA AcceptPreserves ==
    ASSUME ChatInv, Accept
    PROVE  ChatInv'
<1> DEFINE c == Head(backlog)
<1>1. /\ Types /\ Wired /\ CacheOK(order, value) /\ Pooled /\ Job /\ Own /\ Current
      /\ Reading
      /\ SocketTypes /\ Listening /\ \A d \in Client : Announced(d)
  BY DEF ChatInv, Wired
<1>2. /\ Listener \in batch /\ batch' = batch \ {Listener} /\ backlog' = Tail(backlog)
      /\ fd' = [fd EXCEPT ![c] = "open"]
      /\ events' = events \cup {d \in {c} : c \in unread \/ peer[c] # "alive"}
      /\ UNCHANGED <<running, chat, recv_buff_client, buffer, future, peer, asks,
                     unread, answer, history, cache, pool, slot>>
      /\ UNCHANGED <<tasks, worker, order>>
  BY DEF Accept, pool, cache
<1>3. /\ backlog \in Seq(Client) /\ backlog # <<>> /\ NoRepeat(backlog)
      /\ Listener \in events => Tail(backlog) # <<>>
  BY <1>1, <1>2 DEF SocketTypes, Listening
<1>4. /\ c \in Client /\ c \in ToSet(backlog) /\ Tail(backlog) \in Seq(Client)
      /\ ToSet(Tail(backlog)) \subseteq ToSet(backlog)
      /\ NoRepeat(Tail(backlog)) /\ c \notin ToSet(Tail(backlog))
  BY <1>3, TailElements
<1>5. c # Listener /\ fd[c] = "queued" /\ c \notin events \cup batch
  BY <1>1, <1>4, ChatAssumption DEF Announced
<1> HIDE DEF c
<1>6. SocketTypes'
  BY <1>1, <1>2, <1>4 DEF SocketTypes
<1>7. Listening'
  <2>1. Listener \notin batch' /\ (Listener \in events' <=> Listener \in events)
    BY <1>2, <1>5
  <2> QED
    BY <1>2, <1>3, <1>4, <2>1 DEF Listening
<1>8. ASSUME NEW d \in Client
      PROVE  Announced(d)'
  <2>1. d # Listener /\ fd \in [Client -> {"none", "queued", "open"}] /\ Announced(d)
    BY <1>1, ChatAssumption DEF SocketTypes
  <2>2. CASE d = c
    BY <1>2, <1>4, <1>5, <2>1, <2>2 DEF Announced
  <2>3. CASE d # c
    BY <1>2, <1>4, <2>1, <2>3 DEF Announced
  <2> QED
    BY <2>2, <2>3
<1>9. Own'
  BY <1>1, <1>2 DEF Own, ReplyIsOwn, Types, SocketTypes
<1>10. Types' /\ CacheOK(order', value') /\ Pooled' /\ Job' /\ Current'
  BY <1>1, <1>2, TypesFrame, CacheFrame, PooledFrame, JobFrame, CurrentFrame
<1>11. Reading'
  BY <1>1, <1>2, ReadingFrame
<1> QED
  BY <1>6, <1>7, <1>8, <1>9, <1>10, <1>11 DEF ChatInv, Wired

\* An event of a client is handled: one fewer, of a client that is not announced
\* any more if it is still there.
LEMMA HandledWires ==
    ASSUME Wired, NEW c \in Client, c \in batch,
           batch' = batch \ {c}, unread' = unread \ {c},
           UNCHANGED <<events, backlog, fd, peer, asks>>
    PROVE  Wired'
<1>1. /\ SocketTypes /\ Listening /\ \A d \in Client : Announced(d)
      /\ c # Listener
  BY ChatAssumption DEF Wired
<1>2. SocketTypes'
  BY <1>1 DEF SocketTypes
<1>3. Listening'
  BY <1>1 DEF Listening
<1>4. \A d \in Client : Announced(d)'
  BY <1>1 DEF Announced
<1> QED
  BY <1>2, <1>3, <1>4 DEF Wired

\* A task goes to the queue of an idle pool.
LEMMA EnqueuePools ==
    ASSUME Pooled, NEW c \in Client, Enqueue(c), UNCHANGED numActiveThreads
    PROVE  Pooled' /\ tasks' = Append(tasks, c) /\ Busy(worker') = Busy(worker)
<1>1. PoolOK(worker, numActiveThreads) /\ tasks \in Seq(Client)
  BY DEF Pooled
<1>2. tasks' = Append(tasks, c) /\ tasks' \in Seq(Client)
  BY <1>1 DEF Enqueue
<1>3. CASE UNCHANGED worker
  BY <1>1, <1>2, <1>3 DEF Pooled
<1>4. CASE \E w \in Sleepers : worker' = [worker EXCEPT ![w] = Awake]
  <2>1. PICK w \in Worker : worker[w] = Asleep /\ worker' = Moved(worker, w, Awake)
    BY <1>4 DEF Sleepers, Moved
  <2>2. worker \in [Worker -> WorkerPlace] /\ Awake \in WorkerPlace
    BY <1>1 DEF PoolOK, WorkerPlace
  <2>3. PoolOK(worker', numActiveThreads)
    BY <1>1, <2>1, <2>2, CountWorker
  <2>4. Busy(worker') = Busy(worker) \ {w}
    BY <2>1, <2>2, MoveWorker, WorkerPlaces
  <2>5. w \notin Busy(worker)
    BY <2>1, WorkerPlaces DEF Busy
  <2> QED
    BY <1>2, <2>3, <2>4, <2>5 DEF Pooled
<1> QED
  BY <1>3, <1>4 DEF Enqueue

\* A request is received, or one of no characters after a reset.
LEMMA SubmitPreserves ==
    ASSUME ChatInv, NEW c \in Client, chat = "wait", c \in batch,
           NEW r \in Request \cup {Empty}, peer[c] = "alive" => r = asks[c],
           batch' = batch \ {c}, unread' = unread \ {c},
           Submit(c, r),
           UNCHANGED <<running, buffer, future, backlog, slot>>
    PROVE  ChatInv'
<1>1. /\ Types /\ Wired /\ CacheOK(order, value) /\ Pooled /\ Job /\ Own /\ Current
      /\ Reading
  BY DEF ChatInv
<1>2. /\ recv_buff_client' = r /\ chat' = c /\ Enqueue(c) /\ seen' = Sight(r)
      /\ UNCHANGED <<spoilt, cache, events, fd, peer, asks, answer, numActiveThreads>>
  BY DEF Submit
<1>3. c # "wait" /\ r # Silent
  BY ChatAssumption, Operations
<1>4. tasks = <<>> /\ Busy(worker) = {} /\ ~future
  BY <1>1 DEF Job
<1>5. Pooled' /\ tasks' = Append(tasks, c) /\ Busy(worker') = Busy(worker)
  BY <1>1, <1>2, EnqueuePools
<1>6. Wired'
  BY <1>1, <1>2, HandledWires
<1>7. CacheOK(order', value')
  BY <1>1, <1>2, CacheFrame
<1>8. Job' /\ Reading'
  <2>1. \A w \in Worker : worker'[w] \notin {"found", "read"}
    BY <1>4, <1>5 DEF Busy
  <2>2. tasks' = <<c>>
    BY <1>4, <1>5
  <2>3. Job'
    BY <1>2, <1>3, <1>4, <1>5, <2>1, <2>2 DEF Job
  <2> QED
    BY <2>1, <2>3 DEF Reading
<1>9. Own'
  <2>1. fd[c] = "open"
    BY <1>1 DEF Wired, Announced
  <2> QED
    BY <1>1, <1>2, <2>1 DEF Own, ReplyIsOwn
<1>10. Sight(r)' = Sight(r) /\ Sight(r) \subseteq Val \cup {Absent}
  BY <1>1, <1>2, CachedType DEF Sight, Cached, cache
<1>11. Current'
  BY <1>2, <1>4, <1>10 DEF Current, ReplyIsCurrent, Sight
<1>12. Types'
  BY <1>1, <1>2, <1>10 DEF Types, slot
<1> QED
  BY <1>5, <1>6, <1>7, <1>8, <1>9, <1>11, <1>12 DEF ChatInv

\* The connection ends: nothing of it is left in the events.
LEMMA ClosePreserves ==
    ASSUME ChatInv, NEW c \in Client, chat = "wait", c \in batch, c \notin unread,
           batch' = batch \ {c}, unread' = unread \ {c},
           Close(c),
           UNCHANGED <<running, buffer, future, backlog, slot>>
    PROVE  ChatInv'
<1>1. /\ Types /\ Wired /\ CacheOK(order, value) /\ Pooled /\ Job /\ Own /\ Current
      /\ Reading
      /\ SocketTypes /\ Listening /\ \A d \in Client : Announced(d)
      /\ c # Listener
  BY ChatAssumption DEF ChatInv, Wired
<1>2. /\ fd' = [fd EXCEPT ![c] = "none"]
      /\ peer' = [peer EXCEPT ![c] = "alive"]
      /\ asks' = [asks EXCEPT ![c] = Silent]
      /\ answer' = [answer EXCEPT ![c] = "none"]
      /\ events' = events \ {c}
      /\ UNCHANGED <<chat, recv_buff_client, history, cache, pool>>
      /\ UNCHANGED <<tasks, worker, order, seen, spoilt>>
  BY DEF Close, pool, cache, history
<1>3. SocketTypes'
  BY <1>1, <1>2 DEF SocketTypes
<1>4. Listening'
  BY <1>1, <1>2 DEF Listening
<1>5. ASSUME NEW d \in Client
      PROVE  Announced(d)'
  <2>1. CASE d = c
    <3>1. c \notin events' \cup batch' /\ c \notin unread' /\ c \notin ToSet(backlog)
      BY <1>1, <1>2 DEF Announced
    <3> QED
      BY <2>1, <3>1 DEF Announced
  <2>2. CASE d # c
    <3>1. /\ fd'[d] = fd[d] /\ peer'[d] = peer[d] /\ asks'[d] = asks[d] /\ Announced(d)
      BY <1>1, <1>2, <2>2 DEF SocketTypes
    <3> QED
      BY <1>2, <2>2, <3>1 DEF Announced
  <2> QED
    BY <2>1, <2>2
<1>6. Own'
  BY <1>1, <1>2 DEF Own, ReplyIsOwn, Types
<1>7. Types'
  BY <1>1, <1>2 DEF Types, slot
<1>8. CacheOK(order', value') /\ Pooled' /\ Job' /\ Current'
  BY <1>1, <1>2, CacheFrame, PooledFrame, JobFrame, CurrentFrame
<1>9. Reading'
  BY <1>1, <1>2, ReadingFrame
<1> QED
  BY <1>3, <1>4, <1>5, <1>6, <1>7, <1>8, <1>9 DEF ChatInv, Wired

\* An event of a client.
LEMMA RecvPreserves ==
    ASSUME ChatInv, NEW c \in Client, Recv(c)
    PROVE  ChatInv'
<1>1. /\ chat = "wait" /\ c \in batch /\ batch' = batch \ {c} /\ unread' = unread \ {c}
      /\ UNCHANGED <<running, buffer, future, backlog, slot>>
  BY DEF Recv
<1>2. SocketTypes /\ Announced(c)
  BY DEF ChatInv, Wired
<1>3. CASE c \in unread /\ Submit(c, asks[c])
  <2>1. asks[c] \in Request \cup {Empty}
    BY <1>2, <1>3 DEF SocketTypes, Announced
  <2> QED
    BY <1>1, <1>3, <2>1, SubmitPreserves
<1>4. CASE c \notin unread /\ Close(c)
  BY <1>1, <1>4, ClosePreserves
<1>5. CASE c \notin unread /\ peer[c] # "fin" /\ Submit(c, Empty)
  <2>1. peer[c] # "alive"
    BY <1>1, <1>2, <1>5 DEF Announced
  <2>2. Empty \in Request \cup {Empty} /\ (peer[c] = "alive" => Empty = asks[c])
    BY <2>1
  <2> QED
    BY <1>1, <1>5, <2>2, SubmitPreserves
<1> QED
  BY <1>3, <1>4, <1>5 DEF Recv

\* The reply is in the buffer since the one task of this request has ended.
LEMMA SendReplyPreserves ==
    ASSUME ChatInv, SendReply
    PROVE  ChatInv'
<1>1. /\ Types /\ Wired /\ CacheOK(order, value) /\ Pooled /\ Job /\ Own /\ Current
      /\ Reading
      /\ SocketTypes /\ Listening /\ \A d \in Client : Announced(d)
  BY DEF ChatInv, Wired
<1>2. /\ chat # "wait" /\ future
      /\ running' = (peer[chat] # "rst")
      /\ answer' = IF peer[chat] # "alive" THEN answer
                   ELSE [answer EXCEPT ![chat] =
                           IF buffer.to = asks[chat] THEN "own" ELSE "foreign"]
      /\ events' = events \cup {d \in {chat} : peer[d] = "fin"}
      /\ chat' = "wait" /\ future' = FALSE
      /\ recv_buff_client' = Silent /\ seen' = {} /\ spoilt' = FALSE
      /\ kv_to_replica' = recv_buff_client /\ kv_update_flag' = TRUE
      /\ UNCHANGED <<buffer, batch, backlog, fd, peer, asks, unread, cache, pool>>
      /\ UNCHANGED <<tasks, worker>>
  BY DEF SendReply, Ready, pool
<1>3. chat \in Client /\ chat # Listener
  BY <1>1, <1>2, ChatAssumption DEF Types
<1>4. tasks = <<>> /\ Busy(worker) = {} /\ buffer.to = recv_buff_client
  BY <1>1, <1>2 DEF Job
<1>5. Types'
  BY <1>1, <1>2, <1>3 DEF Types
<1>6. Job' /\ Reading'
  <2>1. \A w \in Worker : worker[w] \notin {"found", "read"}
    BY <1>4 DEF Busy
  <2>2. Job'
    BY <1>2, <1>4, <2>1 DEF Job
  <2> QED
    BY <1>2, <2>1, <2>2 DEF Reading
<1>7. Own'
  <2>1. peer[chat] = "alive" => buffer.to = asks[chat]
    BY <1>1, <1>2, <1>4 DEF Own
  <2>2. ReplyIsOwn'
    BY <1>1, <1>2, <1>3, <2>1 DEF Own, ReplyIsOwn, Types
  <2> QED
    BY <1>2, <2>2 DEF Own
<1>8. Current'
  BY <1>2, Operations DEF Current, ReplyIsCurrent, Sight
<1>9. SocketTypes'
  BY <1>1, <1>2, <1>3 DEF SocketTypes
<1>10. Listening'
  BY <1>1, <1>2, <1>3 DEF Listening
<1>11. ASSUME NEW d \in Client
       PROVE  Announced(d)'
  <2>1. Announced(d) /\ fd[chat] = "open"
    BY <1>1, <1>2 DEF Own
  <2> QED
    BY <1>2, <2>1 DEF Announced
<1>12. CacheOK(order', value') /\ Pooled'
  BY <1>1, <1>2, CacheFrame, PooledFrame
<1> QED
  BY <1>5, <1>6, <1>7, <1>8, <1>9, <1>10, <1>11, <1>12 DEF ChatInv, Wired

-----------------------------------------------------------------------------
(***************************************************************************)
(* The workers.                                                            *)
(***************************************************************************)

\* A worker sleeps, wakes up or counts its task off: no task moves.
LEMMA IdlePreserves ==
    ASSUME ChatInv, NEW w \in Worker, Sleep(w) \/ WakeUp(w) \/ after_task_hook(w),
           UNCHANGED <<running, chat, recv_buff_client, buffer, future, sockets,
                       answer, history, cache, slot>>
    PROVE  ChatInv'
<1>1. /\ Types /\ Wired /\ CacheOK(order, value) /\ Pooled /\ Job /\ Own /\ Current
      /\ Reading
      /\ PoolOK(worker, numActiveThreads) /\ worker \in [Worker -> WorkerPlace]
      /\ {Asleep, Awake} \subseteq WorkerPlace
  BY DEF ChatInv, Pooled, PoolOK, WorkerPlace
<1>2. tasks' = tasks /\ UNCHANGED <<peer, asks, fd, order>>
  BY DEF Sleep, WakeUp, after_task_hook, sockets, cache
<1>3. PICK place \in {Asleep, Awake} : worker' = Moved(worker, w, place)
  BY DEF Sleep, WakeUp, after_task_hook, Moved
<1>4. PoolOK(worker', numActiveThreads')
  <2>1. CASE Sleep(w) \/ WakeUp(w)
    <3>1. worker[w] \in {Asleep, Awake} /\ numActiveThreads' = numActiveThreads
      BY <2>1 DEF Sleep, WakeUp
    <3> QED
      BY <1>1, <1>3, <3>1, CountWorker
  <2>2. CASE after_task_hook(w)
    <3>1. worker[w] \notin {Asleep, Awake} /\ numActiveThreads' = numActiveThreads - 1
      BY <2>2, WorkerPlaces DEF after_task_hook
    <3> QED
      BY <1>1, <1>3, <3>1, CountWorker
  <2> QED
    BY <2>1, <2>2
<1>5. Busy(worker') = Busy(worker)
  <2>1. Busy(worker') = Busy(worker) \ {w}
    BY <1>1, <1>3, MoveWorker, WorkerPlaces
  <2>2. w \notin Busy(worker)
    BY WorkerPlaces DEF Busy, Sleep, WakeUp, after_task_hook
  <2> QED
    BY <2>1, <2>2
<1>6. Pooled'
  BY <1>1, <1>2, <1>4 DEF Pooled
<1>7. Job' /\ Reading'
  <2>1. \A x \in Worker : worker'[x] \in {"found", "read"} => worker'[x] = worker[x]
    BY <1>1, <1>3, WorkerPlaces DEF Moved
  <2>2. Job'
    BY <1>1, <1>2, <1>5, <2>1 DEF Job
  <2> QED
    BY <1>1, <1>2, <2>1, <2>2, ReadingFrame
<1>8. Types' /\ Wired' /\ CacheOK(order', value') /\ Own' /\ Current'
  BY <1>1, <1>2, TypesFrame, WiredFrame, CacheFrame, OwnFrame, CurrentFrame
<1> QED
  BY <1>6, <1>7, <1>8 DEF ChatInv

\* A worker takes the task, which is the only one.
LEMMA TakePreserves ==
    ASSUME ChatInv, NEW w \in Worker, Take(w, "task"),
           UNCHANGED <<running, chat, recv_buff_client, buffer, future, sockets,
                       answer, history, cache, slot>>
    PROVE  ChatInv'
<1>1. /\ Types /\ Wired /\ CacheOK(order, value) /\ Pooled /\ Job /\ Own /\ Current
      /\ Reading
      /\ PoolOK(worker, numActiveThreads) /\ worker \in [Worker -> WorkerPlace]
      /\ "task" \in WorkerPlace /\ tasks \in Seq(Client)
  BY DEF ChatInv, Pooled, PoolOK, WorkerPlace
<1>2. /\ worker[w] = Awake /\ tasks # <<>> /\ worker' = Moved(worker, w, "task")
      /\ tasks' = Tail(tasks) /\ numActiveThreads' = numActiveThreads + 1
      /\ UNCHANGED <<peer, asks, fd, order>>
  BY DEF Take, Moved, sockets, cache
<1>3. PoolOK(worker', numActiveThreads')
  BY <1>1, <1>2, CountWorker, WorkerPlaces
<1>4. Busy(worker') = Busy(worker) \cup {w}
  BY <1>1, <1>2, MoveWorker
<1>5. chat # "wait" /\ tasks = <<chat>> /\ Busy(worker) = {} /\ ~future
  BY <1>1, <1>2 DEF Job
<1>6. tasks' = <<>> /\ Busy(worker') = {w}
  BY <1>2, <1>4, <1>5
<1>7. Pooled'
  BY <1>3, <1>6 DEF Pooled
<1>8. Job' /\ Reading'
  <2>1. \A x \in Worker : worker'[x] \notin {"found", "read"}
    BY <1>1, <1>2, <1>5 DEF Moved, Busy
  <2>2. Job'
    BY <1>1, <1>5, <1>6, <2>1 DEF Job
  <2> QED
    BY <2>1, <2>2 DEF Reading
<1>9. Types' /\ Wired' /\ CacheOK(order', value') /\ Own' /\ Current'
  BY <1>1, <1>2, TypesFrame, WiredFrame, CacheFrame, OwnFrame, CurrentFrame
<1> QED
  BY <1>7, <1>8, <1>9 DEF ChatInv

\* A worker that runs a task is the only one, and no reply is there yet.
LEMMA AtWork ==
    ASSUME Job, NEW w \in Worker, worker[w] \in {"task", "found", "read"}
    PROVE  /\ chat # "wait" /\ Busy(worker) = {w} /\ tasks = <<>> /\ ~future
           /\ recv_buff_client # Silent
<1>1. w \in Busy(worker)
  BY DEF Busy
<1> QED
  BY <1>1 DEF Job

\* A task ends with a reply to the request at hand.
LEMMA FinishPools ==
    ASSUME Pooled, Job, NEW w \in Worker, worker[w] \in {"task", "found", "read"},
           NEW reply, reply.to = recv_buff_client, Finish(w, reply),
           UNCHANGED <<chat, recv_buff_client, tasks, numActiveThreads>>
    PROVE  Pooled' /\ Job' /\ Reading'
<1>1. /\ PoolOK(worker, numActiveThreads) /\ worker \in [Worker -> WorkerPlace]
      /\ After \in WorkerPlace /\ tasks \in Seq(Client)
  BY DEF Pooled, PoolOK, WorkerPlace
<1>2. buffer' = reply /\ future' = TRUE /\ worker' = Moved(worker, w, After)
  BY DEF Finish, Moved
<1>3. /\ chat # "wait" /\ Busy(worker) = {w} /\ tasks = <<>> /\ recv_buff_client # Silent
  BY AtWork
<1>4. Busy(worker') = {}
  BY <1>1, <1>2, <1>3, MoveWorker, WorkerPlaces
<1>5. PoolOK(worker', numActiveThreads)
  BY <1>1, <1>2, CountWorker, WorkerPlaces
<1>6. Job' /\ Reading'
  <2>1. \A x \in Worker : worker'[x] \notin {"found", "read"}
    BY <1>4 DEF Busy
  <2>2. Job'
    BY <1>2, <1>3, <1>4, <2>1 DEF Job
  <2> QED
    BY <2>1, <2>2 DEF Reading
<1> QED
  BY <1>1, <1>5, <1>6 DEF Pooled

\* check() does not find the key.
LEMMA ReadMissingPreserves ==
    ASSUME ChatInv, NEW w \in Worker, worker[w] = "task", ReadMissing(w),
           UNCHANGED <<running, chat, recv_buff_client, sockets, answer, history, tasks,
                       numActiveThreads, slot>>
    PROVE  ChatInv'
<1>1. /\ Types /\ Wired /\ CacheOK(order, value) /\ Pooled /\ Job /\ Own /\ Current
      /\ Reading
  BY DEF ChatInv
<1>2. /\ recv_buff_client.op # "put" /\ Sight(recv_buff_client) \subseteq {Absent}
      /\ Finish(w, Failed) /\ UNCHANGED cache
      /\ buffer' = Failed /\ future' = TRUE
      /\ UNCHANGED <<peer, asks, fd, seen, spoilt>>
  BY DEF ReadMissing, Finish, sockets, history
<1>3. /\ recv_buff_client # Silent /\ recv_buff_client \in Request \cup {Empty}
  BY <1>1, AtWork DEF Types
<1>4. Failed.to = recv_buff_client /\ Failed.state = "FAILED" /\ Failed \in Reply
  BY <1>3 DEF Failed, Reply
<1>5. Pooled' /\ Job' /\ Reading'
  BY <1>1, <1>2, <1>4, FinishPools
<1>6. Current'
  <2>1. Sight(recv_buff_client)' = Sight(recv_buff_client)
    BY <1>2 DEF Sight, Cached, cache
  <2>2. recv_buff_client.op = "get" => Absent \in seen
    BY <1>1, <1>2 DEF Current, Sight
  <2>3. ReplyIsCurrent'
    BY <1>2, <1>4, <2>2 DEF ReplyIsCurrent
  <2> QED
    BY <1>1, <1>2, <2>1, <2>3 DEF Current
<1>7. Types'
  BY <1>1, <1>2, <1>4 DEF Types, slot
<1>8. Wired' /\ CacheOK(order', value') /\ Own'
  BY <1>1, <1>2, WiredFrame, CacheFrame, OwnFrame
<1> QED
  BY <1>5, <1>6, <1>7, <1>8 DEF ChatInv

\* check() finds the key.
LEMMA ReadFoundPreserves ==
    ASSUME ChatInv, NEW w \in Worker, worker[w] = "task", ReadFound(w),
           UNCHANGED <<running, chat, recv_buff_client, sockets, answer, history, tasks,
                       numActiveThreads, slot>>
    PROVE  ChatInv'
<1>1. /\ Types /\ Wired /\ CacheOK(order, value) /\ Pooled /\ Job /\ Own /\ Current
      /\ Reading
      /\ PoolOK(worker, numActiveThreads) /\ worker \in [Worker -> WorkerPlace]
      /\ "found" \in WorkerPlace
  BY DEF ChatInv, Pooled, PoolOK, WorkerPlace
<1>2. /\ recv_buff_client.op = "get" /\ worker' = Moved(worker, w, "found")
      /\ UNCHANGED <<buffer, future, cache>> /\ UNCHANGED <<peer, asks, fd, seen>>
      /\ Cached(recv_buff_client.key) # Absent
  BY DEF ReadFound, Moved, sockets, history
<1>3. /\ chat # "wait" /\ Busy(worker) = {w} /\ tasks = <<>> /\ ~future
      /\ recv_buff_client # Silent
  BY <1>1, AtWork
<1>4. Busy(worker') = {w}
  BY <1>1, <1>2, <1>3, MoveWorker
<1>5. PoolOK(worker', numActiveThreads)
  BY <1>1, <1>2, CountWorker, WorkerPlaces
<1>6. Pooled'
  BY <1>1, <1>5 DEF Pooled
<1>7. Job'
  BY <1>2, <1>3, <1>4 DEF Job
<1>8. Types' /\ Wired' /\ CacheOK(order', value') /\ Own' /\ Current'
  BY <1>1, <1>2, TypesFrame, WiredFrame, CacheFrame, OwnFrame, CurrentFrame
<1>9. Reading'
  <2>1. Cached(recv_buff_client.key) \in seen \cap Val
    BY <1>1, <1>2, CachedType DEF Current, Sight
  <2>2. \A x \in Worker : worker'[x] \in {"found", "read"} => x = w /\ worker'[x] = "found"
    BY <1>1, <1>2, <1>4 DEF Moved, Busy
  <2> QED
    BY <1>2, <2>1, <2>2 DEF Reading
<1> QED
  BY <1>6, <1>7, <1>8, <1>9 DEF ChatInv

\* A request to write.
LEMMA WritePreserves ==
    ASSUME ChatInv, NEW w \in Worker, worker[w] = "task", Write(w),
           UNCHANGED <<running, chat, recv_buff_client, sockets, answer, history, tasks,
                       numActiveThreads, slot>>
    PROVE  ChatInv'
<1>1. /\ Types /\ Wired /\ CacheOK(order, value) /\ Pooled /\ Job /\ Own /\ Current
      /\ Reading
  BY DEF ChatInv
<1>2. /\ recv_buff_client.op = "put"
      /\ put(recv_buff_client.key, recv_buff_client.val)
      /\ Finish(w, Succeeded(Absent))
      /\ buffer' = Succeeded(Absent) /\ future' = TRUE
      /\ UNCHANGED <<peer, asks, fd, seen, spoilt>>
  BY DEF Write, Finish, sockets, history
<1>3. recv_buff_client \in Request
  BY <1>1, <1>2, Operations DEF Types
<1>4. /\ Succeeded(Absent).to = recv_buff_client /\ Succeeded(Absent) \in Reply
  BY <1>3 DEF Succeeded, Reply
<1>5. Pooled' /\ Job' /\ Reading'
  BY <1>1, <1>2, <1>4, FinishPools
<1>6. CacheOK(order', value')
  BY <1>1, <1>2, <1>3, Operations, PutKeeps
<1>7. Current'
  BY <1>2 DEF Current, ReplyIsCurrent, Sight
<1>8. Types'
  BY <1>1, <1>2, <1>4 DEF Types, slot
<1>9. Wired' /\ Own'
  BY <1>1, <1>2, WiredFrame, OwnFrame
<1> QED
  BY <1>5, <1>6, <1>7, <1>8, <1>9 DEF ChatInv

\* get() finds nothing any more, or moves the key to the front.
LEMMA ReadGetPreserves ==
    ASSUME ChatInv, NEW w \in Worker, ReadGet(w)
    PROVE  ChatInv'
<1> DEFINE k == recv_buff_client.key
           reply == Succeeded(Absent)
<1>1. /\ Types /\ Wired /\ CacheOK(order, value) /\ Pooled /\ Job /\ Own /\ Current
      /\ Reading
  BY DEF ChatInv
<1>2. /\ worker[w] = "found"
      /\ UNCHANGED <<running, chat, recv_buff_client, sockets, answer, history,
                     tasks, numActiveThreads, slot>>
      /\ UNCHANGED <<peer, asks, fd, seen, spoilt>>
  BY DEF ReadGet, sockets, history
<1>3. recv_buff_client.op = "get" /\ seen \cap Val # {}
  BY <1>1, <1>2 DEF Job, Reading
<1>4. recv_buff_client \in Request
  BY <1>1, <1>3, Operations DEF Types
<1>5. Wired' /\ Own'
  BY <1>1, <1>2, WiredFrame, OwnFrame
<1>6. CASE k \notin ToSet(order)
  <2>1. Finish(w, reply) /\ UNCHANGED cache /\ buffer' = reply /\ future' = TRUE
    BY <1>2, <1>6 DEF ReadGet, Finish
  <2>2. reply.to = recv_buff_client /\ reply \in Reply /\ reply.val = Absent
    BY <1>4 DEF Succeeded, Reply
  <2> HIDE DEF reply
  <2>3. Pooled' /\ Job' /\ Reading'
    BY <1>1, <1>2, <2>1, <2>2, FinishPools
  <2>4. Cached(k) = Absent /\ Absent \in seen
    BY <1>1, <1>3, <1>6 DEF Current, Sight, Cached
  <2>5. Sight(recv_buff_client)' = Sight(recv_buff_client)
    BY <1>2, <2>1 DEF Sight, Cached, cache
  <2>6. ReplyIsCurrent'
    <3>1. reply.state = "SUCCESS"
      BY DEF reply, Succeeded
    <3> QED
      BY <1>2, <1>3, <2>1, <2>2, <2>4, <3>1 DEF ReplyIsCurrent
  <2>7. Current'
    BY <1>1, <1>2, <2>5, <2>6 DEF Current
  <2>8. Types'
    BY <1>1, <1>2, <2>1, <2>2 DEF Types, slot
  <2> QED
    BY <1>1, <1>5, <2>1, <2>3, <2>7, <2>8, CacheFrame DEF ChatInv
<1>7. CASE k \in ToSet(order)
  <2>1. /\ get(k) /\ UNCHANGED <<buffer, future>> /\ worker' = Moved(worker, w, "read")
    BY <1>7 DEF ReadGet, Moved
  <2>2. /\ CacheOK(order', value') /\ ToSet(order') = ToSet(order)
        /\ \A j : Cached(j)' = Cached(j)
    BY <1>1, <1>7, <2>1, GetKeeps
  <2>3. /\ chat # "wait" /\ Busy(worker) = {w} /\ tasks = <<>> /\ ~future
        /\ recv_buff_client # Silent
    BY <1>1, <1>2, AtWork
  <2>4. /\ PoolOK(worker, numActiveThreads) /\ worker \in [Worker -> WorkerPlace]
        /\ "read" \in WorkerPlace
    BY <1>1 DEF Pooled, PoolOK, WorkerPlace
  <2>5. Busy(worker') = {w}
    BY <2>1, <2>3, <2>4, MoveWorker
  <2>6. PoolOK(worker', numActiveThreads)
    BY <1>2, <2>1, <2>4, CountWorker, WorkerPlaces
  <2>7. Pooled'
    BY <1>1, <1>2, <2>6 DEF Pooled
  <2>8. Job'
    BY <1>2, <1>3, <2>1, <2>3, <2>5 DEF Job
  <2>9. Reading'
    <3>1. \A x \in Worker : worker'[x] \in {"found", "read"} => x = w
      BY <2>5 DEF Busy
    <3> QED
      BY <1>2, <1>3, <1>7, <2>2, <3>1 DEF Reading
  <2>10. Sight(recv_buff_client)' = Sight(recv_buff_client)
    BY <1>2, <2>2 DEF Sight
  <2>11. Current'
    BY <1>1, <1>2, <2>1, <2>3, <2>10 DEF Current, ReplyIsCurrent
  <2>12. Types'
    BY <1>1, <1>2, <2>1, TypesFrame
  <2> QED
    BY <1>5, <2>2, <2>7, <2>8, <2>9, <2>11, <2>12 DEF ChatInv
<1> QED
  BY <1>6, <1>7

\* The value is read after the cache was unlocked: it is the key's, unless the
\* node is spoilt; then it is anything, or the server is gone.
LEMMA ReadValuePreserves ==
    ASSUME ChatInv, NEW w \in Worker, ReadValue(w)
    PROVE  ChatInv'
<1> DEFINE k == recv_buff_client.key
<1>1. /\ Types /\ Wired /\ CacheOK(order, value) /\ Pooled /\ Job /\ Own /\ Current
      /\ Reading
  BY DEF ChatInv
<1>2. /\ worker[w] = "read"
      /\ UNCHANGED <<chat, recv_buff_client, sockets, answer, history, tasks,
                     numActiveThreads, slot, cache>>
      /\ UNCHANGED <<peer, asks, fd, seen, spoilt, order>>
  BY DEF ReadValue, sockets, history, cache
<1>3. /\ recv_buff_client.op = "get" /\ seen \cap Val # {}
      /\ ~spoilt => k \in ToSet(order)
  BY <1>1, <1>2 DEF Job, Reading
<1>4. recv_buff_client \in Request
  BY <1>1, <1>3, Operations DEF Types
<1>5. Wired' /\ Own' /\ CacheOK(order', value')
  BY <1>1, <1>2, WiredFrame, OwnFrame, CacheFrame
<1>6. Sight(recv_buff_client)' = Sight(recv_buff_client)
  BY <1>2 DEF Sight, Cached, cache
<1>7. CASE UNCHANGED <<buffer, future, worker>> /\ running' = FALSE
  <2>1. Types'
    BY <1>1, <1>2, <1>7 DEF Types, slot
  <2>2. Pooled' /\ Job' /\ Current'
    BY <1>1, <1>2, <1>7, JobFrame, CurrentFrame DEF Pooled
  <2>3. Reading'
    BY <1>1, <1>2, <1>7, ReadingFrame
  <2> QED
    BY <1>5, <2>1, <2>2, <2>3 DEF ChatInv
<1>8. ASSUME NEW v \in Val \cup {Absent, Garbage}, Finish(w, Succeeded(v)),
             spoilt \/ v \in seen, UNCHANGED running
      PROVE  ChatInv'
  <2>1. buffer' = Succeeded(v) /\ future' = TRUE
    BY <1>8 DEF Finish
  <2>2. /\ Succeeded(v).to = recv_buff_client /\ Succeeded(v) \in Reply
        /\ Succeeded(v).state = "SUCCESS" /\ Succeeded(v).val = v
    BY <1>4 DEF Succeeded, Reply
  <2>3. Pooled' /\ Job' /\ Reading'
    BY <1>1, <1>2, <1>8, <2>2, FinishPools
  <2>4. ReplyIsCurrent'
    BY <1>2, <1>3, <1>8, <2>1, <2>2 DEF ReplyIsCurrent
  <2>5. Current'
    BY <1>1, <1>2, <1>6, <2>4 DEF Current
  <2>6. Types'
    BY <1>1, <1>2, <1>8, <2>1, <2>2 DEF Types, slot
  <2> QED
    BY <1>5, <2>3, <2>5, <2>6 DEF ChatInv
<1>9. ~spoilt => value[k] \in Val /\ value[k] \in seen
  BY <1>1, <1>3 DEF Current, Sight, Cached, CacheOK
<1> QED
  BY <1>7, <1>8, <1>9 DEF ReadValue

\* A step of a worker.
LEMMA WorkerPreserves ==
    ASSUME ChatInv, NEW w \in Worker, WorkerStep(w) \/ Spurious(w)
    PROVE  ChatInv'
<1>1. CASE PoolStep(w)
  BY <1>1, IdlePreserves, TakePreserves DEF PoolStep
<1>2. CASE LRU_handle_task(w)
  BY <1>2, ReadMissingPreserves, ReadFoundPreserves, WritePreserves DEF LRU_handle_task
<1>3. CASE ReadGet(w)
  BY <1>3, ReadGetPreserves
<1>4. CASE ReadValue(w)
  BY <1>4, ReadValuePreserves
<1>5. CASE Spurious(w)
  BY <1>5, IdlePreserves DEF Spurious
<1> QED
  BY <1>1, <1>2, <1>3, <1>4, <1>5 DEF WorkerStep

-----------------------------------------------------------------------------
(***************************************************************************)
(* The thread of cache_pass, and the clients.                              *)
(***************************************************************************)

\* A key migrates here: the history follows what the cache holds.
LEMMA MigrateInPreserves ==
    ASSUME ChatInv, NEW k \in Key, NEW v \in Val, MigrateIn(k, v)
    PROVE  ChatInv'
<1>1. /\ Types /\ Wired /\ CacheOK(order, value) /\ Pooled /\ Job /\ Own /\ Current
      /\ Reading
  BY DEF ChatInv
<1>2. /\ put(k, v) /\ seen' = seen \cup Sight(recv_buff_client)'
      /\ spoilt' = (spoilt \/ /\ \E w \in Worker : worker[w] = "read"
                              /\ recv_buff_client.key \notin ToSet(order') \ {k})
      /\ UNCHANGED <<running, chat, recv_buff_client, buffer, future, sockets,
                     answer, pool, slot>>
      /\ UNCHANGED <<peer, asks, fd, tasks, worker>>
  BY DEF MigrateIn, sockets, pool
<1>3. CacheOK(order', value')
  BY <1>1, <1>2, PutKeeps
<1>4. Sight(recv_buff_client)' \subseteq Val \cup {Absent}
  BY <1>3 DEF Sight, Cached, CacheOK
<1>5. Types'
  BY <1>1, <1>2, <1>4 DEF Types, slot
<1>6. Current'
  BY <1>1, <1>2 DEF Current, ReplyIsCurrent
<1>7. Wired' /\ Pooled' /\ Job' /\ Own'
  BY <1>1, <1>2, WiredFrame, PooledFrame, JobFrame, OwnFrame
<1>8. Reading'
  BY <1>1, <1>2 DEF Reading
<1> QED
  BY <1>3, <1>5, <1>6, <1>7, <1>8 DEF ChatInv

\* A key migrates away: it stays in the cache.
LEMMA MigrateOutPreserves ==
    ASSUME ChatInv, NEW k \in Key, MigrateOut(k)
    PROVE  ChatInv'
<1>1. /\ Types /\ Wired /\ CacheOK(order, value) /\ Pooled /\ Job /\ Own /\ Current
      /\ Reading
  BY DEF ChatInv
<1>2. /\ k \in ToSet(order) /\ get(k)
      /\ UNCHANGED <<running, chat, recv_buff_client, buffer, future, sockets,
                     answer, history, pool, slot>>
      /\ UNCHANGED <<peer, asks, fd, tasks, worker, seen, spoilt>>
  BY DEF MigrateOut, sockets, pool, history
<1>3. /\ CacheOK(order', value') /\ ToSet(order') = ToSet(order)
      /\ \A j : Cached(j)' = Cached(j)
  BY <1>1, <1>2, GetKeeps
<1>4. Current'
  <2>1. Sight(recv_buff_client)' = Sight(recv_buff_client)
    BY <1>2, <1>3 DEF Sight
  <2> QED
    BY <1>1, <1>2, <2>1 DEF Current, ReplyIsCurrent
<1>5. Types' /\ Wired' /\ Pooled' /\ Job' /\ Own'
  BY <1>1, <1>2, TypesFrame, WiredFrame, PooledFrame, JobFrame, OwnFrame
<1>6. Reading'
  BY <1>1, <1>2, <1>3, ReadingFrame
<1> QED
  BY <1>3, <1>4, <1>5, <1>6 DEF ChatInv

\* A step of a client leaves the server as it is.
LEMMA ClientFrame ==
    ASSUME ChatInv, UNCHANGED <<unmoved, answer>>, SocketTypes', Listening',
           \A d \in Client : Announced(d)', Own'
    PROVE  ChatInv'
<1>1. /\ Types /\ CacheOK(order, value) /\ Pooled /\ Job /\ Current /\ Reading
  BY DEF ChatInv
<1>2. UNCHANGED <<running, chat, recv_buff_client, buffer, future, batch, history, cache,
                  pool, slot, tasks, worker, order>>
  BY DEF unmoved, pool, cache
<1>3. Types' /\ CacheOK(order', value') /\ Pooled' /\ Job' /\ Current'
  BY <1>1, <1>2, TypesFrame, CacheFrame, PooledFrame, JobFrame, CurrentFrame
<1>4. Reading'
  BY <1>1, <1>2, ReadingFrame
<1> QED
  BY <1>3, <1>4 DEF ChatInv, Wired

\* A connection is made, which no event announced before.
LEMMA ConnectPreserves ==
    ASSUME ChatInv, NEW c \in Client, Connect(c)
    PROVE  ChatInv'
<1>1. /\ Types /\ Own /\ SocketTypes /\ Listening /\ \A d \in Client : Announced(d)
      /\ c # Listener /\ Listener \notin Client
  BY ChatAssumption DEF ChatInv, Wired
<1>2. /\ fd[c] = "none" /\ fd' = [fd EXCEPT ![c] = "queued"]
      /\ backlog' = Append(backlog, c) /\ events' = events \cup {Listener}
      /\ UNCHANGED <<unmoved, peer, asks, unread, answer>>
      /\ UNCHANGED <<batch, chat, recv_buff_client>>
  BY DEF Connect, unmoved
<1>3. backlog \in Seq(Client) /\ NoRepeat(backlog) /\ c \notin ToSet(backlog)
  BY <1>1, <1>2 DEF SocketTypes, Listening, Announced
<1>4. /\ backlog' \in Seq(Client) /\ NoRepeat(backlog') /\ backlog' # <<>>
      /\ ToSet(backlog') = ToSet(backlog) \cup {c}
      /\ backlog # <<>> => Tail(backlog') # <<>>
  BY <1>2, <1>3, AppendElements
<1>5. SocketTypes'
  BY <1>1, <1>2, <1>4 DEF SocketTypes
<1>6. Listening'
  BY <1>1, <1>2, <1>4 DEF Listening
<1>7. ASSUME NEW d \in Client
      PROVE  Announced(d)'
  <2>1. Announced(d) /\ fd \in [Client -> {"none", "queued", "open"}] /\ d # Listener
    BY <1>1 DEF SocketTypes
  <2> QED
    BY <1>2, <1>4, <2>1 DEF Announced
<1>8. Own'
  BY <1>1, <1>2 DEF Own, ReplyIsOwn, Types, SocketTypes
<1> QED
  BY <1>2, <1>5, <1>6, <1>7, <1>8, ClientFrame

\* A client sends its request: no event has announced it before.
LEMMA SendPreserves ==
    ASSUME ChatInv, NEW c \in Client, NEW r \in Request, Send(c, r)
    PROVE  ChatInv'
<1>1. /\ Types /\ Own /\ Job /\ SocketTypes /\ Listening
      /\ \A d \in Client : Announced(d) /\ d # Listener
  BY ChatAssumption DEF ChatInv, Wired
<1>2. /\ fd[c] # "none" /\ peer[c] = "alive" /\ asks[c] = Silent
      /\ asks' = [asks EXCEPT ![c] = r] /\ unread' = unread \cup {c}
      /\ events' = events \cup {d \in {c} : fd[c] = "open"}
      /\ UNCHANGED <<unmoved, backlog, fd, peer, answer>>
      /\ UNCHANGED <<batch, chat, recv_buff_client>>
  BY DEF Send, Arrive, unmoved
<1>3. c \notin events \cup batch
  BY <1>1, <1>2 DEF Announced
<1>4. SocketTypes'
  BY <1>1, <1>2 DEF SocketTypes
<1>5. Listening'
  BY <1>1, <1>2 DEF Listening
<1>6. ASSUME NEW d \in Client
      PROVE  Announced(d)'
  <2>1. Announced(d) /\ asks \in [Client -> Request \cup {Silent}] /\ r # Silent
    BY <1>1, Operations DEF SocketTypes
  <2>2. CASE d = c
    BY <1>2, <1>3, <2>1, <2>2 DEF Announced
  <2>3. CASE d # c
    BY <1>2, <2>1, <2>3 DEF Announced
  <2> QED
    BY <2>2, <2>3
<1>7. Own'
  <2>1. chat # c
    BY <1>1, <1>2, ChatAssumption DEF Own, Job
  <2> QED
    BY <1>1, <1>2, <2>1 DEF Own, ReplyIsOwn, SocketTypes
<1> QED
  BY <1>2, <1>4, <1>5, <1>6, <1>7, ClientFrame

\* A client ends.
LEMMA GonePreserves ==
    ASSUME ChatInv, NEW c \in Client, Leave(c) \/ Abandon(c)
    PROVE  ChatInv'
<1>1. /\ Types /\ Own /\ SocketTypes /\ Listening
      /\ \A d \in Client : Announced(d) /\ d # Listener
  BY ChatAssumption DEF ChatInv, Wired
<1>2. /\ events' = events \cup {d \in {c} : fd[c] = "open"}
      /\ UNCHANGED <<unmoved, backlog, fd, asks, unread, answer>>
      /\ UNCHANGED <<batch, chat, recv_buff_client>>
  BY DEF Leave, Abandon, Arrive, unmoved
<1>3. PICK how \in {"fin", "rst"} : peer' = [peer EXCEPT ![c] = how]
  BY DEF Leave, Abandon
<1>4. /\ peer' \in [Client -> {"alive", "fin", "rst"}] /\ peer'[c] # "alive"
      /\ \A d \in Client : d # c => peer'[d] = peer[d]
  BY <1>1, <1>3 DEF SocketTypes
<1>5. SocketTypes'
  BY <1>1, <1>2, <1>4 DEF SocketTypes
<1>6. Listening'
  BY <1>1, <1>2 DEF Listening
<1>7. ASSUME NEW d \in Client
      PROVE  Announced(d)'
  <2>1. Announced(d)
    BY <1>1
  <2>2. CASE d = c
    BY <1>2, <1>4, <2>1, <2>2 DEF Announced
  <2>3. CASE d # c
    BY <1>2, <1>4, <2>1, <2>3 DEF Announced
  <2> QED
    BY <2>2, <2>3
<1>8. Own'
  BY <1>1, <1>2, <1>4 DEF Own, ReplyIsOwn, Types
<1> QED
  BY <1>2, <1>5, <1>6, <1>7, <1>8, ClientFrame

-----------------------------------------------------------------------------
(***************************************************************************)
(* The theorems.                                                           *)
(***************************************************************************)

\* A server starts with idle workers and no connection.
LEMMA InitChat ==
    ASSUME Init
    PROVE  ChatInv
<1>1. /\ order = <<>> /\ value = [k \in {} |-> k] /\ tasks = <<>> /\ backlog = <<>>
      /\ worker = [w \in Worker |-> Awake] /\ numActiveThreads = 0
  BY DEF Init, PoolInit
<1>2. ToSet(<<>>) = {}
  BY DEF ToSet
<1>3. CacheOK(order, value)
  BY <1>1, <1>2 DEF CacheOK, NoRepeat
<1>4. Pooled
  <2>1. Active(worker) = {} /\ worker \in [Worker -> WorkerPlace]
    BY <1>1 DEF Active, WorkerPlace
  <2>2. Cardinality(Active(worker)) = 0
    BY <2>1, FS_EmptySet
  <2>3. tasks \in Seq(Client)
    BY <1>1
  <2> QED
    BY <1>1, <2>1, <2>2, <2>3 DEF Pooled, PoolOK
<1>5. Job /\ Reading
  <2>1. Busy(worker) = {} /\ \A w \in Worker : worker[w] \notin {"found", "read"}
    BY <1>1, WorkerPlaces DEF Busy
  <2> QED
    BY <1>1, <2>1 DEF Job, Reading, Init
<1>6. Own
  BY DEF Own, ReplyIsOwn, Init
<1>7. Current
  BY Operations DEF Current, ReplyIsCurrent, Sight, Init
<1>8. Types
  BY DEF Types, Init
<1>9. Wired
  BY <1>1, <1>2 DEF Wired, SocketTypes, Listening, Announced, NoRepeat, Init
<1> QED
  BY <1>3, <1>4, <1>5, <1>6, <1>7, <1>8, <1>9 DEF ChatInv

\* Every step keeps the invariant.
LEMMA NextChat ==
    ASSUME ChatInv, [Next]_vars
    PROVE  ChatInv'
<1>1. CASE Chat
  BY <1>1, EpollPreserves, AcceptPreserves, SendReplyPreserves, RecvPreserves DEF Chat
<1>2. CASE \E w \in Worker : WorkerStep(w) \/ Spurious(w)
  BY <1>2, WorkerPreserves
<1>3. CASE \E k \in Key : MigrateOut(k) \/ \E v \in Val : MigrateIn(k, v)
  BY <1>3, MigrateOutPreserves, MigrateInPreserves
<1>4. CASE \E c \in Client : Come(c) \/ Abandon(c)
  BY <1>4, ConnectPreserves, SendPreserves, GonePreserves DEF Come
<1>5. CASE UNCHANGED vars
  <2>1. UNCHANGED <<running, chat, recv_buff_client, buffer, future, slot, answer, history,
                    sockets, cache, pool, tasks, worker, peer, asks, fd, order>>
    BY <1>5 DEF vars, pool, sockets, cache
  <2> QED
    BY <2>1, ReadingFrame, TypesFrame, WiredFrame, CacheFrame, PooledFrame, JobFrame, OwnFrame,
       CurrentFrame DEF ChatInv
<1> QED
  BY <1>1, <1>2, <1>3, <1>4, <1>5 DEF Next

\* The invariant holds throughout.
LEMMA AlwaysChat == Spec => []ChatInv
BY InitChat, NextChat, PTL DEF Spec

\* The state of Client_chat has its type, and numActiveThreads counts the
\* workers that have taken a task and not yet counted it off.
THEOREM ChatTypeCorrect == Spec => []TypeOK
<1>1. ChatInv => TypeOK
  BY DEF ChatInv, Types, Wired, SocketTypes, CacheOK, Pooled, PoolOK, Active, WorkerPlace,
         TypeOK
<1> QED
  BY <1>1, AlwaysChat, PTL

\* No client gets a reply to another request than its own, with any number of
\* connections and workers that share the string buffer.
THEOREM ChatReplyIsOwn == Spec => []ReplyIsOwn
<1>1. ChatInv => ReplyIsOwn
  BY DEF ChatInv, Own
<1> QED
  BY <1>1, AlwaysChat, PTL

\* A reply to a read is true of some moment since the request was received,
\* whatever migrates between check(), get() and the reading of the value after
\* the unlock: only a put or an eviction of that very node in the last of these
\* can make it something else.
THEOREM ChatReplyIsCurrent == Spec => []ReplyIsCurrent
<1>1. ChatInv => ReplyIsCurrent
  BY DEF ChatInv, Current
<1> QED
  BY <1>1, AlwaysChat, PTL
=============================================================================
