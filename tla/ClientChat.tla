----------------------------- MODULE ClientChat -----------------------------
(***************************************************************************)
(* How a cache server answers its clients: Client_chat of                  *)
(* cache/src/cache.cpp.  One thread waits for events of the listening      *)
(* socket and of the connections, hands each request to the thread pool,   *)
(* waits for the task's future, and sends what the task has left in the    *)
(* string buffer, which the two share.  Meanwhile the thread of cache_pass *)
(* puts keys that migrate here, and reads those that migrate away, in the  *)
(* same cache.                                                             *)
(*                                                                         *)
(* The cache is the abstract one that LRUCache implements, except that     *)
(* get() reads the value after it has unlocked the cache.  The sockets are *)
(* edge-triggered: an event is reported once, when something arrives.      *)
(* Requests arrive whole.  The slot kv_to_replica is written and never     *)
(* read: the thread that would send it to the backup is not started.       *)
(***************************************************************************)
EXTENDS ThreadPool, Lists

CONSTANTS
    Key, Val, Capacity,
    Asked,    \* the keys that clients ask for; others migrate only
    Client,   \* connections, each used again after it is closed
    Listener, \* the listening socket
    Absent,   \* no value: what get() returns, as an empty string, for no key
    Garbage   \* a value that nobody has put

ASSUME ChatAssumption ==
    /\ Capacity \in Nat \ {0} /\ Asked \subseteq Key
    /\ Listener \notin Client /\ "wait" \notin Client
    /\ Absent \notin Val /\ Garbage \notin Val \cup {Absent}
    /\ {"task", "found", "read"} \cap {Asleep, Awake, After} = {}

VARIABLES
    running,
    chat,             \* "wait", or the client whose request is with the pool
    recv_buff_client, \* the request, read by the task through a pointer
    buffer, future,   \* the reply of the task, and whether it is ready
    kv_to_replica, kv_update_flag,
    events, batch,    \* reported by the kernel; fetched by epoll_wait
    backlog,          \* connections not accepted
    fd,               \* client -> "none", "queued", "open"
    peer,             \* client -> "alive", "fin", "rst"
    asks,             \* client -> its request, or Silent
    unread,           \* the clients whose request is not received
    answer,           \* client -> "none", or its reply is its "own" or a "foreign"
    order, value,     \* MainCache
    seen,             \* history: values of the requested key since recv()
    spoilt            \* history: its node was put or evicted as it was read

sockets == <<events, batch, backlog, fd, peer, asks, unread>>
cache == <<order, value>>
slot == <<kv_to_replica, kv_update_flag>>
history == <<seen, spoilt>>
vars == <<running, chat, recv_buff_client, buffer, future, slot, answer, history,
          sockets, cache, pool>>

Silent == [op |-> "none"]
Empty == [op |-> "empty"]
Request == [op : {"get"}, key : Asked] \cup [op : {"put"}, key : Asked, val : Val]
Reply ==
    [state : {"SUCCESS"}, to : Request \cup {Empty}, val : Val \cup {Absent, Garbage}]
      \cup [state : {"FAILED"}, to : Request \cup {Empty}]

\* buffer before the first reply
NoReply == [state |-> "", to |-> Silent]

Cached(k) == IF k \in ToSet(order) THEN value[k] ELSE Absent

\* What LRUCache promises: get() and put() on order and value.
Main == INSTANCE LRU WITH latest <- value

get(k) == order' = Main!Touched(order, k) /\ UNCHANGED value

put(k, v) ==
    /\ order' = Main!Kept(order, k)
    /\ value' = [j \in ToSet(order') |-> IF j = k THEN v ELSE value[j]]

\* What a request to read finds if it is answered now.
Sight(request) == IF request.op = "get" THEN {Cached(request.key)} ELSE {}

-----------------------------------------------------------------------------
(***************************************************************************)
(* The thread of Client_chat.                                              *)
(***************************************************************************)

epoll_wait ==
    /\ running /\ chat = "wait" /\ batch = {} /\ events # {}
    /\ batch' = events /\ events' = {}
    /\ UNCHANGED <<running, chat, recv_buff_client, buffer, future, backlog, fd,
                   peer, asks, unread, answer, history, cache, pool, slot>>

\* One connection is accepted for one event, though more may wait.  addfd
\* reports at once what has arrived on it.
Accept ==
    /\ running /\ chat = "wait" /\ Listener \in batch
    /\ batch' = batch \ {Listener}
    /\ backlog' = Tail(backlog)
    /\ LET c == Head(backlog)
       IN  /\ fd' = [fd EXCEPT ![c] = "open"]
           /\ events' = events \cup
                 {d \in {c} : c \in unread \/ peer[c] # "alive"}
    /\ UNCHANGED <<running, chat, recv_buff_client, buffer, future, peer, asks,
                   unread, answer, history, cache, pool, slot>>

\* recv() and the hand-over to the pool, up to get_port.
Submit(c, request) ==
    /\ recv_buff_client' = request
    /\ chat' = c
    /\ Enqueue(c)
    /\ seen' = Sight(request)
    /\ UNCHANGED <<spoilt, cache, events, fd, peer, asks, answer,
                   numActiveThreads>>

\* len == 0
Close(c) ==
    /\ fd' = [fd EXCEPT ![c] = "none"]
    /\ peer' = [peer EXCEPT ![c] = "alive"]
    /\ asks' = [asks EXCEPT ![c] = Silent]
    /\ answer' = [answer EXCEPT ![c] = "none"]
    /\ events' = events \ {c}
    /\ UNCHANGED <<chat, recv_buff_client, history, cache, pool>>

\* An event of a connection.  len is positive for a request, 0 at the end, and
\* -1 after a reset or when there is nothing to read: a request all the same,
\* of no characters.
Recv(c) ==
    /\ running /\ chat = "wait" /\ c \in batch
    /\ batch' = batch \ {c}
    /\ unread' = unread \ {c}
    /\ \/ c \in unread /\ Submit(c, asks[c])
       \/ c \notin unread /\ peer[c] = "fin" /\ Close(c)
       \/ c \notin unread /\ peer[c] # "fin" /\ Submit(c, Empty)
    /\ UNCHANGED <<running, buffer, future, backlog, slot>>

\* A plausible bug: the reply is sent without waiting for the task.
ReadyAlways == chat # "wait"

\* get_port returns.
Ready == chat # "wait" /\ future

\* The reply is sent to the client of the event at hand.  To one that has
\* closed, it provokes a reset, which is an event; after a reset, send()
\* raises SIGPIPE.
SendReply ==
    /\ running /\ Ready
    /\ running' = (peer[chat] # "rst")
    /\ answer' = IF peer[chat] # "alive" THEN answer
                 ELSE [answer EXCEPT ![chat] =
                         IF buffer.to = asks[chat] THEN "own"
                         ELSE "foreign"]
    /\ events' = events \cup {c \in {chat} : peer[c] = "fin"}
    /\ chat' = "wait" /\ future' = FALSE
    /\ recv_buff_client' = Silent /\ seen' = {} /\ spoilt' = FALSE
    /\ kv_to_replica' = recv_buff_client /\ kv_update_flag' = TRUE
    /\ UNCHANGED <<buffer, batch, backlog, fd, peer, asks, unread, cache, pool>>

-----------------------------------------------------------------------------
(***************************************************************************)
(* LRU_handle_task, on a worker.                                           *)
(***************************************************************************)

\* A task ends: the reply is in buffer and the future is ready.
Finish(w, reply) ==
    /\ buffer' = reply
    /\ future' = TRUE
    /\ worker' = [worker EXCEPT ![w] = After]

Succeeded(val) == [state |-> "SUCCESS", to |-> recv_buff_client, val |-> val]
Failed == [state |-> "FAILED", to |-> recv_buff_client]

\* A plausible bug: there is no check(), and get() returns an empty string.
ReadMissingUnchecked(w) ==
    /\ recv_buff_client.op # "put" /\ Sight(recv_buff_client) \subseteq {Absent}
    /\ Finish(w, Succeeded(Absent))
    /\ UNCHANGED cache

\* check() does not find the key.
ReadMissing(w) ==
    /\ recv_buff_client.op # "put" /\ Sight(recv_buff_client) \subseteq {Absent}
    /\ Finish(w, Failed)
    /\ UNCHANGED cache

\* check() finds the key.
ReadFound(w) ==
    /\ recv_buff_client.op = "get" /\ Cached(recv_buff_client.key) # Absent
    /\ worker' = [worker EXCEPT ![w] = "found"]
    /\ UNCHANGED <<buffer, future, cache>>

Write(w) ==
    /\ recv_buff_client.op = "put"
    /\ put(recv_buff_client.key, recv_buff_client.val)
    /\ Finish(w, Succeeded(Absent))

LRU_handle_task(w) ==
    /\ worker[w] = "task"
    /\ ReadMissing(w) \/ ReadFound(w) \/ Write(w)
    /\ UNCHANGED <<running, chat, recv_buff_client, sockets, answer, history, tasks,
                   numActiveThreads, slot>>

\* get(), up to its unlock(): it returns an empty string if the key has gone
\* since check().
ReadGet(w) ==
    LET k == recv_buff_client.key
    IN  /\ worker[w] = "found"
        /\ \/ /\ k \notin ToSet(order)
              /\ Finish(w, Succeeded(Absent))
              /\ UNCHANGED cache
           \/ /\ k \in ToSet(order) /\ get(k)
              /\ worker' = [worker EXCEPT ![w] = "read"]
              /\ UNCHANGED <<buffer, future>>
        /\ UNCHANGED <<running, chat, recv_buff_client, sockets, answer, history,
                       tasks, numActiveThreads, slot>>

\* return node->val, after the unlock.  If the node has been deleted or its
\* value assigned in the meantime, the copy is of anything, or fails.
ReadValue(w) ==
    /\ worker[w] = "read"
    /\ \/ /\ ~spoilt
          /\ Finish(w, Succeeded(value[recv_buff_client.key]))
          /\ UNCHANGED running
       \/ /\ spoilt
          /\ \E v \in Val \cup {Absent, Garbage} : Finish(w, Succeeded(v))
          /\ UNCHANGED running
       \/ /\ spoilt
          /\ running' = FALSE
          /\ UNCHANGED <<buffer, future, worker>>
    /\ UNCHANGED <<chat, recv_buff_client, sockets, answer, history, tasks,
                   numActiveThreads, slot, cache>>

\* A step of the pool.
PoolStep(w) ==
    /\ \/ Sleep(w)
       \/ Take(w, "task")
       \/ after_task_hook(w)
    /\ UNCHANGED <<running, chat, recv_buff_client, buffer, future, sockets,
                   answer, history, cache, slot>>

WorkerStep(w) ==
    running /\ (PoolStep(w) \/ LRU_handle_task(w) \/ ReadGet(w) \/ ReadValue(w))

Spurious(w) ==
    /\ running /\ WakeUp(w)
    /\ UNCHANGED <<running, chat, recv_buff_client, buffer, future, sockets,
                   answer, history, cache, slot>>

-----------------------------------------------------------------------------
(***************************************************************************)
(* The thread of cache_pass, and the clients.                              *)
(***************************************************************************)

\* from_single_cache puts a key that has migrated.
MigrateIn(k, v) ==
    /\ running /\ put(k, v)
    /\ UNCHANGED <<running, chat, recv_buff_client, buffer, future, sockets,
                   answer, pool, slot>>
    /\ seen' = seen \cup Sight(recv_buff_client)'
    /\ spoilt' = (spoilt \/ /\ \E w \in Worker : worker[w] = "read"
                            /\ recv_buff_client.key \notin ToSet(order') \ {k})

\* to_single_cache reads a key that migrates.
MigrateOut(k) ==
    /\ running /\ k \in ToSet(order) /\ get(k)
    /\ UNCHANGED <<running, chat, recv_buff_client, buffer, future, sockets,
                   answer, history, pool, slot>>

unmoved == <<running, chat, recv_buff_client, buffer, future, batch, history,
             cache, pool, slot>>

Connect(c) ==
    /\ running /\ fd[c] = "none"
    /\ fd' = [fd EXCEPT ![c] = "queued"]
    /\ backlog' = Append(backlog, c)
    /\ events' = events \cup {Listener}
    /\ UNCHANGED <<unmoved, peer, asks, unread, answer>>

\* Something arrives from c: an event, once c is known to epoll.
Arrive(c) == events' = events \cup {d \in {c} : fd[c] = "open"}

\* A client sends one request on a connection.
Send(c, request) ==
    /\ running /\ fd[c] # "none" /\ peer[c] = "alive" /\ asks[c] = Silent
    /\ asks' = [asks EXCEPT ![c] = request]
    /\ unread' = unread \cup {c}
    /\ Arrive(c)
    /\ UNCHANGED <<unmoved, backlog, fd, peer, answer>>

\* A client that has its answer closes; if it has not read all of it, the
\* connection is reset.
Leave(c) ==
    /\ running /\ peer[c] = "alive" /\ answer[c] # "none"
    /\ \E how \in {"fin", "rst"} : peer' = [peer EXCEPT ![c] = how]
    /\ Arrive(c)
    /\ UNCHANGED <<unmoved, backlog, fd, asks, unread, answer>>

\* A client ends without an answer.
Abandon(c) ==
    /\ running /\ fd[c] # "none" /\ peer[c] = "alive" /\ answer[c] = "none"
    /\ peer' = [peer EXCEPT ![c] = "fin"]
    /\ Arrive(c)
    /\ UNCHANGED <<unmoved, backlog, fd, asks, unread, answer>>

-----------------------------------------------------------------------------
Init ==
    /\ running = TRUE /\ chat = "wait"
    /\ recv_buff_client = Silent /\ buffer = NoReply /\ future = FALSE
    /\ events = {} /\ batch = {} /\ backlog = <<>>
    /\ fd = [c \in Client |-> "none"]
    /\ peer = [c \in Client |-> "alive"]
    /\ asks = [c \in Client |-> Silent]
    /\ unread = {} /\ answer = [c \in Client |-> "none"]
    /\ order = <<>> /\ value = [k \in {} |-> k]
    /\ seen = {} /\ spoilt = FALSE /\ kv_to_replica = Silent /\ kv_update_flag = FALSE
    /\ PoolInit

Chat == epoll_wait \/ Accept \/ SendReply \/ \E c \in Client : Recv(c)

Come(c) == Connect(c) \/ (\E r \in Request : Send(c, r)) \/ Leave(c)

Next ==
    \/ Chat
    \/ \E w \in Worker : WorkerStep(w) \/ Spurious(w)
    \/ \E k \in Key : MigrateOut(k) \/ \E v \in Val : MigrateIn(k, v)
    \/ \E c \in Client : Come(c) \/ Abandon(c)

Spec == Init /\ [][Next]_vars

\* The threads run, and clients keep coming: each connects, asks, closes once
\* answered, and connects again.
FairSpec ==
    /\ Spec /\ WF_vars(Chat)
    /\ \A w \in Worker : WF_vars(WorkerStep(w))
    /\ WF_vars(\E c \in Client : Come(c))

-----------------------------------------------------------------------------
(***************************************************************************)
(* Properties.                                                             *)
(***************************************************************************)

\* The type of the state; and the pool counts the tasks that run.
TypeOK ==
    /\ running \in BOOLEAN /\ chat \in Client \cup {"wait"}
    /\ recv_buff_client \in Request \cup {Empty, Silent}
    /\ buffer \in Reply \cup {NoReply} /\ future \in BOOLEAN
    /\ events \subseteq Client \cup {Listener} /\ batch \subseteq Client \cup {Listener}
    /\ backlog \in Seq(Client)
    /\ fd \in [Client -> {"none", "queued", "open"}]
    /\ peer \in [Client -> {"alive", "fin", "rst"}]
    /\ asks \in [Client -> Request \cup {Silent}] /\ unread \subseteq Client
    /\ answer \in [Client -> {"none", "own", "foreign"}]
    /\ kv_to_replica \in Request \cup {Empty, Silent} /\ kv_update_flag \in BOOLEAN
    /\ order \in Seq(Key) /\ value \in [ToSet(order) -> Val]
    /\ seen \subseteq Val \cup {Absent} /\ spoilt \in BOOLEAN
    /\ tasks \in Seq(Client)
    /\ worker \in [Worker -> {Asleep, Awake, After, "task", "found", "read"}]
    /\ numActiveThreads =
         Cardinality({w \in Worker : worker[w] \notin {Asleep, Awake}})

\* A client gets the reply to its own request, though all replies pass through
\* one string that the workers share: no reply of an earlier task, and none to
\* an event that had no request behind it.
ReplyIsOwn == \A c \in Client : answer[c] # "foreign"

\* A reply to a read is true of some moment since the request was received,
\* whatever migrated in between check(), get() and the reading of the value:
\* the value returned is one the key had then, FAILED means that it was not
\* there, and SUCCESS with an empty value that it was and then was not.  The
\* exception is a put or an eviction of the very node that is being read.
ReplyIsCurrent ==
    chat # "wait" /\ future /\ recv_buff_client.op = "get" =>
        IF buffer.state = "SUCCESS"
        THEN spoilt \/ (buffer.val \in seen /\ seen \cap Val # {})
        ELSE buffer.state = "FAILED" /\ Absent \in seen

\* A request is answered, if its client stays and the server does, also one
\* whose connection was left in the backlog when two came at once, since
\* other connections follow.
RequestIsAnswered ==
    \A c \in Client :
        asks[c] # Silent /\ peer[c] = "alive"
          ~> answer[c] # "none" \/ peer[c] # "alive" \/ ~running
=============================================================================
