----------------------------- MODULE CacheServer -----------------------------
(***************************************************************************)
(* The cache servers of cache/src/cache.cpp: how each one follows the      *)
(* master's broadcasts, and how one that is retired hands its keys to the  *)
(* others.                                                                 *)
(*                                                                         *)
(* A server runs a heartbeat timer, which takes one message from the       *)
(* master per tick (Initial, ReadFromMaster, then KillEnd), and a thread   *)
(* cache_pass (the actions Pass...).                                       *)
(* They share status_, dying_cache_IP_ and cache_list with no lock.        *)
(*                                                                         *)
(* The master is reduced to its vector of primaries, its ring and what it  *)
(* broadcasts; Master models the rest, the races between its own threads   *)
(* included.  Servers start once.  The replication thread is not modelled: *)
(* Start() does not start it.                                              *)
(*                                                                         *)
(* connect(), get() and send() of one key are one step of the sender, and  *)
(* accept(), recv() and put() one of the receiver.  A sender that dies     *)
(* between its connect() and its send(), which leaves the receiver with a  *)
(* buffer nobody has written, is left out.  That a sender sleeps for four  *)
(* seconds before it connects is not relied on.                            *)
(***************************************************************************)
EXTENDS ConsistentHash, SequencesExt

CONSTANTS
    PCache,      \* servers started as primaries
    RCache,      \* servers started as backups
    NoCache,     \* no server
    Key,
    Hash,        \* key -> its hash
    Capacity,    \* how many keys MainCache holds
    MaxPuts,     \* bound: how many times clients put a key
    MaxShrinks,  \* bound: how many times 's' is typed
    MaxFails     \* bound: how many servers stop for a reason of their own

Cache == PCache \cup RCache

ASSUME ServerAssumption ==
    /\ PCache \cap RCache = {} /\ NoCache \notin Cache
    /\ IsFiniteSet(Key) /\ Hash \in [Key -> HashSpace]
    /\ 0 \in Shard /\ VNode # {}
    /\ Capacity \in Nat \ {0}
    /\ MaxPuts \in Nat /\ MaxShrinks \in Nat /\ MaxFails \in Nat

VARIABLES
    members,     \* master: fd_node
    shrinking,   \* master: the primary whose end shrinkageCapacity waits for
    shrinks,     \* master: shrinks so far
    started,     \* the servers that have been started
    alive,       \* the ones that run
    fails,       \* failures so far
    inbox,       \* server -> messages from the master, oldest first
    initial_flag, status_, dying_cache, cache_list,  \* by server
    killing,     \* servers between the two halves of a K for themselves
    store,       \* server -> key -> which put's value MainCache has; 0 for none
    conn,        \* server -> the key and value that its accept() will return
    thread,      \* server -> where cache_pass is
    out_key,     \* server -> the keys it still has to send
    replaced,    \* history: a backup has taken over
    disturbed,   \* history: a member failed, left or came during a shrink
    newest,      \* history: key -> the number of puts so far
    late,        \* history: keys put on a dying server that will not send them
    early,       \* history: keys put elsewhere before a dying server sent them
    orphaned,    \* history: keys put before a primary was lost
    evicted,     \* history: keys that some cache dropped when it was full
    unsent       \* history: keys that a dying server sent to nobody

master == <<ringVars, members, shrinking, shrinks>>
view == <<initial_flag, status_, dying_cache, cache_list, killing>>
passing == <<store, thread, out_key, conn>>
puts == <<newest, late, early, orphaned, evicted>>
history == <<replaced, disturbed, puts, unsent>>
servers == <<started, fails>>
vars == <<master, servers, alive, inbox, view, passing, history>>

\* What get() returns for a key that is gone, as the value of a key.
Blank == -1

Value == Blank .. MaxPuts

Message ==
    [kind : {"list"}, all : Seq(Cache)] \cup [kind : {"N", "K", "D", "C"}, who : Cache]
      \cup [kind : {"P"}]

-----------------------------------------------------------------------------
(***************************************************************************)
(* The master's side.                                                      *)
(***************************************************************************)

\* The master sends msg to every server in S; those that run may read it.
Broadcast(S, msg) ==
    [c \in Cache |-> IF c \in S \cap alive THEN Append(inbox[c], msg) ELSE inbox[c]]

\* A change of membership while a shrink waits.
Disturb == disturbed' = (disturbed \/ shrinking # NoCache)

\* A primary starts and registers: it gets the whole list, then everyone,
\* itself included, gets the new address.
Join(c) ==
    /\ c \in PCache \ started
    /\ LET all == Append(members, c)
       IN  /\ members' = all
           /\ inbox' = [Broadcast(ToSet(members), [kind |-> "N", who |-> c])
                          EXCEPT ![c] = <<[kind |-> "list", all |-> all],
                                          [kind |-> "N", who |-> c]>>]
    /\ addNode(Len(members))
    /\ started' = started \cup {c} /\ alive' = alive \cup {c}
    /\ Disturb
    /\ UNCHANGED <<shrinking, shrinks, fails, view, passing, replaced, puts,
                   unsent>>

\* A backup starts and registers; its status_ is R from the constructor on.
StandBy(c) ==
    /\ c \in RCache \ started
    /\ started' = started \cup {c} /\ alive' = alive \cup {c}
    /\ UNCHANGED <<master, fails, inbox, view, passing, history>>

\* The detector replaces a primary that has stopped by a backup.
Failover(p, r) ==
    /\ p \in ToSet(members) \ (alive \cup {shrinking})
    /\ r \in (RCache \cap started) \ ToSet(members)
    /\ LET all == [i \in 1 .. Len(members) |->
                     IF members[i] = p THEN r ELSE members[i]]
       IN  /\ members' = all
           /\ inbox' = Broadcast(ToSet(all), [kind |-> "C", who |-> p])
    /\ replaced' = TRUE /\ Disturb
    /\ UNCHANGED <<ringVars, shrinking, shrinks, servers, alive, view, passing,
                   puts, unsent>>

\* The answer to the first heartbeat after a promotion.  Answers that tell a
\* server what it is already change nothing and are left out.
AnswerPrimary(r) ==
    /\ r \in RCache \cap ToSet(members) \cap alive /\ status_[r] = "R"
    /\ [kind |-> "P"] \notin ToSet(inbox[r])
    /\ inbox' = Broadcast({r}, [kind |-> "P"])
    /\ UNCHANGED <<master, servers, alive, view, passing, history>>

\* The detector removes a primary that has stopped and has no backup.
Lost(p) ==
    /\ p \in ToSet(members) \ (alive \cup {shrinking})
    /\ LET place == CHOOSE i \in 1 .. Len(members) : members[i] = p
           rest == RemoveAt(members, place)
       IN  /\ members' = rest
           /\ deleteNode(place - 1)
           /\ inbox' = Broadcast(ToSet(rest), [kind |-> "D", who |-> p])
    /\ Disturb
    /\ orphaned' = orphaned \cup {k \in Key : newest[k] # 0}
    /\ UNCHANGED <<shrinking, shrinks, servers, alive, view, passing, replaced,
                   newest, late, early, evicted, unsent>>

\* 's': the last primary leaves the ring, and all are told.
ShrinkBegin ==
    /\ shrinking = NoCache /\ shrinks < MaxShrinks /\ members # <<>>
    /\ deleteNode(Len(members) - 1)
    /\ shrinking' = Last(members) /\ shrinks' = shrinks + 1
    /\ inbox' = Broadcast(ToSet(members), [kind |-> "K", who |-> Last(members)])
    /\ disturbed' = (disturbed \/ ~(ToSet(members) \subseteq alive))
    /\ UNCHANGED <<members, servers, alive, view, passing, replaced, puts,
                   unsent>>

\* Its heartbeats have stopped.
ShrinkEnd ==
    /\ shrinking \in Cache \ alive
    /\ members' = Front(members) /\ shrinking' = NoCache
    /\ UNCHANGED <<ringVars, shrinks, servers, alive, inbox, view, passing,
                   history>>

-----------------------------------------------------------------------------
(***************************************************************************)
(* The heartbeat timer of server c.                                        *)
(***************************************************************************)

\* The process of c ends, and its memory and its sockets go: what it had yet
\* to send, and what was on its way to it.  The keys stay in store for
\* reference.
Dies(c) ==
    /\ alive' = alive \ {c}
    /\ inbox' = [inbox EXCEPT ![c] = <<>>]
    /\ initial_flag' = [initial_flag EXCEPT ![c] = FALSE]
    /\ dying_cache' = [dying_cache EXCEPT ![c] = NoCache]
    /\ cache_list' = [cache_list EXCEPT ![c] = <<>>]
    /\ killing' = killing \ {c}
    /\ thread' = [thread EXCEPT ![c] = "ended"]
    /\ out_key' = [out_key EXCEPT ![c] = {}]
    /\ conn' = [conn EXCEPT ![c] = {}]
    /\ unsent' = unsent \cup {e.key : e \in out_key[c]}
                        \cup {m.key : m \in conn[c]}
    /\ UNCHANGED <<status_, store>>

\* c stops for a reason of its own.
Fail(c) ==
    /\ c \in alive /\ fails < MaxFails
    /\ Dies(c) /\ Disturb
    /\ fails' = fails + 1
    /\ UNCHANGED <<master, started, replaced, puts>>

\* A tick of c receives a message of this kind.
Gets(c, kind) ==
    /\ c \in alive \ killing
    /\ inbox[c] # <<>> /\ Head(inbox[c]).kind = kind

Taken(c) == inbox' = [inbox EXCEPT ![c] = Tail(@)]

\* A plausible bug: a server leaves its own address out.
InitialOthers(c) ==
    /\ Gets(c, "list") /\ ~initial_flag[c]
    /\ Taken(c)
    /\ initial_flag' = [initial_flag EXCEPT ![c] = TRUE]
    /\ cache_list' = [cache_list EXCEPT ![c] = @ \o Remove(Head(inbox[c]).all, c)]
    /\ UNCHANGED <<master, servers, alive, status_, dying_cache, killing,
                   passing, history>>

\* initial(): a primary fills its cache_list.
Initial(c) ==
    /\ Gets(c, "list") /\ ~initial_flag[c]
    /\ Taken(c)
    /\ initial_flag' = [initial_flag EXCEPT ![c] = TRUE]
    /\ cache_list' = [cache_list EXCEPT ![c] = @ \o Head(inbox[c]).all]
    /\ UNCHANGED <<master, servers, alive, status_, dying_cache, killing,
                   passing, history>>

\* ReadFromMaster handles a message of this kind; a dying server ignores all.
Reads(c, kind) == Gets(c, kind) /\ initial_flag[c] /\ status_[c] # "K"

Ignore(c) ==
    /\ \E kind \in {"N", "K", "D", "C", "P"} : Gets(c, kind)
    /\ status_[c] = "K"
    /\ Taken(c)
    /\ UNCHANGED <<master, servers, alive, view, passing, history>>

\* A plausible bug: a server adds itself again.
ReadNewAlways(c) ==
    /\ Reads(c, "N")
    /\ Taken(c)
    /\ cache_list' = [cache_list EXCEPT ![c] = Append(@, Head(inbox[c]).who)]
    /\ UNCHANGED <<master, servers, alive, initial_flag, status_, dying_cache,
                   killing, passing, history>>

\* N: an address is added, unless it is the server's own.
ReadNew(c) ==
    /\ Reads(c, "N")
    /\ Taken(c)
    /\ LET who == Head(inbox[c]).who
       IN  cache_list' = IF who = c THEN cache_list
                         ELSE [cache_list EXCEPT ![c] = Append(@, who)]
    /\ UNCHANGED <<master, servers, alive, initial_flag, status_, dying_cache,
                   killing, passing, history>>

\* A plausible bug: the whole message is taken for the role.
ReadPrimaryWhole(c) ==
    /\ Reads(c, "P")
    /\ Taken(c)
    /\ status_' = [status_ EXCEPT ![c] = "P#None"]
    /\ UNCHANGED <<master, servers, alive, initial_flag, dying_cache,
                   cache_list, killing, passing, history>>

\* P: a backup learns that it is a primary.
ReadPrimary(c) ==
    /\ Reads(c, "P")
    /\ Taken(c)
    /\ status_' = [status_ EXCEPT ![c] = "P"]
    /\ UNCHANGED <<master, servers, alive, initial_flag, dying_cache,
                   cache_list, killing, passing, history>>

\* C: the code computes the replacement on a copy and drops it, so the list
\* stays as it is; on the way it uses the result of a lambda that returns
\* none, and may throw.
ReadChange(c) ==
    /\ Reads(c, "C")
    /\ \/ Taken(c) /\ UNCHANGED <<alive, view, passing, unsent>>
       \/ Dies(c)
    /\ UNCHANGED <<master, servers, replaced, disturbed, puts>>

\* erase(find_if(...)) of an address that is there: the first one goes.
Without(list, who) == RemoveAt(list, Least({i \in DOMAIN list : list[i] = who}))

\* The lists that erase(find_if(...)) may leave: of an address that is not
\* found the iterator is end(), and vector::erase then drops the last
\* element; or the process dies, as it does with an empty list.
Erased(list, who) ==
    IF who \in ToSet(list) THEN {Without(list, who)}
    ELSE IF list # <<>> THEN {Front(list)} ELSE {}

\* K and D share the search.
EraseFails(c) ==
    /\ \/ Reads(c, "K") \/ Reads(c, "D")
    /\ Head(inbox[c]).who \notin ToSet(cache_list[c])
    /\ Dies(c)
    /\ UNCHANGED <<master, servers, replaced, disturbed, puts>>

\* D: a primary without a backup is gone.
ReadDelete(c) ==
    /\ Reads(c, "D")
    /\ Taken(c)
    /\ \E list \in Erased(cache_list[c], Head(inbox[c]).who) :
          cache_list' = [cache_list EXCEPT ![c] = list]
    /\ UNCHANGED <<master, servers, alive, initial_flag, status_, dying_cache,
                   killing, passing, history>>

\* K, up to the end of update_cache: dying_cache_IP_ is set and the list is
\* short of one.  What follows concerns the victim only.
ReadKill(c) ==
    /\ Reads(c, "K")
    /\ Taken(c)
    /\ LET who == Head(inbox[c]).who
       IN  /\ \E list \in Erased(cache_list[c], who) :
                 cache_list' = [cache_list EXCEPT ![c] = list]
           /\ dying_cache' = [dying_cache EXCEPT ![c] = who]
           /\ killing' = IF who = c THEN killing \cup {c} ELSE killing
    /\ UNCHANGED <<master, servers, alive, initial_flag, status_, passing,
                   history>>

\* K, the rest: status_ becomes K.
KillEnd(c) ==
    /\ c \in alive \cap killing
    /\ killing' = killing \ {c}
    /\ status_' = [status_ EXCEPT ![c] = "K"]
    /\ UNCHANGED <<master, servers, alive, inbox, initial_flag, dying_cache,
                   cache_list, passing, history>>

-----------------------------------------------------------------------------
(***************************************************************************)
(* The thread cache_pass of server c.                                      *)
(***************************************************************************)

At(c, place) == c \in alive /\ thread[c] = place

\* A primary that has heard of a dying server, or a backup at any time, opens
\* its port and waits in accept() for one key.
PassListen(c) ==
    /\ At(c, "loop")
    /\ \/ status_[c] = "P" /\ dying_cache[c] # NoCache
       \/ status_[c] = "R"
    /\ thread' = [thread EXCEPT ![c] = "accept"]
    /\ UNCHANGED <<master, servers, alive, inbox, view, store, out_key, conn,
                   history>>

\* server_socket() has opened c's port, and c waits in accept(); both sockets
\* are closed once one key has come.
Listens(c) == At(c, "accept")

\* The ring of cal_hash_key, built from nothing.
cache_hash(c) == RingOf(Len(cache_list[c]))

\* A plausible bug: the ring is built for one server too many, the dying one.
TargetStale(c, k) ==
    cache_list[c][1 + (Owner(RingOf(Len(cache_list[c]) + 1), Hash[k])
                         % Len(cache_list[c]))]

\* GetServer(): the index, in that ring, of the server that owns k.
idx(c, k) == Owner(cache_hash(c), Hash[k])

\* The server to which cal_hash_key assigns k.
Target(c, k) == cache_list[c][idx(c, k) + 1]

\* all_key()
Stored(c) == {k \in Key : store[c][k] # 0}

\* A plausible bug: the loop over the keys misses one.
PassPlanShort(c) ==
    /\ At(c, "loop") /\ status_[c] = "K"
    /\ IF cache_list[c] = <<>>
       THEN thread' = [thread EXCEPT ![c] = "ended"] /\ UNCHANGED out_key
       ELSE /\ thread' = [thread EXCEPT ![c] = "send"]
            /\ \E j \in Key :
                  out_key' = [out_key EXCEPT ![c] =
                    {[key |-> k, to |-> Target(c, k)] : k \in Stored(c) \ {j}}]
    /\ UNCHANGED <<master, servers, alive, inbox, view, store, conn, history>>

\* A dying server lists its keys and where they go, in the order of an
\* unordered_map; with no other server the thread just ends.
PassPlan(c) ==
    /\ At(c, "loop") /\ status_[c] = "K"
    /\ IF cache_list[c] = <<>>
       THEN thread' = [thread EXCEPT ![c] = "ended"] /\ UNCHANGED out_key
       ELSE /\ thread' = [thread EXCEPT ![c] = "send"]
            /\ out_key' = [out_key EXCEPT ![c] =
                             {[key |-> k, to |-> Target(c, k)] : k \in Stored(c)}]
    /\ UNCHANGED <<master, servers, alive, inbox, view, store, conn, history>>

\* One key goes over a connection of its own, with the value it has by then, to
\* a server that listens.  That server accepts one connection; what is sent
\* over a further one is lost when it closes the listening socket.
PassSend(c) ==
    /\ At(c, "send")
    /\ \E e \in out_key[c] :
          /\ Listens(e.to)
          /\ out_key' = [out_key EXCEPT ![c] = @ \ {e}]
          /\ LET val == IF store[c][e.key] = 0 THEN Blank ELSE store[c][e.key]
             IN  IF conn[e.to] = {}
                 THEN /\ conn' = [conn EXCEPT ![e.to] = {[key |-> e.key, val |-> val]}]
                      /\ UNCHANGED unsent
                 ELSE unsent' = unsent \cup {e.key} /\ UNCHANGED conn
    /\ UNCHANGED <<master, servers, alive, inbox, view, store, thread,
                   replaced, disturbed, puts>>

\* put(): a cache that is full drops another key, the least recently used one
\* in LRUCache, any one here.
Put(c, k, val) ==
    LET others == Stored(c) \ {k}
    IN  \/ /\ Cardinality(others) < Capacity
           /\ store' = [store EXCEPT ![c][k] = val]
           /\ UNCHANGED evicted
        \/ /\ Cardinality(others) >= Capacity
           /\ \E j \in others :
                 /\ store' = [store EXCEPT ![c] = [@ EXCEPT ![k] = val, ![j] = 0]]
                 /\ evicted' = evicted \cup {j}

\* A plausible bug: the receiver keeps what it has.
PassReceiveFirst(c) ==
    /\ Listens(c)
    /\ \E m \in conn[c] :
          IF store[c][m.key] = 0 THEN Put(c, m.key, m.val)
          ELSE UNCHANGED <<store, evicted>>
    /\ conn' = [conn EXCEPT ![c] = {}]
    /\ thread' = [thread EXCEPT ![c] = "loop"]
    /\ UNCHANGED <<master, servers, alive, inbox, view, out_key, replaced,
                   disturbed, newest, late, early, orphaned, unsent>>

\* The receiver puts the key, whatever it has, and closes both sockets.
PassReceive(c) ==
    /\ Listens(c)
    /\ \E m \in conn[c] : Put(c, m.key, m.val)
    /\ conn' = [conn EXCEPT ![c] = {}]
    /\ thread' = [thread EXCEPT ![c] = "loop"]
    /\ UNCHANGED <<master, servers, alive, inbox, view, out_key, replaced,
                   disturbed, newest, late, early, orphaned, unsent>>

\* connect() fails, and the sender exits with what it has not sent: the other
\* server has stopped, or it runs and does not listen, because it has not read
\* K or not come back to accept().
PassRefused(c) ==
    /\ At(c, "send")
    /\ \E e \in out_key[c] : ~Listens(e.to)
    /\ Dies(c)
    /\ UNCHANGED <<master, servers, replaced, disturbed, puts>>

\* A plausible bug: the server waits for MainCache to be empty, which sending
\* does not make it.
PassExitEmpty(c) ==
    /\ At(c, "send") /\ out_key[c] = {} /\ Stored(c) = {}
    /\ Dies(c)
    /\ UNCHANGED <<master, servers, replaced, disturbed, puts>>

\* All keys are sent.
PassExit(c) ==
    /\ At(c, "send") /\ out_key[c] = {}
    /\ Dies(c)
    /\ UNCHANGED <<master, servers, replaced, disturbed, puts>>

-----------------------------------------------------------------------------
(***************************************************************************)
(* The clients.                                                            *)
(***************************************************************************)

\* The server the master names for k.
Routed(k) ==
    key2Index # EmptyRing /\ Owner(key2Index, Hash[k]) + 1 \in 1 .. Len(members)
Route(k) == members[Owner(key2Index, Hash[k]) + 1]

\* c still has k to send.
Unsent(c, k) == \E e \in out_key[c] : e.key = k

\* c has planned what it sends, and will not send k, or not again.
Sent(c, k) == c \notin alive \/ (thread[c] = "send" /\ ~Unsent(c, k))

\* The value of k is on its way to c.
Awaits(c, k) == \E m \in conn[c] : m.key = k

\* A put arrives at the server the master names, or at a dying one whose
\* address the client has kept.
ClientPut(c, k) ==
    /\ c \in alive /\ newest[k] < MaxPuts
    /\ \/ Routed(k) /\ c = Route(k)
       \/ c = shrinking
    /\ newest' = [newest EXCEPT ![k] = @ + 1]
    /\ Put(c, k, newest'[k])
    /\ late' = IF Sent(c, k) THEN late \cup {k} ELSE late
    /\ early' = IF \/ /\ shrinking \in Cache \ {c} /\ ~Sent(shrinking, k)
                      /\ k \in Stored(shrinking) \/ Awaits(shrinking, k)
                   \/ Awaits(c, k)
                THEN early \cup {k} ELSE early
    /\ UNCHANGED <<master, servers, alive, inbox, view, thread, out_key, conn,
                   replaced, disturbed, orphaned, unsent>>

-----------------------------------------------------------------------------
Init ==
    /\ RingInit
    /\ members = <<>> /\ shrinking = NoCache /\ shrinks = 0
    /\ started = {} /\ alive = {} /\ fails = 0
    /\ inbox = [c \in Cache |-> <<>>]
    /\ initial_flag = [c \in Cache |-> c \in RCache]
    /\ status_ = [c \in Cache |-> IF c \in RCache THEN "R" ELSE "P"]
    /\ dying_cache = [c \in Cache |-> NoCache]
    /\ cache_list = [c \in Cache |-> <<>>]
    /\ killing = {}
    /\ store = [c \in Cache |-> [k \in Key |-> 0]]
    /\ thread = [c \in Cache |-> "loop"]
    /\ out_key = [c \in Cache |-> {}] /\ conn = [c \in Cache |-> {}]
    /\ replaced = FALSE /\ disturbed = FALSE
    /\ newest = [k \in Key |-> 0] /\ late = {} /\ early = {} /\ orphaned = {}
    /\ evicted = {} /\ unsent = {}

\* A tick of the timer that receives a message.
Tick(c) ==
    \/ Initial(c) \/ Ignore(c) \/ ReadNew(c) \/ ReadPrimary(c) \/ ReadChange(c)
    \/ EraseFails(c) \/ ReadDelete(c) \/ ReadKill(c) \/ KillEnd(c)

Pass(c) ==
    \/ PassListen(c) \/ PassPlan(c) \/ PassSend(c) \/ PassReceive(c)
    \/ PassRefused(c) \/ PassExit(c)

Next ==
    \/ \E c \in Cache : Join(c) \/ StandBy(c) \/ AnswerPrimary(c) \/ Lost(c)
                          \/ Fail(c) \/ Tick(c) \/ Pass(c)
    \/ \E p, r \in Cache : Failover(p, r)
    \/ ShrinkBegin
    \/ ShrinkEnd
    \/ \E c \in Cache, k \in Key : ClientPut(c, k)

Spec == Init /\ [][Next]_vars

\* The timer and the thread of a running server keep running, and so does the
\* loop in which the master waits.
FairSpec ==
    /\ Spec
    /\ \A c \in Cache : WF_vars(Tick(c)) /\ WF_vars(Pass(c))
    /\ WF_vars(ShrinkEnd)

-----------------------------------------------------------------------------
(***************************************************************************)
(* Properties.                                                             *)
(***************************************************************************)

\* The type of the state.
TypeOK ==
    /\ nodes \in Int /\ key2Index \in [DOMAIN key2Index -> Nat]
    /\ members \in Seq(Cache) /\ shrinking \in Cache \cup {NoCache}
    /\ shrinks \in 0 .. MaxShrinks
    /\ alive \subseteq started /\ started \subseteq Cache
    /\ fails \in 0 .. MaxFails
    /\ inbox \in [Cache -> Seq(Message)]
    /\ initial_flag \in [Cache -> BOOLEAN]
    /\ status_ \in [Cache -> {"P", "R", "K"}]
    /\ dying_cache \in [Cache -> Cache \cup {NoCache}]
    /\ cache_list \in [Cache -> Seq(Cache)]
    /\ killing \subseteq Cache
    /\ store \in [Cache -> [Key -> Value]]
    /\ thread \in [Cache -> {"loop", "accept", "send", "ended"}]
    /\ out_key \in [Cache -> SUBSET [key : Key, to : Cache]]
    /\ conn \in [Cache -> SUBSET [key : Key, val : Value]]
    /\ replaced \in BOOLEAN /\ disturbed \in BOOLEAN
    /\ newest \in [Key -> 0 .. MaxPuts]
    /\ late \cup early \cup orphaned \cup evicted \cup unsent \subseteq Key

\* The primaries as the ring has them: all, or all but the dying one.
Ring == IF shrinking = NoCache THEN members ELSE Front(members)

\* A server that has read its messages has the master's list, in the master's
\* order, which is what makes the two rings agree, as long as no backup has
\* taken over and no shrink was disturbed.
ViewsAgree ==
    ~replaced /\ ~disturbed =>
        \A c \in alive \cap ToSet(members) :
            inbox[c] = <<>> => cache_list[c] = Ring

\* An address that is to be erased from a list is in it, under the same
\* conditions: no server runs into vector::erase(end()).
EraseFinds ==
    ~replaced /\ ~disturbed =>
        \A c \in alive :
            Reads(c, "K") \/ Reads(c, "D")
              => Head(inbox[c]).who \in ToSet(cache_list[c])

\* A dying server sends each key to the server at which the master, whose
\* ring has a different history, now looks for it.
SendsToOwner ==
    ~replaced /\ ~disturbed =>
        \A c \in alive : \A e \in out_key[c] : Routed(e.key) /\ e.to = Route(e.key)

\* c has, or is about to have, what was put last for k.
Holds(c, k) ==
    IF Awaits(c, k) THEN [key |-> k, val |-> newest[k]] \in conn[c]
    ELSE store[c][k] = newest[k]

\* Which puts a shrink loses: when the dying server has exited, each key it
\* had is where the master routes it, with the value that was put last, unless
\*  - it is one the server did not send, because a connection was refused,
\*    was the second one to a socket, or broke with the receiver;
\*  - it was put on the dying server too late to be sent, or on its new owner
\*    so early that the value sent after it overwrote it;
\*  - a full cache dropped it;
\*  - it was put before a primary was lost: the loss shifts the indices and
\*    leaves the key at servers that own it no more, which send it over newer
\*    values.
ShrinkKeepsKeys ==
    ~replaced /\ ~disturbed /\ shrinking \in Cache \ alive =>
        \A k \in Stored(shrinking)
                   \ (unsent \cup late \cup early \cup evicted \cup orphaned) :
            Holds(Route(k), k)

\* The dying server waits for something that does not come: its thread has
\* ended for want of another server, or sits in accept() since before it knew
\* that it was the one to die.
Stuck(c) ==
    \/ At(c, "ended")
    \/ Listens(c) /\ conn[c] = {} /\ status_[c] = "K"

\* A shrink ends, whatever the order of the messages, the connections and the
\* failures, unless the dying server is one of the two kinds that wait for
\* ever: no server sends to one that does not listen, or twice to one that
\* listens once, and hangs.
ShrinkEndsOrSticks ==
    shrinking # NoCache ~> shrinking = NoCache \/ Stuck(shrinking)

-----------------------------------------------------------------------------
(***************************************************************************)
(* What the repository's text says and the code does not do.               *)
(***************************************************************************)

\* The protocol description: the primary that a K names goes offline, here
\* when there is another primary to take its keys and nothing else happens.
ShrinkCompletes ==
    (shrinking # NoCache /\ Len(members) > 1 /\ ~disturbed)
      ~> shrinking = NoCache
=============================================================================
