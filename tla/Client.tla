------------------------------- MODULE Client -------------------------------
(***************************************************************************)
(* The client of Client/src/client.cpp.  A child process produces keys;    *)
(* the main loop looks each one up in the local cache, or asks the master, *)
(* and then asks the cache server, on a connection of its own.  What a     *)
(* server has not answered is in request_map_.  A timer per server sends   *)
(* its last request once more; a server with more than LOST_MAX_NUM keys   *)
(* unanswered is given up and the master is asked again.                   *)
(*                                                                         *)
(* The timers run in a signal handler on the thread of the main loop: Tick *)
(* comes between any two of its steps, and shares cache_sever_addr_ with   *)
(* them, an address of which the main loop stores the host first and then  *)
(* the port.                                                               *)
(*                                                                         *)
(* The local cache is the LossyMap that ClientLRU implements.  Servers and *)
(* the master are the environment.  A server refuses a connection, answers *)
(* or closes it; the master names any primary, since its ring changes, or  *)
(* stops.  Backups listen as well and are not named.  Requests for one key *)
(* that wait at the master at the same time count as one.                  *)
(***************************************************************************)
EXTENDS Timer, Lists, Bags, FiniteSets

CONSTANTS
    Key, Host, Port, Master,
    Server,         \* the addresses at which cache servers listen
    Named,          \* the ones that the master may name: a backup that stays one is not
    LOST_MAX_NUM,   \* 6 in the code
    WAITING_TIME,   \* 5 in the code
    MaxConns        \* bound: open connections; beyond it connect() fails

ASSUME ClientAssumption ==
    /\ Server \subseteq [host : Host, port : Port] /\ Master \notin Server
    /\ Named \subseteq Server
    /\ LOST_MAX_NUM \in Nat /\ WAITING_TIME \in Nat \ {0}
    /\ MaxConns \in Nat

VARIABLES
    running,            \* the client has not crashed
    main,               \* where the main loop is
    request_map_,       \* server -> the keys it has not answered, oldest first
    timers,             \* the master's and, once created, each server's
    massage,            \* the timers that run -> the key they will send again
    toMaster, masterUp, \* the keys asked of the master and not read back
    known,              \* local_lru_: key -> server
    conns,              \* bag of connections to servers
    asked,              \* history: keys of the child with no answer yet
    astray,             \* history: a connect() failed or met the wrong server
    gaveUp              \* history: given up, and timer not touched since

master == <<toMaster, masterUp>>
history == <<asked, astray, gaveUp>>
vars == <<running, main, known, request_map_, timers, massage, master, conns,
          history>>

Address == [host : Host, port : Port]

Wait == [at |-> "wait"]
Check == [at |-> "check"]
\* cache_sever_addr_ matters from parse_str_addr, where its host comes first,
\* to connect() only.
Place ==
    {Wait, Check}
      \cup [at : {"port"}, key : Key, addr : Server, host : Host,
            then : {Wait, Check}]
      \cup [at : {"connect"}, key : Key, addr : Server,
            cache_sever_addr_ : Address, then : {Wait, Check}]
      \cup [at : {"stop"}, addr : Server]

Conn == [to : Server, key : Key]

Opened(a, k) == [to |-> a, key |-> k]

\* What ClientLRU promises of the local cache.
Local == INSTANCE LossyMap WITH Val <- Server, latest <- known

At(place) == running /\ main.at = place

-----------------------------------------------------------------------------
(***************************************************************************)
(* Sending.                                                                *)
(***************************************************************************)

\* send() on the connection to the master.  When the master has stopped, the
\* message is lost, or raises SIGPIPE.
SendKeys(K) ==
    IF masterUp THEN toMaster' = toMaster \cup K /\ UNCHANGED running
    ELSE UNCHANGED toMaster /\ running' \in BOOLEAN

\* A plausible bug: the timer is set back and not started.
SendToMasterUntimed(K, k) ==
    /\ SendKeys(K)
    /\ massage' = Local!With(massage, Master, k)
    /\ timers' = [timers EXCEPT ![Master] = reset(@)]

\* send_request_to_master for the keys of K, k the last of them.
SendToMaster(K, k) ==
    /\ SendKeys(K)
    /\ massage' = Local!With(massage, Master, k)
    /\ timers' = [timers EXCEPT ![Master] = start(reset(@))]

\* The client asks server a for key k, up to the first half of
\* parse_str_addr; in the end the main loop goes on to a place.
SendBegin(a, k, then) ==
    /\ request_map_' = [request_map_ EXCEPT ![a] =
                          IF k \in ToSet(@) THEN @ ELSE Append(@, k)]
    /\ main' = [at |-> "port", key |-> k, addr |-> a, host |-> a.host,
                then |-> then]

\* The second half of parse_str_addr.
SendPort ==
    /\ At("port")
    /\ main' = [at |-> "connect", key |-> main.key, addr |-> main.addr,
                cache_sever_addr_ |-> [host |-> main.host, port |-> main.addr.port],
                then |-> main.then]
    /\ UNCHANGED <<running, known, request_map_, timers, massage, master, conns,
                   history>>

\* A plausible bug: only a timer that exists is armed.
ArmOld(a, k) ==
    IF a \notin DOMAIN timers THEN UNCHANGED <<timers, massage, gaveUp>>
    ELSE /\ timers' = [timers EXCEPT ![a] = start(reset(@))]
         /\ massage' = Local!With(massage, a, k)
         /\ gaveUp' = gaveUp \ {a}

\* The timer of server a is created or reset, and started, with k to resend.
Arm(a, k) ==
    /\ timers' = Local!With(timers, a,
                      start(IF a \in DOMAIN timers THEN reset(timers[a])
                            ELSE NewTimer(WAITING_TIME, FALSE)))
    /\ massage' = Local!With(massage, a, k)
    /\ gaveUp' = gaveUp \ {a}

\* The rest of send_request_to_cache_server.  connect() goes to whatever
\* cache_sever_addr_ is by now; it fails if nobody listens there.
SendEnd ==
    /\ At("connect")
    /\ LET to == main.cache_sever_addr_
       IN  \/ /\ to \in Server /\ BagCardinality(conns) < MaxConns
              /\ conns' = conns (+) SetToBag({Opened(to, main.key)})
              /\ astray' = (astray \/ to # main.addr)
           \/ UNCHANGED conns /\ astray' = TRUE
    /\ Arm(main.addr, main.key)
    /\ main' = main.then
    /\ UNCHANGED <<running, known, request_map_, master, asked>>

-----------------------------------------------------------------------------
(***************************************************************************)
(* The main loop.                                                          *)
(***************************************************************************)

\* dealwith_child: the child has sent a key.
dealwith_child(k) ==
    /\ At("wait")
    /\ asked' = asked \cup {k}
    /\ \/ /\ k \in DOMAIN known
          /\ SendBegin(known[k], k, Check)
          /\ UNCHANGED <<running, toMaster, timers, massage>>
       \/ /\ k \notin DOMAIN known
          /\ SendToMaster({k}, k)
          /\ main' = Check
          /\ UNCHANGED request_map_
    /\ UNCHANGED <<known, masterUp, conns, astray, gaveUp>>

\* it->second.size() > LOST_MAX_NUM
Lost(n) == n > LOST_MAX_NUM

\* A plausible bug: the keys are forgotten and not asked for again.
GiveUpOnly(a) ==
    /\ At("check") /\ Lost(Len(request_map_[a]))
    /\ request_map_' = [request_map_ EXCEPT ![a] = <<>>]
    /\ gaveUp' = gaveUp \cup {a}
    /\ UNCHANGED <<running, main, known, timers, massage, master, conns, asked,
                   astray>>

\* check_cache_server_request_map, for one server, in the order of an
\* unordered_map.  The timer of the server is left as it is.
GiveUp(a) ==
    /\ At("check") /\ Lost(Len(request_map_[a]))
    /\ SendToMaster(ToSet(request_map_[a]), Last(request_map_[a]))
    /\ request_map_' = [request_map_ EXCEPT ![a] = <<>>]
    /\ gaveUp' = gaveUp \cup {a}
    /\ UNCHANGED <<main, known, masterUp, conns, asked, astray>>

CheckEnd ==
    /\ At("check") /\ \A a \in Server : ~Lost(Len(request_map_[a]))
    /\ main' = Wait
    /\ UNCHANGED <<running, known, request_map_, timers, massage, master, conns, history>>

\* dealwith_master, with an answer that names a server for k.
dealwith_master(k, a) ==
    /\ At("wait") /\ k \in toMaster
    /\ toMaster' = toMaster \ {k}
    /\ known' \in Local!Puts(known, k, a)
    /\ SendBegin(a, k, Wait)
    /\ timers' = [timers EXCEPT ![Master] = stop(@)]
    /\ massage' = Local!Without(massage, Master)
    /\ UNCHANGED <<running, masterUp, conns, history>>

\* dealwith_master, when the master has closed the connection: the empty
\* message does not have three parts.
MasterEof ==
    /\ At("wait") /\ ~masterUp /\ toMaster = {}
    /\ timers' = [timers EXCEPT ![Master] = stop(@)]
    /\ massage' = Local!Without(massage, Master)
    /\ UNCHANGED <<running, main, known, request_map_, master, conns, history>>

\* A plausible bug: an answer FAILED leaves the request in the map.
EraseOnSuccess(conn, reply) ==
    request_map_' = IF reply = "FAILED" THEN request_map_
                    ELSE [request_map_ EXCEPT ![conn.to] = Dropped(@, conn.key)]

\* erase_item_from_request_map
EraseItem(conn, reply) ==
    request_map_' = [request_map_ EXCEPT ![conn.to] = Dropped(@, conn.key)]

\* dealwith_cache_server, up to the stop of the timer; and the connection is
\* closed.  The answer names the server that sent it.
dealwith_cache_server ==
    /\ At("wait")
    /\ \E conn \in BagToSet(conns), reply \in {"SUCCESS", "FAILED"} :
          /\ conns' = conns (-) SetToBag({conn})
          /\ EraseItem(conn, reply)
          /\ known' = IF reply = "FAILED" THEN Local!Without(known, conn.key) ELSE known
          /\ main' = [at |-> "stop", addr |-> conn.to]
          /\ asked' = asked \ {conn.key}
    /\ UNCHANGED <<running, timers, massage, master, astray, gaveUp>>

\* A server that ends with a request unanswered closes the connection: the
\* empty message has no parts, and the first of them is read all the same.
ServerEof ==
    /\ At("wait")
    /\ conns # EmptyBag
    /\ running' = FALSE
    /\ UNCHANGED <<main, known, request_map_, timers, massage,
                   master, conns, history>>

\* A plausible bug: a timer that has been answered goes on.
StopTimerNot ==
    /\ At("stop")
    /\ main' = Wait
    /\ UNCHANGED <<running, known, request_map_, timers, massage, master, conns, history>>

\* dealwith_cache_server, the rest: operator[] of a server without a timer
\* would yield a null pointer.
StopTimer ==
    /\ At("stop")
    /\ IF main.addr \in DOMAIN timers
       THEN timers' = [timers EXCEPT ![main.addr] = stop(@)] /\ UNCHANGED running
       ELSE running' = FALSE /\ UNCHANGED timers
    /\ massage' = Local!Without(massage, main.addr)
    /\ main' = Wait
    /\ gaveUp' = gaveUp \ {main.addr}
    /\ UNCHANGED <<known, request_map_, master, conns, asked, astray>>

-----------------------------------------------------------------------------
(***************************************************************************)
(* The signal handler.                                                     *)
(***************************************************************************)

\* timer_handler with its callbacks: cache_server_resend for the servers that
\* are due, which may fail to connect, and the resend to the master.  Each
\* cache_server_resend stores a whole address.
Tick ==
    LET counted == [t \in DOMAIN timers |-> Counted(timers[t])]
        due == {t \in DOMAIN timers : Due(counted[t])}
    IN  /\ running
        /\ timers' = [t \in DOMAIN timers |-> Settled(counted[t])]
        /\ massage' = Restrict(massage, DOMAIN massage \ due)
        /\ \E S \in SUBSET (due \cap Server) :
              /\ BagCardinality(conns) + Cardinality(S) <= MaxConns
              /\ conns' = conns (+) SetToBag({Opened(a, massage[a]) : a \in S})
        /\ IF main.at \in {"port", "connect"} /\ due \cap Server # {}
           THEN \E a \in due \cap Server :
                   main' = IF main.at = "port" THEN [main EXCEPT !.host = a.host]
                           ELSE [main EXCEPT !.cache_sever_addr_ = a]
           ELSE UNCHANGED main
        /\ IF Master \in due THEN SendKeys({massage[Master]}) ELSE UNCHANGED <<toMaster, running>>
        /\ UNCHANGED <<known, request_map_, masterUp, history>>

-----------------------------------------------------------------------------
(***************************************************************************)
(* The master, as the client sees it.                                      *)
(***************************************************************************)

MasterStops ==
    /\ running /\ masterUp
    /\ masterUp' = FALSE /\ toMaster' \in SUBSET toMaster
    /\ UNCHANGED <<running, main, known, request_map_, timers, massage, conns, history>>

-----------------------------------------------------------------------------
Init ==
    /\ known = [k \in {} |-> k]
    /\ running = TRUE /\ main = Wait
    /\ request_map_ = [a \in Server |-> <<>>]
    /\ timers = [t \in {Master} |-> NewTimer(WAITING_TIME, FALSE)]
    /\ massage = [t \in {} |-> t]
    /\ toMaster = {} /\ masterUp = TRUE
    /\ conns = EmptyBag
    /\ asked = {} /\ astray = FALSE /\ gaveUp = {}

Child == \E k \in Key : dealwith_child(k)

\* The main loop between two calls of epoll_wait.
Loop == SendPort \/ SendEnd \/ StopTimer \/ CheckEnd \/ \E a \in Server : GiveUp(a)

Events ==
    \/ \E k \in Key, a \in Named : dealwith_master(k, a)
    \/ MasterEof
    \/ dealwith_cache_server
    \/ ServerEof

Next == Child \/ Loop \/ Events \/ Tick \/ MasterStops

Spec == Init /\ [][Next]_vars

-----------------------------------------------------------------------------
(***************************************************************************)
(* Properties.                                                             *)
(***************************************************************************)

\* The type of the state.
TypeOK ==
    /\ running \in BOOLEAN /\ main \in Place
    /\ DOMAIN known \subseteq Key /\ known \in [DOMAIN known -> Server]
    /\ request_map_ \in [Server -> Seq(Key)]
    /\ Master \in DOMAIN timers /\ DOMAIN timers \subseteq Server \cup {Master}
    /\ timers \in [DOMAIN timers -> TimerType]
    /\ massage \in [{t \in DOMAIN timers : timers[t].running} -> Key]
    /\ toMaster \subseteq Key /\ masterUp \in BOOLEAN
    /\ IsABag(conns) /\ BagToSet(conns) \subseteq Conn
    /\ asked \subseteq Key /\ astray \in BOOLEAN /\ gaveUp \subseteq Server

Pending == UNION {ToSet(request_map_[a]) : a \in Server}

\* No key is forgotten: one that the child asked for and nobody has answered
\* is on its way to or from the master, or booked for a server, through
\* resends, lost connections, give-ups and answers that come twice.
NoKeyForgotten ==
    running /\ masterUp =>
        asked \subseteq toMaster \cup Pending

\* A timer that runs resends a request that is still booked.  The two windows
\* in which it may resend one that is not are the one between the two halves
\* of dealwith_cache_server, and a give-up, which leaves the timer running.
ResendIsPending ==
    \A a \in Server \cap DOMAIN timers :
        timers[a].running =>
            \/ massage[a] \in ToSet(request_map_[a])
            \/ main = [at |-> "stop", addr |-> a]
            \/ a \in gaveUp

\* A server is given up for requests that are unanswered only: each one that
\* is booked for it has a connection to it open or is about to, as long as no
\* connect() has failed or been diverted by a resend.
EntryIsOutstanding ==
    running /\ ~astray =>
        \A a \in Server : \A k \in ToSet(request_map_[a]) :
            \/ Opened(a, k) \in BagToSet(conns)
            \/ main.at \in {"port", "connect"} /\ main.addr = a /\ main.key = k

\* The address between two that have timers: a host and another one's port.
Crossed(s) ==
    \E a, b \in Server \cap DOMAIN timers : s = [host |-> a.host, port |-> b.port]

\* Whoever answers has a timer to stop, also when it was not the server that
\* was meant, or dealwith_cache_server would follow a null pointer; unless a
\* resend came between the two halves of parse_str_addr and the connection went
\* to the host of one server and the port of another.  And a timer that runs
\* has time left, or it would count past zero and never fire.
AnswersFindTimer ==
    /\ \A conn \in BagToSet(conns) : conn.to \in DOMAIN timers \/ Crossed(conn.to)
    /\ \A t \in DOMAIN timers : timers[t].running => timers[t].current > 0
=============================================================================
