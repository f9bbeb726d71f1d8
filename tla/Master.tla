------------------------------- MODULE Master -------------------------------
(***************************************************************************)
(* The master of master/mastertry/master.cpp: it admits cache servers,     *)
(* pairs primaries with backups, watches their heartbeats, replaces or     *)
(* removes the ones that fall silent, retires one on request, and tells    *)
(* clients which primary serves a key.                                     *)
(*                                                                         *)
(* Four threads share the tables with no lock:                             *)
(*   start_cache          Accept, RegisterPrimary, RegisterReplica,        *)
(*                        HeartbeatAgain, then Stamp                       *)
(*   periodicDetectCache  DetectReplica, DetectPromote, DetectLost,        *)
(*                        DetectUnregistered, then DetectErase             *)
(*   shrinkageCapacity    ShrinkBegin, then ShrinkEnd                      *)
(*   start_client         ClientRequest                                    *)
(* A step is the part of a thread's loop between two points where it lets  *)
(* others run for long: the reply and the time stamp of a heartbeat are    *)
(* separate steps, so are the closing of a socket by the detector and the  *)
(* removal of its entry, and the announcement of a shrink and its end.     *)
(*                                                                         *)
(* A null pointer that is followed, a read outside fd_node that does not   *)
(* happen to survive, and a SIGPIPE (nothing ignores it) end the process:  *)
(* up becomes FALSE and nothing happens any more.                          *)
(***************************************************************************)
EXTENDS ConsistentHash, SequencesExt

CONSTANTS
    PCache,      \* cache servers started as primaries ('P')
    RCache,      \* cache servers started as backups ('R')
    NoCache,     \* no cache server: the address "0" of a new fdmap
    Fd,          \* file descriptors
    NoFd,        \* the descriptor -1
    MaxStarts,   \* bound: how many times a cache server connects
    MaxShrinks   \* bound: how many times 's' is typed

Cache == PCache \cup RCache

ASSUME MasterAssumption ==
    /\ PCache \cap RCache = {}
    /\ NoCache \notin Cache
    /\ NoFd \notin Fd
    /\ MaxStarts \in Nat
    /\ MaxShrinks \in Nat

VARIABLES
    up,          \* the master process runs
    fd_node,     \* the primaries, in the order of their ring indices
    caches_list, \* descriptor -> fdmap
    pcache,      \* stack of primaries without a backup
    rcache,      \* stack of backups without a primary
    fresh,       \* addresses whose time stamp in cacheAddrMap is under 5 s old
    sock,        \* descriptor -> the cache server at the other end
    live,        \* open descriptors whose other end still runs
    stamping,    \* start_cache: the address it is about to stamp
    deletefd,    \* periodicDetectCache: the entry it is about to erase
    shrinkfd,    \* shrinkageCapacity: the primary it waits for
    starts,      \* connections so far
    shrinks,     \* shrinks so far
    aliased,     \* history: accept() returned a descriptor still referred to
    revived,     \* history: a primary registered while its entry was condemned
    overlap      \* history: fd_node grew or lost an entry during a shrink

tables == <<fd_node, caches_list, pcache, rcache>>
net == <<sock, live>>
threads == <<stamping, deletefd, shrinkfd>>
history == <<starts, shrinks, aliased, revived, overlap>>
vars == <<ringVars, up, tables, fresh, net, threads, history>>

Entry == [status : {"n", "P", "R"}, addr : Cache \cup {NoCache},
          pair : Fd \cup {NoFd}]

-----------------------------------------------------------------------------
(***************************************************************************)
(* Helpers.                                                                *)
(***************************************************************************)

\* caches_list[fd] on an absent key inserts a null pointer, which every use
\* in the code then follows.
Known(fd) == fd \in DOMAIN caches_list

\* ~heartBeatDetect(fd).  The address "0" is never stamped.
Stale(fd) == caches_list[fd].addr \notin fresh

\* Descriptors the master still refers to, by whatever table or variable.
Held == ToSet(fd_node) \cup ToSet(pcache) \cup ToSet(rcache)
          \cup DOMAIN caches_list \cup {deletefd, shrinkfd}
          \cup {caches_list[f].pair : f \in DOMAIN caches_list}

\* A send() to a peer that is gone may raise SIGPIPE, or go unnoticed.
\* On a closed descriptor it only fails.
MayBreakPipe(S) == \E f \in S : sock[f] # NoCache /\ f \notin live

\* close() of the descriptors in S.
Close(S) ==
    /\ sock' = [f \in Fd |-> IF f \in S THEN NoCache ELSE sock[f]]
    /\ live' = live \ S

\* The process dies, and its memory and its connections with it.
Crash ==
    /\ up' = FALSE
    /\ nodes' = 0 /\ key2Index' = EmptyRing
    /\ fd_node' = <<>> /\ caches_list' = [f \in {} |-> NoFd]
    /\ pcache' = <<>> /\ rcache' = <<>>
    /\ fresh' = {}
    /\ sock' = [f \in Fd |-> NoCache] /\ live' = {}
    /\ stamping' = NoCache /\ deletefd' = NoFd /\ shrinkfd' = NoFd
    /\ starts' = 0 /\ shrinks' = 0
    /\ aliased' = FALSE /\ revived' = FALSE /\ overlap' = FALSE

Pair(list, f, g) == [list EXCEPT ![f].pair = g, ![g].pair = f]

Erase(list, S) == Restrict(list, DOMAIN list \ S)

Places(fd) == {i \in 1 .. Len(fd_node) : fd_node[i] = fd}

-----------------------------------------------------------------------------
(***************************************************************************)
(* The environment: cache servers that fall silent or stop.                *)
(***************************************************************************)

\* Five seconds have passed since the last stamp of c, because c stopped or
\* because its heartbeats are late.
Expire(c) ==
    /\ up /\ c \in fresh
    /\ fresh' = fresh \ {c}
    /\ UNCHANGED <<ringVars, up, tables, net, threads, history>>

\* The cache server behind fd stops.  The master notices nothing: recv()
\* returns 0 bytes, which start_cache ignores.
Down(fd) ==
    /\ up /\ fd \in live
    /\ live' = live \ {fd}
    /\ UNCHANGED <<ringVars, up, tables, fresh, sock, threads, history>>

-----------------------------------------------------------------------------
(***************************************************************************)
(* Thread start_cache.                                                     *)
(***************************************************************************)

\* A cache server that has no running connection connects.  The kernel hands
\* out any descriptor that is closed.
Accept(c, fd) ==
    /\ up /\ stamping = NoCache /\ starts < MaxStarts
    /\ \A f \in live : sock[f] # c
    /\ sock[fd] = NoCache
    /\ sock' = [sock EXCEPT ![fd] = c]
    /\ live' = live \cup {fd}
    /\ caches_list' = [f \in DOMAIN caches_list \cup {fd} |->
                         IF f = fd
                         THEN [status |-> "n", addr |-> NoCache, pair |-> NoFd]
                         ELSE caches_list[f]]
    /\ starts' = starts + 1
    /\ aliased' = (aliased \/ fd \in Held)
    /\ UNCHANGED <<ringVars, up, fd_node, pcache, rcache, fresh, threads,
                   shrinks, revived, overlap>>

\* A heartbeat arrives on fd.
HeartbeatOn(fd) == up /\ stamping = NoCache /\ fd \in live

\* The partner of fd has no entry any more.
Widowed(fd) == caches_list[fd].pair # NoFd /\ ~Known(caches_list[fd].pair)

\* The first heartbeat on fd.
FirstOn(fd) == HeartbeatOn(fd) /\ Known(fd) /\ caches_list[fd].addr = NoCache

\* The entry of fd takes the address and the role that the heartbeat names.
Enter(fd, role) ==
    [caches_list EXCEPT ![fd].addr = sock[fd], ![fd].status = role]

\* A heartbeat on a connection whose entry is gone, or whose partner's is,
\* follows a null pointer.
HeartbeatFault(fd) ==
    /\ HeartbeatOn(fd)
    /\ \/ ~Known(fd)
       \/ Known(fd) /\ caches_list[fd].addr # NoCache /\ Widowed(fd)
    /\ Crash

\* The first heartbeat of a primary: it joins fd_node and the ring, takes a
\* waiting backup if there is one, and everyone is told.
RegisterPrimary(fd) ==
    /\ FirstOn(fd) /\ sock[fd] \in PCache
    /\ LET partner == Last(rcache)
           members == Append(fd_node, fd)
           list == Enter(fd, "P")
           fault == \/ rcache # <<>> /\ ~Known(partner)
                    \/ rcache = <<>> /\ Widowed(fd)
                    \/ \E f \in ToSet(members) : ~Known(f)
       IN  \/ fault /\ Crash
           \/ MayBreakPipe(ToSet(members)) /\ Crash
           \/ /\ ~fault
              /\ fd_node' = members
              /\ IF rcache # <<>>
                 THEN /\ caches_list' = Pair(list, fd, partner)
                      /\ rcache' = Front(rcache)
                      /\ UNCHANGED pcache
                 ELSE /\ caches_list' = list
                      /\ pcache' = Append(pcache, fd)
                      /\ UNCHANGED rcache
              /\ addNode(Len(members) - 1)
              /\ stamping' = sock[fd]
              /\ revived' = (revived \/ deletefd = fd)
              /\ overlap' = (overlap \/ shrinkfd # NoFd)
              /\ UNCHANGED <<up, fresh, net, deletefd, shrinkfd, starts,
                             shrinks, aliased>>

\* A plausible bug: only the backup is told of the pairing.
RegisterReplicaOneSided(fd) ==
    /\ FirstOn(fd) /\ sock[fd] \in RCache
    /\ pcache # <<>>
    /\ caches_list' = [Enter(fd, "R") EXCEPT ![fd].pair = Last(pcache)]
    /\ pcache' = Front(pcache)
    /\ stamping' = sock[fd]
    /\ UNCHANGED <<ringVars, up, fd_node, rcache, fresh, net, deletefd,
                   shrinkfd, history>>

\* The first heartbeat of a backup: it takes the primary that has waited
\* least, or waits.
RegisterReplica(fd) ==
    /\ FirstOn(fd) /\ sock[fd] \in RCache
    /\ LET partner == Last(pcache)
           list == Enter(fd, "R")
       IN  \/ pcache # <<>> /\ ~Known(partner) /\ Crash
           \/ pcache = <<>> /\ Widowed(fd) /\ Crash
           \/ /\ pcache # <<>> /\ Known(partner)
              /\ caches_list' = Pair(list, fd, partner)
              /\ pcache' = Front(pcache)
              /\ stamping' = sock[fd]
              /\ UNCHANGED <<ringVars, up, fd_node, rcache, fresh, net,
                             deletefd, shrinkfd, history>>
           \/ /\ pcache = <<>> /\ ~Widowed(fd)
              /\ caches_list' = list
              /\ rcache' = Append(rcache, fd)
              /\ stamping' = sock[fd]
              /\ UNCHANGED <<ringVars, up, fd_node, pcache, fresh, net,
                             deletefd, shrinkfd, history>>

\* A later heartbeat is answered with the role and the partner, and stamped:
\* as the answer changes nothing, the two are one step.
HeartbeatAgain(fd) ==
    /\ HeartbeatOn(fd) /\ Known(fd) /\ caches_list[fd].addr # NoCache
    /\ ~Widowed(fd)
    /\ fresh' = fresh \cup {sock[fd]}
    /\ UNCHANGED <<ringVars, up, tables, net, threads, history>>

\* handleHeartBeatResponse, after a registration and its reply.
Stamp ==
    /\ up /\ stamping # NoCache
    /\ fresh' = fresh \cup {stamping}
    /\ stamping' = NoCache
    /\ UNCHANGED <<ringVars, up, tables, net, deletefd, shrinkfd, history>>

-----------------------------------------------------------------------------
(***************************************************************************)
(* Thread periodicDetectCache.                                             *)
(***************************************************************************)

\* The scan, in no particular order, stops at the first stale entry.
Finds(fd, status) ==
    /\ up /\ deletefd = NoFd
    /\ Known(fd) /\ Stale(fd) /\ caches_list[fd].status = status

\* A backup is lost: its primary waits for another one.  The code does not
\* ask whether there is a primary.
DetectReplica(fd) ==
    /\ Finds(fd, "R")
    /\ LET partner == caches_list[fd].pair
           list == [caches_list EXCEPT ![partner].pair = NoFd]
       IN  \/ ~Known(partner) /\ Crash
           \/ /\ Known(partner)
              /\ caches_list' = list
              /\ pcache' = Append(pcache, list[fd].pair)
              /\ Close({fd})
              /\ deletefd' = fd
              /\ UNCHANGED <<ringVars, up, fd_node, rcache, fresh, stamping,
                             shrinkfd, history>>

\* Plausible bugs: the promoted backup goes to the end of fd_node; it keeps
\* its status; it is not put among the primaries that wait; fd_node is left
\* as it is.
Promote(fd, members, status, stack) ==
    /\ Finds(fd, "P") /\ caches_list[fd].pair \in DOMAIN caches_list \ {fd}
    /\ fd_node' = members
    /\ caches_list' = [caches_list EXCEPT ![caches_list[fd].pair].pair = NoFd,
                                          ![caches_list[fd].pair].status = status]
    /\ pcache' = stack
    /\ Close({fd})
    /\ deletefd' = fd
    /\ UNCHANGED <<ringVars, up, rcache, fresh, stamping, shrinkfd, history>>

Replaced(fd) == [i \in 1 .. Len(fd_node) |->
                   IF fd_node[i] = fd THEN caches_list[fd].pair ELSE fd_node[i]]

DetectPromoteAtEnd(fd) ==
    Promote(fd, Append(SelectSeq(fd_node, LAMBDA f : f # fd), caches_list[fd].pair),
            "P", Append(pcache, caches_list[fd].pair))

DetectPromoteAsReplica(fd) ==
    Promote(fd, Replaced(fd), "R", Append(pcache, caches_list[fd].pair))

DetectPromoteNoPush(fd) == Promote(fd, Replaced(fd), "P", pcache)

DetectPromoteInPlace(fd) ==
    Promote(fd, fd_node, "P", Append(pcache, caches_list[fd].pair))

\* A primary with a backup is lost: the backup takes its index.
DetectPromote(fd) ==
    /\ Finds(fd, "P") /\ caches_list[fd].pair # NoFd
    /\ LET partner == caches_list[fd].pair
           members == IF Places(fd) = {} THEN fd_node
                      ELSE [fd_node EXCEPT ![Least(Places(fd))] = partner]
           fault == ~Known(partner) \/ partner = fd
       IN  \/ fault /\ Crash
           \/ MayBreakPipe(ToSet(members)) /\ Crash
           \/ /\ ~fault
              /\ fd_node' = members
              /\ caches_list' = [caches_list EXCEPT ![partner].pair = NoFd,
                                                    ![partner].status = "P"]
              /\ pcache' = Append(pcache, partner)
              /\ Close({fd})
              /\ deletefd' = fd
              /\ UNCHANGED <<ringVars, up, rcache, fresh, stamping, shrinkfd,
                             history>>

\* Plausible bugs: the ring is not told; a backup that does not exist is
\* returned to the stack of backups.
Lose(fd, backups) ==
    /\ Finds(fd, "P") /\ caches_list[fd].pair = NoFd
    /\ fd_node' = SelectSeq(fd_node, LAMBDA f : f # fd)
    /\ rcache' = backups
    /\ Close({fd})
    /\ deletefd' = fd
    /\ UNCHANGED <<ringVars, up, caches_list, pcache, fresh, stamping, shrinkfd,
                   history>>

DetectLostKeepRing(fd) == Lose(fd, rcache)

DetectLostReturnPair(fd) == Lose(fd, Append(rcache, caches_list[fd].pair))

\* A primary without a backup is lost: its index disappears and the ones
\* above move down.  It stays in pcache.
DetectLost(fd) ==
    /\ Finds(fd, "P") /\ caches_list[fd].pair = NoFd
    /\ LET first == Least(Places(fd))
           members == IF Places(fd) = {} THEN fd_node
                      ELSE RemoveAt(fd_node, first)
       IN  \/ MayBreakPipe(ToSet(members)) /\ Crash
           \/ /\ fd_node' = members
              /\ IF Places(fd) = {} THEN UNCHANGED ringVars
                 ELSE deleteNode(first - 1)
              /\ overlap' = (overlap \/ (shrinkfd # NoFd /\ Places(fd) # {}))
              /\ Close({fd})
              /\ deletefd' = fd
              /\ UNCHANGED <<up, caches_list, pcache, rcache, fresh, stamping,
                             shrinkfd, starts, shrinks, aliased, revived>>

\* A connection that has sent no heartbeat yet is stale: its entry goes, its
\* socket stays open.
DetectUnregistered(fd) ==
    /\ Finds(fd, "n")
    /\ deletefd' = fd
    /\ UNCHANGED <<ringVars, up, tables, fresh, net, stamping, shrinkfd,
                   history>>

\* After the scan.
DetectErase ==
    /\ up /\ deletefd # NoFd
    /\ caches_list' = Erase(caches_list, {deletefd})
    /\ deletefd' = NoFd
    /\ UNCHANGED <<ringVars, up, fd_node, pcache, rcache, fresh, net, stamping,
                   shrinkfd, history>>

Detect ==
    \/ \E fd \in Fd : \/ DetectReplica(fd) \/ DetectPromote(fd)
                      \/ DetectLost(fd) \/ DetectUnregistered(fd)
    \/ DetectErase

-----------------------------------------------------------------------------
(***************************************************************************)
(* Thread shrinkageCapacity.                                               *)
(***************************************************************************)

\* 's': the last primary leaves the ring and everyone is told.
ShrinkBegin ==
    /\ up /\ shrinkfd = NoFd /\ shrinks < MaxShrinks /\ fd_node # <<>>
    /\ LET fd == Last(fd_node)
       IN  \/ ~Known(fd) /\ Crash
           \/ MayBreakPipe(ToSet(fd_node)) /\ Crash
           \/ /\ Known(fd)
              /\ deleteNode(Len(fd_node) - 1)
              /\ shrinkfd' = fd
              /\ shrinks' = shrinks + 1
              /\ UNCHANGED <<up, tables, fresh, net, stamping, deletefd,
                             starts, aliased, revived, overlap>>

\* Its heartbeats have stopped: it and its backup are forgotten.  pop_back()
\* takes whatever is last by now; on an empty vector it wraps the size.
ShrinkEnd ==
    /\ up /\ shrinkfd # NoFd
    /\ LET fd == shrinkfd
           gone == {fd, caches_list[fd].pair} \cap Fd
           fault == caches_list[fd].pair = fd \/ fd_node = <<>>
       IN  \/ ~Known(fd) /\ Crash
           \/ Known(fd) /\ Stale(fd) /\ fault /\ Crash
           \/ /\ Known(fd) /\ Stale(fd) /\ ~fault
              /\ caches_list' = Erase(caches_list, gone)
              /\ Close(gone)
              /\ fd_node' = Front(fd_node)
              /\ shrinkfd' = NoFd
              /\ UNCHANGED <<ringVars, up, pcache, rcache, fresh, stamping,
                             deletefd, history>>

-----------------------------------------------------------------------------
(***************************************************************************)
(* Thread start_client.                                                    *)
(***************************************************************************)

\* The address of fd can be read and split into host and port.
Answers(fd) == Known(fd) /\ caches_list[fd].addr # NoCache

\* A client asks for the server of a key with hash h.  On an empty ring
\* GetServer dereferences end(), which yields 0, and key2Index[0] inserts
\* 0 |-> 0.  An index outside fd_node reads whatever lies there.
ClientRequest(h) ==
    /\ up
    /\ \/ /\ key2Index = EmptyRing
          /\ \/ Crash
             \/ /\ \E fd \in Fd : Answers(fd)
                /\ key2Index' = [p \in {0} |-> 0]
                /\ UNCHANGED <<nodes, up, tables, fresh, net, threads, history>>
       \/ /\ key2Index # EmptyRing
          /\ LET place == Owner(key2Index, h) + 1
             IN  \/ place > Len(fd_node) /\ Crash
                 \/ place <= Len(fd_node) /\ ~Answers(fd_node[place]) /\ Crash
                 \/ /\ place <= Len(fd_node) => Answers(fd_node[place])
                    /\ UNCHANGED vars

-----------------------------------------------------------------------------
Init ==
    /\ up = TRUE
    /\ RingInit
    /\ fd_node = <<>> /\ caches_list = [f \in {} |-> NoFd]
    /\ pcache = <<>> /\ rcache = <<>>
    /\ fresh = {}
    /\ sock = [f \in Fd |-> NoCache] /\ live = {}
    /\ stamping = NoCache /\ deletefd = NoFd /\ shrinkfd = NoFd
    /\ starts = 0 /\ shrinks = 0
    /\ aliased = FALSE /\ revived = FALSE /\ overlap = FALSE

Next ==
    \/ \E c \in Cache : Expire(c)
    \/ \E fd \in Fd : Down(fd)
    \/ \E c \in Cache, fd \in Fd : Accept(c, fd)
    \/ \E fd \in Fd : \/ HeartbeatFault(fd)
                      \/ RegisterPrimary(fd)
                      \/ RegisterReplica(fd)
                      \/ HeartbeatAgain(fd)
    \/ Stamp
    \/ Detect
    \/ ShrinkBegin
    \/ ShrinkEnd
    \/ \E h \in HashSpace : ClientRequest(h)

Spec == Init /\ [][Next]_vars

\* The detector's loop never ends and never waits for anyone.
FairSpec == Spec /\ WF_vars(Detect)

-----------------------------------------------------------------------------
(***************************************************************************)
(* Properties.                                                             *)
(***************************************************************************)

\* The type of the master's state.
RingType ==
    /\ nodes \in Int
    /\ DOMAIN key2Index \subseteq HashSpace
    /\ key2Index \in [DOMAIN key2Index -> Nat]

TableType ==
    /\ fd_node \in Seq(Fd)
    /\ DOMAIN caches_list \subseteq Fd
    /\ caches_list \in [DOMAIN caches_list -> Entry]
    /\ pcache \in Seq(Fd \cup {NoFd})
    /\ rcache \in Seq(Fd)

RestType ==
    /\ up \in BOOLEAN
    /\ fresh \subseteq Cache
    /\ sock \in [Fd -> Cache \cup {NoCache}]
    /\ live \subseteq {f \in Fd : sock[f] # NoCache}
    /\ stamping \in Cache \cup {NoCache}
    /\ deletefd \in Fd \cup {NoFd}
    /\ shrinkfd \in Fd \cup {NoFd}
    /\ starts \in Nat /\ shrinks \in Nat
    /\ aliased \in BOOLEAN /\ revived \in BOOLEAN /\ overlap \in BOOLEAN

TypeOK == RingType /\ TableType /\ RestType

\* The number of primaries in the ring: all of fd_node, less the one that a
\* shrink has announced and not yet removed.
InRing == Len(fd_node) - (IF shrinkfd = NoFd THEN 0 ELSE 1)

\* fd_node and the ring agree, so that fd_node[index] in handleClientMessage
\* stays inside the vector, through any joins, failovers, removals and
\* shrinks in any order, unless fd_node changed its length while a shrink
\* was waiting.  (The index 0 may be left behind by a request that found the
\* ring empty.)
RoutingInRange ==
    ~overlap =>
        /\ nodes = InRing
        /\ \A p \in DOMAIN key2Index : key2Index[p] \in 0 .. (nodes - 1) \cup {0}

\* While it agrees with fd_node, the ring has every point of every primary in
\* it, each with the owner that a cache computes in cal_hash_key.
RingCovers ==
    ~overlap =>
        \A p \in DOMAIN RingOf(nodes) :
            p \in DOMAIN key2Index /\ key2Index[p] = RingOf(nodes)[p]

\* Every primary that keys are routed to has an entry that names it a
\* primary, and no primary has two indices, until accept() reuses a
\* descriptor the master still refers to or a join overlaps a shrink.
\* Otherwise the next request for one of its keys follows a null pointer.
RoutedAreKnown ==
    ~aliased /\ ~revived /\ ~overlap =>
        /\ \A i \in 1 .. Len(fd_node) :
              /\ Known(fd_node[i])
              /\ caches_list[fd_node[i]].status = "P"
              /\ caches_list[fd_node[i]].addr # NoCache
        /\ \A i, j \in 1 .. Len(fd_node) : fd_node[i] = fd_node[j] => i = j

\* Partners name each other, one is a primary and the other a backup, for all
\* entries but the one the detector is erasing and those whose partner has
\* been erased, until accept() reuses a descriptor still referred to.
PairingIsMutual ==
    ~aliased =>
        \A f \in DOMAIN caches_list \ {deletefd} :
            LET g == caches_list[f].pair
            IN  g # NoFd /\ Known(g) =>
                   /\ caches_list[g].pair = f
                   /\ {caches_list[f].status, caches_list[g].status} = {"P", "R"}

\* No primary in the ring is forgotten: one without a backup is in the stack
\* that the next backup is taken to, exactly once.
LonePrimariesWait ==
    ~aliased =>
        \A f \in ToSet(fd_node) :
            Known(f) /\ caches_list[f].pair = NoFd =>
                Cardinality({i \in 1 .. Len(pcache) : pcache[i] = f}) = 1

\* The descriptor that keys with hash h are routed to, if there is one.
Routable(h) ==
    key2Index # EmptyRing /\ Owner(key2Index, h) + 1 \in 1 .. Len(fd_node)
Route(h) == fd_node[Owner(key2Index, h) + 1]

\* Why a step may send the keys with hash h elsewhere: the new server has just
\* joined, it takes over from its failed partner, the old server is the one a
\* shrink announces, or an index has been removed by the detector.
MayMove(h) ==
    \/ Len(fd_node') > Len(fd_node) /\ Route(h)' = Last(fd_node)'
    \/ /\ Known(Route(h)) /\ Stale(Route(h))
       /\ Route(h)' = caches_list[Route(h)].pair
    \/ shrinkfd' = Route(h) /\ shrinkfd = NoFd
    \/ deletefd' # deletefd /\ Len(fd_node') < Len(fd_node)

\* Keys are never rerouted for any other reason; in particular a failover
\* moves the failed primary's keys only, and only to its backup.
RoutingIsStable ==
    [][ \A h \in HashSpace :
          ~overlap' /\ Routable(h) /\ Routable(h)' /\ Route(h)' # Route(h)
            => MayMove(h) ]_vars

\* A primary that stays silent does not stay in the ring: it is replaced or
\* removed, or is heard again, or the master has died, or one of the races that
\* lose its entry has happened (then its place in fd_node stays for good).
SilentPrimaryLeaves ==
    \A fd \in Fd :
        (up /\ fd \in ToSet(fd_node) /\ Known(fd) /\ Stale(fd))
          ~> \/ ~up \/ fd \notin ToSet(fd_node)
             \/ Known(fd) /\ ~Stale(fd)
             \/ aliased \/ revived \/ overlap

-----------------------------------------------------------------------------
(***************************************************************************)
(* What the repository's text says and the code does not do.               *)
(***************************************************************************)

\* The comments of shrinkageCapacity: the primary that a shrink announces is
\* the one that it removes.
ShrinkRemovesAnnounced ==
    [][ shrinkfd # NoFd /\ shrinkfd' = NoFd /\ up'
          => shrinkfd \notin ToSet(fd_node') ]_vars
=============================================================================
