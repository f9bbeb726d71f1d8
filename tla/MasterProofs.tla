---------------------------- MODULE MasterProofs ----------------------------
(***************************************************************************)
(* Proofs about the master, for any number of cache servers, descriptors,  *)
(* connections and shrinks, and any hash function: its state has its type, *)
(* the ring and fd_node agree unless a shrink was overlapped, partners     *)
(* name each other, lone primaries wait for a backup exactly once, every   *)
(* primary that keys are routed to has an entry, and keys are rerouted for *)
(* good reasons only.                                                      *)
(*                                                                         *)
(* RoutingInRange is not inductive: to see that removing the points of the *)
(* last shard removes the last index, one must know that every point       *)
(* carries an index it belongs to.  RangeInv adds that.  Partners name     *)
(* each other because an entry is paired only when it is new, and no table *)
(* refers to a new entry, or when it waits in a stack, and what waits in a *)
(* stack has no partner.  Linked says all of this at once.                 *)
(***************************************************************************)
EXTENDS Master, ConsistentHashProofs, SequenceLemmas

\* The place of a descriptor in fd_node.
LEMMA PlacesProperties ==
    ASSUME TypeOK, NEW fd, Places(fd) # {}
    PROVE  Least(Places(fd)) \in 1 .. Len(fd_node)
<1>1. Places(fd) \subseteq Nat
  BY DEF Places, TypeOK, TableType
<1>2. Least(Places(fd)) \in Places(fd)
  BY <1>1, LeastProperties
<1> QED
  BY <1>2 DEF Places

-----------------------------------------------------------------------------
(***************************************************************************)
(* The ring inside the master.  Its number of shards may be any integer    *)
(* once a shrink has been overlapped, and the point 0 may carry the index  *)
(* 0 without belonging to it.                                              *)
(***************************************************************************)

\* Every index above 0 is below n and is one its point belongs to.
Bounded(ring, n) ==
    \A p \in DOMAIN ring :
        ring[p] = 0 \/ (ring[p] < n /\ p \in Points(ring[p]))

\* addNode on the master's ring keeps its type and its bound, one shard more.
LEMMA AddNodeInMaster ==
    ASSUME RingType, NEW index \in Nat, addNode(index)
    PROVE  /\ RingType'
           /\ nodes' = nodes + 1
           /\ index = nodes /\ Bounded(key2Index, nodes)
                => Bounded(key2Index', nodes')
<1> USE DEF RingType, Bounded
<1>1. nodes' \in Int /\ nodes' = nodes + 1
  BY DEF addNode
<1>2. DOMAIN key2Index' = DOMAIN key2Index \cup Points(index)
  BY DEF addNode
<1>3. \A p \in DOMAIN key2Index' :
        \/ p \in DOMAIN key2Index /\ key2Index'[p] = key2Index[p]
        \/ p \in Points(index) /\ key2Index'[p] = index
  BY <1>2 DEF addNode
<1>4. key2Index' = [p \in DOMAIN key2Index' |-> key2Index'[p]]
  BY DEF addNode
<1>5. DOMAIN key2Index' \subseteq HashSpace
  BY <1>2, PointsAreHashes
<1>6. \A p \in DOMAIN key2Index' : key2Index'[p] \in Nat
  BY <1>3
<1>7. RingType'
  BY <1>1, <1>4, <1>5, <1>6
<1>8. ASSUME index = nodes, Bounded(key2Index, nodes)
      PROVE  Bounded(key2Index', nodes')
  BY <1>1, <1>3, <1>8
<1> QED
  BY <1>1, <1>7, <1>8

\* deleteNode on the master's ring keeps its type and its bound, one shard
\* less, whatever index it is given.
LEMMA DeleteNodeInMaster ==
    ASSUME RingType, NEW index \in Nat, deleteNode(index)
    PROVE  /\ RingType'
           /\ nodes' = nodes - 1
           /\ Bounded(key2Index, nodes) => Bounded(key2Index', nodes')
<1> USE DEF RingType, Bounded
<1> DEFINE kept == index .. (nodes - 2)
           again == UNION {Points(i) : i \in kept}
<1>1. nodes' \in Int /\ nodes' = nodes - 1
  BY DEF deleteNode
<1>2. DOMAIN key2Index' = (DOMAIN key2Index \ Points(nodes - 1)) \cup again
  BY DEF deleteNode
<1>3. ASSUME NEW p \in again
      PROVE  /\ key2Index'[p] \in kept
             /\ p \in Points(key2Index'[p])
  <2> DEFINE S == {i \in kept : p \in Points(i)}
  <2>1. key2Index'[p] = Greatest(S)
    BY <1>2, <1>3 DEF deleteNode
  <2>2. S \subseteq Nat /\ S # {} /\ nodes \in Nat /\ \A y \in S : y <= nodes
    BY <1>3
  <2>3. Greatest(S) \in S
    <3> HIDE DEF S
    <3> QED
      BY <2>2, GreatestProperties
  <2> QED
    BY <2>1, <2>3
<1>4. ASSUME NEW p \in DOMAIN key2Index', p \notin again
      PROVE  /\ p \in DOMAIN key2Index /\ p \notin Points(nodes - 1)
             /\ key2Index'[p] = key2Index[p]
  BY <1>2, <1>4 DEF deleteNode
<1>5. key2Index' = [p \in DOMAIN key2Index' |-> key2Index'[p]]
  BY DEF deleteNode
<1>6. DOMAIN key2Index' \subseteq HashSpace
  BY <1>2, PointsAreHashes
<1>7. \A p \in DOMAIN key2Index' : key2Index'[p] \in Nat
  <2> TAKE p \in DOMAIN key2Index'
  <2>1. CASE p \in again
    BY <1>3, <2>1
  <2>2. CASE p \notin again
    BY <1>4, <2>2
  <2> QED
    BY <2>1, <2>2
<1>8. RingType'
  BY <1>1, <1>5, <1>6, <1>7
<1>9. ASSUME Bounded(key2Index, nodes), NEW p \in DOMAIN key2Index'
      PROVE  \/ key2Index'[p] = 0
             \/ key2Index'[p] < nodes' /\ p \in Points(key2Index'[p])
  <2>1. CASE p \in again
    BY <1>1, <1>3, <2>1
  <2>2. CASE p \notin again
    <3>1. /\ p \in DOMAIN key2Index /\ p \notin Points(nodes - 1)
          /\ key2Index'[p] = key2Index[p]
      BY <1>4, <2>2
    <3>2. key2Index[p] = 0 \/ (key2Index[p] < nodes /\ p \in Points(key2Index[p]))
      BY <1>9, <3>1
    <3>3. key2Index[p] # nodes - 1 \/ key2Index[p] = 0
      BY <3>1, <3>2
    <3> QED
      BY <1>1, <3>1, <3>2, <3>3
  <2> QED
    BY <2>1, <2>2
<1> QED
  BY <1>1, <1>8, <1>9

-----------------------------------------------------------------------------
(***************************************************************************)
(* The table of entries.                                                   *)
(***************************************************************************)

EntryList(list) ==
    DOMAIN list \subseteq Fd /\ list \in [DOMAIN list -> Entry]

\* Writing pair_fd of an entry keeps the type of caches_list.
LEMMA SetPair ==
    ASSUME NEW list, EntryList(list), NEW f \in DOMAIN list,
           NEW g \in Fd \cup {NoFd}
    PROVE  /\ EntryList([list EXCEPT ![f].pair = g])
           /\ DOMAIN [list EXCEPT ![f].pair = g] = DOMAIN list
BY DEF EntryList, Entry

\* Writing the status of an entry keeps the type of caches_list.
LEMMA SetStatus ==
    ASSUME NEW list, EntryList(list), NEW f \in DOMAIN list,
           NEW role \in {"n", "P", "R"}
    PROVE  /\ EntryList([list EXCEPT ![f].status = role])
           /\ DOMAIN [list EXCEPT ![f].status = role] = DOMAIN list
BY DEF EntryList, Entry

\* Writing the address of an entry keeps the type of caches_list.
LEMMA SetAddress ==
    ASSUME NEW list, EntryList(list), NEW f \in DOMAIN list,
           NEW c \in Cache \cup {NoCache}
    PROVE  /\ EntryList([list EXCEPT ![f].addr = c])
           /\ DOMAIN [list EXCEPT ![f].addr = c] = DOMAIN list
BY DEF EntryList, Entry

\* So does registering an address with its role.
LEMMA EnterType ==
    ASSUME TypeOK, NEW fd \in DOMAIN caches_list, NEW role \in {"P", "R"}
    PROVE  EntryList(Enter(fd, role)) /\ DOMAIN Enter(fd, role) = DOMAIN caches_list
<1> DEFINE first == [caches_list EXCEPT ![fd].addr = sock[fd]]
<1>1. EntryList(caches_list) /\ sock[fd] \in Cache \cup {NoCache}
  BY DEF TypeOK, TableType, RestType, EntryList
<1>2. EntryList(first) /\ DOMAIN first = DOMAIN caches_list
  BY <1>1, SetAddress
<1>3. Enter(fd, role) = [first EXCEPT ![fd].status = role]
  BY DEF Enter
<1> HIDE DEF first
<1>4. role \in {"n", "P", "R"} /\ fd \in DOMAIN first
  BY <1>2
<1>5. /\ EntryList([first EXCEPT ![fd].status = role])
      /\ DOMAIN [first EXCEPT ![fd].status = role] = DOMAIN first
  BY <1>2, <1>4, SetStatus
<1> QED
  BY <1>2, <1>3, <1>5, Zenon

\* So does pairing two entries.
LEMMA PairType ==
    ASSUME NEW list, EntryList(list), NEW f \in DOMAIN list, NEW g \in DOMAIN list
    PROVE  EntryList(Pair(list, f, g)) /\ DOMAIN Pair(list, f, g) = DOMAIN list
<1> DEFINE first == [list EXCEPT ![f].pair = g]
<1>1. f \in Fd \cup {NoFd} /\ g \in Fd \cup {NoFd}
  BY DEF EntryList
<1>2. EntryList(first) /\ DOMAIN first = DOMAIN list
  BY <1>1, SetPair
<1>3. Pair(list, f, g) = [first EXCEPT ![g].pair = f]
  BY DEF Pair
<1> HIDE DEF first
<1>4. /\ EntryList([first EXCEPT ![g].pair = f])
      /\ DOMAIN [first EXCEPT ![g].pair = f] = DOMAIN first
  BY <1>1, <1>2, SetPair
<1> QED
  BY <1>2, <1>3, <1>4, Zenon

\* So does erasing entries.
LEMMA EraseType ==
    ASSUME NEW list, EntryList(list), NEW S
    PROVE  EntryList(Erase(list, S))
BY DEF EntryList, Erase, Restrict

-----------------------------------------------------------------------------
(***************************************************************************)
(* The inductive invariant.                                                *)
(***************************************************************************)

RangeInv == ~overlap => nodes = InRing /\ Bounded(key2Index, nodes)

IInv == TypeOK /\ RangeInv

\* The inductive invariant holds when the master starts.
LEMMA InitIInv == Init => IInv
<1> SUFFICES ASSUME Init
             PROVE  IInv
  OBVIOUS
<1>1. RingType
  BY DEF Init, RingInit, RingOf, RingType
<1>2. TableType
  BY DEF Init, TableType
<1>3. RestType
  BY DEF Init, RestType
<1>4. RangeInv
  BY DEF Init, RingInit, RingOf, RangeInv, InRing, Bounded
<1> QED
  BY <1>1, <1>2, <1>3, <1>4 DEF IInv, TypeOK

\* A crash leaves nothing to be wrong.
LEMMA CrashIInv ==
    ASSUME Crash
    PROVE  IInv'
<1>1. RingType'
  BY DEF Crash, EmptyRing, RingType
<1>2. TableType'
  BY DEF Crash, TableType
<1>3. RestType'
  BY DEF Crash, RestType
<1>4. RangeInv'
  BY DEF Crash, EmptyRing, RangeInv, InRing, Bounded
<1> QED
  BY <1>1, <1>2, <1>3, <1>4 DEF IInv, TypeOK

\* A step that leaves the ring, fd_node and the shrink alone keeps RangeInv.
LEMMA RangeUnchanged ==
    ASSUME RangeInv, UNCHANGED <<ringVars, fd_node, shrinkfd, overlap>>
    PROVE  RangeInv'
BY DEF RangeInv, InRing, Bounded, ringVars

\* A stamp that grows old keeps the inductive invariant.
LEMMA ExpireIInv ==
    ASSUME IInv, NEW c \in Cache, Expire(c)
    PROVE  IInv'
<1> USE DEF IInv, Expire, tables, net, threads, history
<1>1. RingType'
  BY DEF TypeOK, RingType, ringVars
<1>2. TableType' /\ RestType'
  BY DEF TypeOK, TableType, RestType
<1>3. RangeInv'
  BY RangeUnchanged
<1> QED
  BY <1>1, <1>2, <1>3 DEF TypeOK

\* A cache server that stops keeps the inductive invariant.
LEMMA DownIInv ==
    ASSUME IInv, NEW fd \in Fd, Down(fd)
    PROVE  IInv'
<1> USE DEF IInv, Down, tables, net, threads, history
<1>1. RingType'
  BY DEF TypeOK, RingType, ringVars
<1>2. TableType' /\ RestType'
  BY DEF TypeOK, TableType, RestType
<1>3. RangeInv'
  BY RangeUnchanged
<1> QED
  BY <1>1, <1>2, <1>3 DEF TypeOK

\* accept() keeps the inductive invariant.
LEMMA AcceptIInv ==
    ASSUME IInv, NEW c \in Cache, NEW fd \in Fd, Accept(c, fd)
    PROVE  IInv'
<1> USE DEF IInv, Accept, tables, net, threads, history
<1>1. RingType'
  BY DEF TypeOK, RingType, ringVars
<1>2. TableType'
  <2>1. /\ DOMAIN caches_list' \subseteq Fd
        /\ caches_list' \in [DOMAIN caches_list' -> Entry]
    BY DEF TypeOK, TableType, Entry
  <2> QED
    BY <2>1 DEF TypeOK, TableType
<1>3. RestType'
  BY MasterAssumption DEF TypeOK, RestType
<1>4. RangeInv'
  BY RangeUnchanged
<1> QED
  BY <1>1, <1>2, <1>3, <1>4 DEF TypeOK

\* Facts about a first heartbeat on fd.
LEMMA FirstOnFacts ==
    ASSUME TypeOK, NEW fd \in Fd, FirstOn(fd)
    PROVE  fd \in DOMAIN caches_list /\ sock[fd] \in Cache
BY DEF FirstOn, HeartbeatOn, Known, TypeOK, RestType

\* A primary's first heartbeat keeps it: fd_node and the ring grow together.
LEMMA RegisterPrimaryIInv ==
    ASSUME IInv, NEW fd \in Fd, RegisterPrimary(fd)
    PROVE  IInv'
<1> DEFINE partner == Last(rcache)
           members == Append(fd_node, fd)
           list == Enter(fd, "P")
<1>1. CASE Crash
  BY <1>1, CrashIInv
<1>2. CASE ~Crash
  <2>1. /\ FirstOn(fd)
        /\ rcache # <<>> => Known(partner)
        /\ fd_node' = members
        /\ \/ /\ rcache # <<>>
              /\ caches_list' = Pair(list, fd, partner)
              /\ rcache' = Front(rcache)
              /\ pcache' = pcache
           \/ /\ caches_list' = list
              /\ pcache' = Append(pcache, fd)
              /\ rcache' = rcache
        /\ addNode(Len(members) - 1)
        /\ stamping' = sock[fd]
        /\ revived' = (revived \/ deletefd = fd)
        /\ overlap' = (overlap \/ shrinkfd # NoFd)
        /\ UNCHANGED <<up, fresh, net, deletefd, shrinkfd, starts, shrinks, aliased>>
    BY <1>2 DEF RegisterPrimary
  <2>2. fd \in DOMAIN caches_list /\ sock[fd] \in Cache
    BY <2>1, FirstOnFacts DEF IInv
  <2>3. fd_node \in Seq(Fd) /\ members \in Seq(Fd) /\ Len(members) = Len(fd_node) + 1
    BY DEF IInv, TypeOK, TableType
  <2>4. Len(members) - 1 = Len(fd_node) /\ Len(fd_node) \in Nat
    BY <2>3
  <2> HIDE DEF members
  <2>5. /\ RingType'
        /\ nodes' = nodes + 1
        /\ Len(fd_node) = nodes /\ Bounded(key2Index, nodes)
             => Bounded(key2Index', nodes')
    BY <2>1, <2>4, AddNodeInMaster DEF IInv, TypeOK
  <2>6. TableType'
    <3>1. EntryList(list) /\ DOMAIN list = DOMAIN caches_list
      BY <2>2, EnterType DEF IInv
    <3>2. rcache # <<>> => Front(rcache) \in Seq(Fd)
      BY FrontLast DEF IInv, TypeOK, TableType
    <3>3. Append(pcache, fd) \in Seq(Fd \cup {NoFd})
      BY DEF IInv, TypeOK, TableType
    <3> HIDE DEF list, partner
    <3>4. EntryList(caches_list')
      <4>1. CASE rcache # <<>> /\ caches_list' = Pair(list, fd, partner)
        <5>1. fd \in DOMAIN list /\ partner \in DOMAIN list
          BY <2>1, <2>2, <3>1, <4>1 DEF Known
        <5>2. EntryList(Pair(list, fd, partner))
          BY <3>1, <5>1, PairType
        <5> QED
          BY <4>1, <5>2
      <4>2. CASE caches_list' = list
        BY <3>1, <4>2
      <4> QED
        BY <2>1, <4>1, <4>2
    <3> QED
      BY <2>1, <2>3, <3>2, <3>3, <3>4 DEF IInv, TypeOK, TableType, EntryList
  <2>7. RestType'
    BY <2>1, <2>2 DEF IInv, TypeOK, RestType, net
  <2>8. RangeInv'
    <3> SUFFICES ASSUME ~overlap, shrinkfd = NoFd
                 PROVE  nodes' = InRing' /\ Bounded(key2Index', nodes')
      BY <2>1 DEF RangeInv
    <3>1. nodes = Len(fd_node) /\ Bounded(key2Index, nodes)
      BY <2>4 DEF IInv, RangeInv, InRing
    <3>2. InRing' = Len(fd_node) + 1
      BY <2>1, <2>3, <2>4 DEF InRing
    <3> QED
      BY <2>5, <3>1, <3>2
  <2> QED
    BY <2>5, <2>6, <2>7, <2>8 DEF IInv, TypeOK
<1> QED
  BY <1>1, <1>2

\* A backup's first heartbeat keeps the inductive invariant.
LEMMA RegisterReplicaIInv ==
    ASSUME IInv, NEW fd \in Fd, RegisterReplica(fd)
    PROVE  IInv'
<1> DEFINE partner == Last(pcache)
           list == Enter(fd, "R")
<1>1. CASE Crash
  BY <1>1, CrashIInv
<1>2. CASE ~Crash
  <2>1. /\ FirstOn(fd)
        /\ \/ /\ pcache # <<>> /\ Known(partner)
              /\ caches_list' = Pair(list, fd, partner)
              /\ pcache' = Front(pcache)
              /\ rcache' = rcache
           \/ /\ caches_list' = list
              /\ rcache' = Append(rcache, fd)
              /\ pcache' = pcache
        /\ stamping' = sock[fd]
        /\ UNCHANGED <<ringVars, up, fd_node, fresh, net, deletefd, shrinkfd, history>>
    BY <1>2 DEF RegisterReplica
  <2>2. fd \in DOMAIN caches_list /\ sock[fd] \in Cache
    BY <2>1, FirstOnFacts DEF IInv
  <2>3. RingType'
    BY <2>1 DEF IInv, TypeOK, RingType, ringVars
  <2>4. TableType'
    <3>1. EntryList(list) /\ DOMAIN list = DOMAIN caches_list
      BY <2>2, EnterType DEF IInv
    <3>2. pcache # <<>> => Front(pcache) \in Seq(Fd \cup {NoFd})
      BY FrontLast DEF IInv, TypeOK, TableType
    <3>3. Append(rcache, fd) \in Seq(Fd)
      BY DEF IInv, TypeOK, TableType
    <3> HIDE DEF list, partner
    <3>4. EntryList(caches_list')
      <4>1. CASE Known(partner) /\ caches_list' = Pair(list, fd, partner)
        <5>1. fd \in DOMAIN list /\ partner \in DOMAIN list
          BY <2>2, <3>1, <4>1 DEF Known
        <5>2. EntryList(Pair(list, fd, partner))
          BY <3>1, <5>1, PairType
        <5> QED
          BY <4>1, <5>2
      <4>2. CASE caches_list' = list
        BY <3>1, <4>2
      <4> QED
        BY <2>1, <4>1, <4>2
    <3> QED
      BY <2>1, <3>2, <3>3, <3>4 DEF IInv, TypeOK, TableType, EntryList
  <2>5. RestType'
    BY <2>1, <2>2 DEF IInv, TypeOK, RestType, net, history
  <2>6. RangeInv'
    BY <2>1, RangeUnchanged DEF IInv, history
  <2> QED
    BY <2>3, <2>4, <2>5, <2>6 DEF IInv, TypeOK
<1> QED
  BY <1>1, <1>2

\* A later heartbeat keeps the inductive invariant.
LEMMA HeartbeatAgainIInv ==
    ASSUME IInv, NEW fd \in Fd, HeartbeatAgain(fd)
    PROVE  IInv'
<1> USE DEF IInv, HeartbeatAgain, HeartbeatOn, tables, net, threads, history
<1>1. RingType'
  BY DEF TypeOK, RingType, ringVars
<1>2. TableType' /\ RestType'
  BY DEF TypeOK, TableType, RestType
<1>3. RangeInv'
  BY RangeUnchanged
<1> QED
  BY <1>1, <1>2, <1>3 DEF TypeOK

\* handleHeartBeatResponse keeps the inductive invariant.
LEMMA StampIInv ==
    ASSUME IInv, Stamp
    PROVE  IInv'
<1> USE DEF IInv, Stamp, tables, net, history
<1>1. RingType'
  BY DEF TypeOK, RingType, ringVars
<1>2. TableType' /\ RestType'
  BY DEF TypeOK, TableType, RestType
<1>3. RangeInv'
  BY RangeUnchanged
<1> QED
  BY <1>1, <1>2, <1>3 DEF TypeOK

\* Closing descriptors keeps the type of the connections.
LEMMA CloseType ==
    ASSUME RestType, NEW S, Close(S)
    PROVE  /\ sock' \in [Fd -> Cache \cup {NoCache}]
           /\ live' \subseteq {f \in Fd : sock'[f] # NoCache}
BY DEF RestType, Close

\* Facts about an entry that the detector finds stale.
LEMMA FindsFacts ==
    ASSUME TypeOK, NEW fd \in Fd, NEW status, Finds(fd, status)
    PROVE  fd \in DOMAIN caches_list /\ caches_list[fd].pair \in Fd \cup {NoFd}
BY DEF Finds, Known, TypeOK, TableType, Entry

\* The loss of a backup keeps the inductive invariant.
LEMMA DetectReplicaIInv ==
    ASSUME IInv, NEW fd \in Fd, DetectReplica(fd)
    PROVE  IInv'
<1> DEFINE partner == caches_list[fd].pair
           list == [caches_list EXCEPT ![partner].pair = NoFd]
<1>1. CASE Crash
  BY <1>1, CrashIInv
<1>2. CASE ~Crash
  <2>1. /\ Finds(fd, "R") /\ Known(partner)
        /\ caches_list' = list
        /\ pcache' = Append(pcache, list[fd].pair)
        /\ Close({fd})
        /\ deletefd' = fd
        /\ UNCHANGED <<ringVars, up, fd_node, rcache, fresh, stamping, shrinkfd, history>>
    BY <1>2 DEF DetectReplica
  <2>2. RingType'
    BY <2>1 DEF IInv, TypeOK, RingType, ringVars
  <2>3. TableType'
    <3>1. fd \in DOMAIN caches_list
      BY <2>1, FindsFacts DEF IInv
    <3>2. EntryList(list) /\ DOMAIN list = DOMAIN caches_list
      BY <2>1, SetPair DEF IInv, TypeOK, TableType, EntryList, Known
    <3> HIDE DEF list, partner
    <3>3. list[fd].pair \in Fd \cup {NoFd}
      BY <3>1, <3>2 DEF EntryList, Entry
    <3> QED
      BY <2>1, <3>2, <3>3 DEF IInv, TypeOK, TableType, EntryList
  <2>4. RestType'
    BY <2>1, CloseType DEF IInv, TypeOK, RestType, history
  <2>5. RangeInv'
    BY <2>1, RangeUnchanged DEF IInv, history
  <2> QED
    BY <2>2, <2>3, <2>4, <2>5 DEF IInv, TypeOK
<1> QED
  BY <1>1, <1>2

\* A failover keeps it: fd_node keeps its length and the ring is untouched.
LEMMA DetectPromoteIInv ==
    ASSUME IInv, NEW fd \in Fd, DetectPromote(fd)
    PROVE  IInv'
<1> DEFINE partner == caches_list[fd].pair
           members == IF Places(fd) = {} THEN fd_node
                      ELSE [fd_node EXCEPT ![Least(Places(fd))] = partner]
           list == [caches_list EXCEPT ![partner].pair = NoFd,
                                       ![partner].status = "P"]
<1>1. CASE Crash
  BY <1>1, CrashIInv
<1>2. CASE ~Crash
  <2>1. /\ Finds(fd, "P") /\ Known(partner)
        /\ fd_node' = members
        /\ caches_list' = list
        /\ pcache' = Append(pcache, partner)
        /\ Close({fd})
        /\ deletefd' = fd
        /\ UNCHANGED <<ringVars, up, rcache, fresh, stamping, shrinkfd, history>>
    BY <1>2 DEF DetectPromote
  <2>2. partner \in DOMAIN caches_list /\ partner \in Fd
    BY <2>1 DEF Known, IInv, TypeOK, TableType
  <2>3. RingType'
    BY <2>1 DEF IInv, TypeOK, RingType, ringVars
  <2>4. members \in Seq(Fd) /\ Len(members) = Len(fd_node)
    <3>1. CASE Places(fd) = {}
      BY <3>1 DEF IInv, TypeOK, TableType
    <3>2. CASE Places(fd) # {}
      <4>1. Least(Places(fd)) \in 1 .. Len(fd_node)
        BY <3>2, PlacesProperties DEF IInv
      <4> HIDE DEF partner
      <4>2. fd_node \in Seq(Fd)
        BY DEF IInv, TypeOK, TableType
      <4> QED
        BY <2>2, <3>2, <4>1, <4>2, ExceptSeq
    <3> QED
      BY <3>1, <3>2
  <2>5. TableType'
    <3> DEFINE first == [caches_list EXCEPT ![partner].pair = NoFd]
    <3>1. EntryList(first) /\ DOMAIN first = DOMAIN caches_list
      BY <2>2, SetPair DEF IInv, TypeOK, TableType, EntryList
    <3>2. list = [first EXCEPT ![partner].status = "P"]
      OBVIOUS
    <3> HIDE DEF first, partner, list
    <3>3. EntryList([first EXCEPT ![partner].status = "P"])
      BY <2>2, <3>1, SetStatus
    <3>4. EntryList(caches_list')
      BY <2>1, <3>2, <3>3, Zenon
    <3> HIDE DEF members
    <3>5. fd_node' \in Seq(Fd) /\ pcache' \in Seq(Fd \cup {NoFd}) /\ rcache' \in Seq(Fd)
      BY <2>1, <2>2, <2>4 DEF IInv, TypeOK, TableType
    <3> QED
      BY <3>4, <3>5 DEF TableType, EntryList
  <2>6. RestType'
    BY <2>1, CloseType DEF IInv, TypeOK, RestType, history
  <2>7. RangeInv'
    <3> HIDE DEF members, list
    <3>1. InRing' = InRing /\ overlap' = overlap
      BY <2>1, <2>4 DEF InRing, history
    <3> QED
      BY <2>1, <3>1 DEF IInv, RangeInv, Bounded, ringVars
  <2> QED
    BY <2>3, <2>5, <2>6, <2>7 DEF IInv, TypeOK
<1> QED
  BY <1>1, <1>2

\* The loss of a lone primary keeps it: fd_node and the ring shrink together.
LEMMA DetectLostIInv ==
    ASSUME IInv, NEW fd \in Fd, DetectLost(fd)
    PROVE  IInv'
<1> DEFINE first == Least(Places(fd))
<1>1. CASE Crash
  BY <1>1, CrashIInv
<1>2. CASE ~Crash
  <2>1. /\ fd_node' = IF Places(fd) = {} THEN fd_node ELSE RemoveAt(fd_node, first)
        /\ IF Places(fd) = {} THEN UNCHANGED ringVars ELSE deleteNode(first - 1)
        /\ overlap' = (overlap \/ (shrinkfd # NoFd /\ Places(fd) # {}))
        /\ Close({fd})
        /\ deletefd' = fd
        /\ UNCHANGED <<up, caches_list, pcache, rcache, fresh, stamping, shrinkfd,
                       starts, shrinks, aliased, revived>>
    BY <1>2 DEF DetectLost
  <2>2. RestType'
    BY <2>1, CloseType DEF IInv, TypeOK, RestType
  <2>3. CASE Places(fd) = {}
    <3>1. UNCHANGED <<ringVars, fd_node, shrinkfd, overlap>>
      BY <2>1, <2>3 DEF IInv, TypeOK, RestType
    <3>2. RingType' /\ TableType'
      BY <2>1, <3>1 DEF IInv, TypeOK, RingType, TableType, ringVars
    <3> QED
      BY <2>2, <3>1, <3>2, RangeUnchanged DEF IInv, TypeOK
  <2>4. CASE Places(fd) # {}
    <3>1. first \in 1 .. Len(fd_node) /\ fd_node \in Seq(Fd) /\ Len(fd_node) \in Nat
      BY <2>4, PlacesProperties DEF IInv, TypeOK, TableType
    <3> HIDE DEF first
    <3>2. fd_node' \in Seq(Fd) /\ Len(fd_node') = Len(fd_node) - 1
      BY <2>1, <2>4, <3>1, RemoveAtProperties
    <3>3. first - 1 \in Nat
      BY <3>1
    <3>4. /\ RingType'
          /\ nodes' = nodes - 1
          /\ Bounded(key2Index, nodes) => Bounded(key2Index', nodes')
      BY <2>1, <2>4, <3>3, DeleteNodeInMaster DEF IInv, TypeOK
    <3>5. TableType'
      BY <2>1, <3>2 DEF IInv, TypeOK, TableType
    <3>6. RangeInv'
      <4> SUFFICES ASSUME ~overlap, shrinkfd = NoFd
                   PROVE  nodes' = InRing' /\ Bounded(key2Index', nodes')
        BY <2>1, <2>4 DEF RangeInv
      <4>1. nodes = Len(fd_node) /\ Bounded(key2Index, nodes)
        BY <3>1 DEF IInv, RangeInv, InRing
      <4>2. InRing' = Len(fd_node) - 1
        BY <2>1, <3>1, <3>2 DEF InRing
      <4> QED
        BY <3>4, <4>1, <4>2
    <3> QED
      BY <2>2, <3>4, <3>5, <3>6 DEF IInv, TypeOK
  <2> QED
    BY <2>3, <2>4
<1> QED
  BY <1>1, <1>2

\* Condemning a connection without a heartbeat keeps the inductive invariant.
LEMMA DetectUnregisteredIInv ==
    ASSUME IInv, NEW fd \in Fd, DetectUnregistered(fd)
    PROVE  IInv'
<1> USE DEF IInv, DetectUnregistered, tables, net, history
<1>1. RingType'
  BY DEF TypeOK, RingType, ringVars
<1>2. TableType' /\ RestType'
  BY DEF TypeOK, TableType, RestType
<1>3. RangeInv'
  BY RangeUnchanged
<1> QED
  BY <1>1, <1>2, <1>3 DEF TypeOK

\* The detector's erase() keeps the inductive invariant.
LEMMA DetectEraseIInv ==
    ASSUME IInv, DetectErase
    PROVE  IInv'
<1> USE DEF IInv, DetectErase, net, history
<1>1. RingType'
  BY DEF TypeOK, RingType, ringVars
<1>2. EntryList(caches_list')
  BY EraseType DEF TypeOK, TableType, EntryList
<1>3. TableType' /\ RestType'
  BY <1>2 DEF TypeOK, TableType, RestType, EntryList
<1>4. RangeInv'
  BY RangeUnchanged
<1> QED
  BY <1>1, <1>3, <1>4 DEF TypeOK

\* The start of a shrink keeps it: the ring is one short of fd_node.
LEMMA ShrinkBeginIInv ==
    ASSUME IInv, ShrinkBegin
    PROVE  IInv'
<1>1. CASE Crash
  BY <1>1, CrashIInv
<1>2. CASE ~Crash
  <2>1. /\ shrinkfd = NoFd /\ fd_node # <<>>
        /\ deleteNode(Len(fd_node) - 1)
        /\ shrinkfd' = Last(fd_node)
        /\ shrinks' = shrinks + 1
        /\ UNCHANGED <<up, tables, fresh, net, stamping, deletefd, starts, aliased,
                       revived, overlap>>
    BY <1>2 DEF ShrinkBegin
  <2>2. Last(fd_node) \in Fd /\ Len(fd_node) \in Nat \ {0}
    BY <2>1, FrontLast DEF IInv, TypeOK, TableType
  <2>3. Len(fd_node) - 1 \in Nat
    BY <2>2
  <2>4. /\ RingType'
        /\ nodes' = nodes - 1
        /\ Bounded(key2Index, nodes) => Bounded(key2Index', nodes')
    BY <2>1, <2>3, DeleteNodeInMaster DEF IInv, TypeOK
  <2>5. TableType'
    BY <2>1 DEF IInv, TypeOK, TableType, tables
  <2>6. RestType'
    BY <2>1, <2>2 DEF IInv, TypeOK, RestType, net
  <2>7. RangeInv'
    <3> SUFFICES ASSUME ~overlap
                 PROVE  nodes' = InRing' /\ Bounded(key2Index', nodes')
      BY <2>1 DEF RangeInv
    <3>1. nodes = Len(fd_node) /\ Bounded(key2Index, nodes)
      BY <2>1, <2>2 DEF IInv, RangeInv, InRing
    <3>2. InRing' = Len(fd_node) - 1
      BY <2>1, <2>2, MasterAssumption DEF InRing, tables
    <3> QED
      BY <2>4, <3>1, <3>2
  <2> QED
    BY <2>4, <2>5, <2>6, <2>7 DEF IInv, TypeOK
<1> QED
  BY <1>1, <1>2

\* The end of a shrink keeps it: fd_node follows the ring.
LEMMA ShrinkEndIInv ==
    ASSUME IInv, ShrinkEnd
    PROVE  IInv'
<1> DEFINE gone == {shrinkfd, caches_list[shrinkfd].pair} \cap Fd
<1>1. CASE Crash
  BY <1>1, CrashIInv
<1>2. CASE ~Crash
  <2>1. /\ shrinkfd # NoFd /\ fd_node # <<>>
        /\ caches_list' = Erase(caches_list, gone)
        /\ Close(gone)
        /\ fd_node' = Front(fd_node)
        /\ shrinkfd' = NoFd
        /\ UNCHANGED <<ringVars, up, pcache, rcache, fresh, stamping, deletefd, history>>
    BY <1>2 DEF ShrinkEnd
  <2> HIDE DEF gone
  <2>2. fd_node' \in Seq(Fd) /\ Len(fd_node') = Len(fd_node) - 1 /\ Len(fd_node) \in Nat
    BY <2>1, FrontLast DEF IInv, TypeOK, TableType
  <2>3. RingType'
    BY <2>1 DEF IInv, TypeOK, RingType, ringVars
  <2>4. EntryList(caches_list')
    BY <2>1, EraseType DEF IInv, TypeOK, TableType, EntryList
  <2>5. TableType'
    BY <2>1, <2>2, <2>4 DEF IInv, TypeOK, TableType, EntryList
  <2>6. RestType'
    BY <2>1, CloseType DEF IInv, TypeOK, RestType, history
  <2>7. RangeInv'
    <3>1. InRing' = InRing /\ overlap' = overlap
      BY <2>1, <2>2 DEF InRing, history
    <3> QED
      BY <2>1, <3>1 DEF IInv, RangeInv, Bounded, ringVars
  <2> QED
    BY <2>3, <2>5, <2>6, <2>7 DEF IInv, TypeOK
<1> QED
  BY <1>1, <1>2

\* A step that changes nothing keeps the inductive invariant.
LEMMA StutterIInv ==
    ASSUME IInv, UNCHANGED vars
    PROVE  IInv'
<1> USE DEF IInv, vars, tables, net, threads, history
<1>1. RingType'
  BY DEF TypeOK, RingType, ringVars
<1>2. TableType' /\ RestType'
  BY DEF TypeOK, TableType, RestType
<1>3. RangeInv'
  BY RangeUnchanged
<1> QED
  BY <1>1, <1>2, <1>3 DEF TypeOK

\* A client's request keeps it, also one that finds the ring empty.
LEMMA ClientRequestIInv ==
    ASSUME IInv, NEW h \in HashSpace, ClientRequest(h)
    PROVE  IInv'
<1>1. CASE Crash
  BY <1>1, CrashIInv
<1>2. CASE UNCHANGED vars
  BY <1>2, StutterIInv
<1>3. CASE /\ key2Index' = [p \in {0} |-> 0]
           /\ UNCHANGED <<nodes, up, tables, fresh, net, threads, history>>
  <2>1. 0 \in HashSpace
    BY RingAssumption DEF HashSpace
  <2>2. RingType'
    BY <1>3, <2>1 DEF IInv, TypeOK, RingType
  <2>3. TableType' /\ RestType'
    BY <1>3 DEF IInv, TypeOK, TableType, RestType, tables, net, threads, history
  <2>4. RangeInv'
    BY <1>3 DEF IInv, RangeInv, InRing, Bounded, tables, threads, history
  <2> QED
    BY <2>2, <2>3, <2>4 DEF IInv, TypeOK
<1> QED
  BY <1>1, <1>2, <1>3 DEF ClientRequest

\* Every step of the master keeps the inductive invariant.
LEMMA NextIInv ==
    ASSUME IInv, [Next]_vars
    PROVE  IInv'
<1>1. CASE \E c \in Cache : Expire(c)
  BY <1>1, ExpireIInv
<1>2. CASE \E fd \in Fd : Down(fd)
  BY <1>2, DownIInv
<1>3. CASE \E c \in Cache, fd \in Fd : Accept(c, fd)
  BY <1>3, AcceptIInv
<1>4. CASE \E fd \in Fd : HeartbeatFault(fd)
  BY <1>4, CrashIInv DEF HeartbeatFault
<1>5. CASE \E fd \in Fd : RegisterPrimary(fd)
  BY <1>5, RegisterPrimaryIInv
<1>6. CASE \E fd \in Fd : RegisterReplica(fd)
  BY <1>6, RegisterReplicaIInv
<1>7. CASE \E fd \in Fd : HeartbeatAgain(fd)
  BY <1>7, HeartbeatAgainIInv
<1>8. CASE Stamp
  BY <1>8, StampIInv
<1>9. CASE Detect
  BY <1>9, DetectReplicaIInv, DetectPromoteIInv, DetectLostIInv,
     DetectUnregisteredIInv, DetectEraseIInv DEF Detect
<1>10. CASE ShrinkBegin
  BY <1>10, ShrinkBeginIInv
<1>11. CASE ShrinkEnd
  BY <1>11, ShrinkEndIInv
<1>12. CASE \E h \in HashSpace : ClientRequest(h)
  BY <1>12, ClientRequestIInv
<1>13. CASE UNCHANGED vars
  BY <1>13, StutterIInv
<1> QED
  BY <1>1, <1>2, <1>3, <1>4, <1>5, <1>6, <1>7, <1>8, <1>9, <1>10, <1>11,
     <1>12, <1>13 DEF Next

\* The inductive invariant implies the property.
LEMMA IInvImpliesRouting == IInv => RoutingInRange
<1> SUFFICES ASSUME IInv, ~overlap, NEW p \in DOMAIN key2Index
             PROVE  nodes = InRing /\ key2Index[p] \in 0 .. (nodes - 1) \cup {0}
  BY DEF RoutingInRange, IInv, RangeInv
<1>1. key2Index[p] \in Nat /\ nodes \in Int
  BY DEF IInv, TypeOK, RingType
<1> QED
  BY <1>1 DEF IInv, RangeInv, Bounded

\* The master's tables keep their types whatever the threads, the cache
\* servers and the clients do.
THEOREM MasterTypeCorrect == Spec => []TypeOK
<1>1. IInv => TypeOK
  BY DEF IInv
<1> QED
  BY InitIInv, NextIInv, <1>1, PTL DEF Spec

\* fd_node and the ring agree, and every index the ring hands out lies inside
\* fd_node, unless fd_node changed its length while a shrink was waiting.
THEOREM MasterRoutingInRange == Spec => []RoutingInRange
BY InitIInv, NextIInv, IInvImpliesRouting, PTL DEF Spec

-----------------------------------------------------------------------------
(***************************************************************************)
(* The ring has every point of every primary, when no two shards share a   *)
(* point and none has the point 0.  The property says nothing of the       *)
(* points that belong to no primary; without those addNode, which never    *)
(* overwrites, could find the place of a new point taken.                  *)
(***************************************************************************)

\* The points of the shards below n, each with its owner, and no others but
\* the one that a request on an empty ring leaves behind.
Covers(ring, n) ==
    /\ \A i \in 0 .. (n - 1) : \A p \in Points(i) : p \in DOMAIN ring /\ ring[p] = i
    /\ \A p \in DOMAIN ring : \/ p = 0 /\ ring[p] = 0
                              \/ ring[p] < n /\ p \in Points(ring[p])

CoverInv == ~overlap => Covers(key2Index, nodes)

\* No point of a shard is 0.
LEMMA PointsAboveZero ==
    ASSUME NoPointAtZero, NEW i, NEW p \in Points(i)
    PROVE  p # 0
BY DEF NoPointAtZero, Points

\* addNode with the next index keeps the ring complete.
LEMMA AddNodeCovers ==
    ASSUME NoCollision, NoPointAtZero, nodes \in Nat, RingType,
           Covers(key2Index, nodes), addNode(nodes)
    PROVE  Covers(key2Index', nodes')
<1>1. nodes' = nodes + 1
  BY DEF addNode
<1>2. DOMAIN key2Index' = DOMAIN key2Index \cup Points(nodes)
  BY DEF addNode
<1>3. /\ \A p \in DOMAIN key2Index : key2Index'[p] = key2Index[p]
      /\ \A p \in Points(nodes) : p \notin DOMAIN key2Index => key2Index'[p] = nodes
  BY <1>2 DEF addNode
<1>4. \A p \in Points(nodes) : p \notin DOMAIN key2Index
  <2> SUFFICES ASSUME NEW p \in Points(nodes), p \in DOMAIN key2Index
               PROVE  FALSE
    OBVIOUS
  <2>1. p # 0
    BY PointsAboveZero
  <2>2. key2Index[p] < nodes /\ p \in Points(key2Index[p])
    BY <2>1 DEF Covers
  <2>3. key2Index[p] = nodes
    BY <2>2, PointsDisjoint
  <2> QED
    BY <2>2, <2>3
<1>5. ASSUME NEW i \in 0 .. (nodes' - 1), NEW p \in Points(i)
      PROVE  p \in DOMAIN key2Index' /\ key2Index'[p] = i
  <2>1. CASE i = nodes
    BY <1>2, <1>3, <1>4, <2>1
  <2>2. CASE i # nodes
    <3>1. i \in 0 .. (nodes - 1)
      BY <1>1, <2>2
    <3> QED
      BY <1>2, <1>3, <3>1 DEF Covers
  <2> QED
    BY <2>1, <2>2
<1>6. ASSUME NEW p \in DOMAIN key2Index'
      PROVE  \/ p = 0 /\ key2Index'[p] = 0
             \/ key2Index'[p] < nodes' /\ p \in Points(key2Index'[p])
  <2>1. CASE p \in DOMAIN key2Index
    <3>1. key2Index[p] \in Nat
      BY <2>1 DEF RingType
    <3> QED
      BY <1>1, <1>3, <2>1, <3>1 DEF Covers
  <2>2. CASE p \notin DOMAIN key2Index
    BY <1>1, <1>2, <1>3, <2>2
  <2> QED
    BY <2>1, <2>2
<1> QED
  BY <1>5, <1>6 DEF Covers

\* deleteNode with any index keeps the ring of one shard less complete.
LEMMA DeleteNodeCovers ==
    ASSUME NoCollision, nodes \in Nat \ {0}, RingType, NEW index \in Nat,
           Covers(key2Index, nodes), deleteNode(index)
    PROVE  Covers(key2Index', nodes')
<1> DEFINE kept == index .. (nodes - 2)
           again == UNION {Points(i) : i \in kept}
<1>1. nodes' = nodes - 1
  BY DEF deleteNode
<1>2. DOMAIN key2Index' = (DOMAIN key2Index \ Points(nodes - 1)) \cup again
  BY DEF deleteNode
<1>3. ASSUME NEW p \in again
      PROVE  key2Index'[p] \in kept /\ p \in Points(key2Index'[p])
  <2> DEFINE S == {i \in kept : p \in Points(i)}
  <2>1. key2Index'[p] = Greatest(S)
    BY <1>2, <1>3 DEF deleteNode
  <2>2. S \subseteq Nat /\ S # {} /\ nodes \in Nat /\ \A y \in S : y <= nodes
    BY <1>3
  <2>3. Greatest(S) \in S
    <3> HIDE DEF S
    <3> QED
      BY <2>2, GreatestProperties
  <2> QED
    BY <2>1, <2>3
<1>4. ASSUME NEW p \in DOMAIN key2Index \ Points(nodes - 1), p \notin again
      PROVE  p \in DOMAIN key2Index' /\ key2Index'[p] = key2Index[p]
  BY <1>2, <1>4 DEF deleteNode
<1>5. ASSUME NEW i \in 0 .. (nodes' - 1), NEW p \in Points(i)
      PROVE  p \in DOMAIN key2Index' /\ key2Index'[p] = i
  <2>1. i \in 0 .. (nodes - 1) /\ i # nodes - 1
    BY <1>1
  <2>2. p \in DOMAIN key2Index /\ key2Index[p] = i
    BY <2>1 DEF Covers
  <2>3. p \notin Points(nodes - 1)
    BY <2>1, PointsDisjoint
  <2>4. CASE p \in again
    <3>1. p \in Points(key2Index'[p])
      BY <1>3, <2>4
    <3>2. key2Index'[p] = i
      BY <3>1, PointsDisjoint
    <3> QED
      BY <1>2, <2>4, <3>2
  <2>5. CASE p \notin again
    BY <1>4, <2>2, <2>3, <2>5
  <2> QED
    BY <2>4, <2>5
<1>6. ASSUME NEW p \in DOMAIN key2Index'
      PROVE  \/ p = 0 /\ key2Index'[p] = 0
             \/ key2Index'[p] < nodes' /\ p \in Points(key2Index'[p])
  <2>1. CASE p \in again
    BY <1>1, <1>3, <2>1
  <2>2. CASE p \notin again
    <3>1. /\ p \in DOMAIN key2Index /\ p \notin Points(nodes - 1)
          /\ key2Index'[p] = key2Index[p] /\ key2Index[p] \in Nat
      BY <1>2, <1>4, <2>2 DEF RingType
    <3> QED
      BY <1>1, <3>1 DEF Covers
  <2> QED
    BY <2>1, <2>2
<1> QED
  BY <1>5, <1>6 DEF Covers

\* Every step of the master keeps the ring complete.
LEMMA NextCover ==
    ASSUME NoCollision, NoPointAtZero, IInv, CoverInv, [Next]_vars
    PROVE  CoverInv'
<1>1. ASSUME UNCHANGED <<ringVars, overlap>>
      PROVE  CoverInv'
  BY <1>1 DEF CoverInv, Covers, ringVars
<1>2. ASSUME Crash
      PROVE  CoverInv'
  BY <1>2 DEF Crash, CoverInv, Covers, EmptyRing
<1>3. ASSUME NEW fd \in Fd, RegisterPrimary(fd), ~Crash
      PROVE  CoverInv'
  <2>1. /\ addNode(Len(Append(fd_node, fd)) - 1)
        /\ overlap' = (overlap \/ shrinkfd # NoFd)
    BY <1>3 DEF RegisterPrimary
  <2> SUFFICES ASSUME ~overlap, shrinkfd = NoFd
               PROVE  Covers(key2Index', nodes')
    BY <2>1 DEF CoverInv
  <2>2. fd_node \in Seq(Fd) /\ Len(fd_node) \in Nat
    BY DEF IInv, TypeOK, TableType
  <2>3. nodes = Len(fd_node)
    BY <2>2 DEF IInv, RangeInv, InRing
  <2>4. Len(Append(fd_node, fd)) - 1 = nodes
    BY <2>2, <2>3
  <2> QED
    BY <2>1, <2>2, <2>3, <2>4, AddNodeCovers DEF CoverInv, IInv, TypeOK
<1>4. ASSUME NEW fd \in Fd, DetectLost(fd), ~Crash
      PROVE  CoverInv'
  <2>1. /\ IF Places(fd) = {} THEN UNCHANGED ringVars
           ELSE deleteNode(Least(Places(fd)) - 1)
        /\ overlap' = (overlap \/ (shrinkfd # NoFd /\ Places(fd) # {}))
    BY <1>4 DEF DetectLost
  <2>2. CASE Places(fd) = {}
    BY <1>1, <2>1, <2>2 DEF IInv, TypeOK, RestType
  <2>3. CASE Places(fd) # {}
    <3> SUFFICES ASSUME ~overlap, shrinkfd = NoFd
                 PROVE  Covers(key2Index', nodes')
      BY <2>1, <2>3 DEF CoverInv
    <3>1. Len(fd_node) \in Nat /\ Least(Places(fd)) \in 1 .. Len(fd_node)
      BY <2>3, PlacesProperties DEF IInv, TypeOK, TableType
    <3>2. nodes = Len(fd_node)
      BY <3>1 DEF IInv, RangeInv, InRing
    <3>3. nodes \in Nat \ {0} /\ Least(Places(fd)) - 1 \in Nat
      BY <3>1, <3>2
    <3> QED
      BY <2>1, <2>3, <3>3, DeleteNodeCovers DEF CoverInv, IInv, TypeOK
  <2> QED
    BY <2>2, <2>3
<1>5. ASSUME ShrinkBegin, ~Crash
      PROVE  CoverInv'
  <2>1. /\ shrinkfd = NoFd /\ fd_node # <<>>
        /\ deleteNode(Len(fd_node) - 1)
        /\ overlap' = overlap
    BY <1>5 DEF ShrinkBegin
  <2> SUFFICES ASSUME ~overlap
               PROVE  Covers(key2Index', nodes')
    BY <2>1 DEF CoverInv
  <2>2. Len(fd_node) \in Nat \ {0}
    BY <2>1, FrontLast DEF IInv, TypeOK, TableType
  <2>3. nodes = Len(fd_node)
    BY <2>1, <2>2 DEF IInv, RangeInv, InRing
  <2>4. Len(fd_node) - 1 \in Nat
    BY <2>2
  <2> QED
    BY <2>1, <2>2, <2>3, <2>4, DeleteNodeCovers DEF CoverInv, IInv, TypeOK
<1>6. ASSUME NEW h \in HashSpace, ClientRequest(h), ~Crash
      PROVE  CoverInv'
  <2>1. CASE UNCHANGED vars
    BY <1>1, <2>1 DEF vars, history
  <2>2. CASE /\ key2Index = EmptyRing
             /\ key2Index' = [p \in {0} |-> 0]
             /\ UNCHANGED <<nodes, history>>
    <3> SUFFICES ASSUME ~overlap
                 PROVE  Covers(key2Index', nodes')
      BY <2>2 DEF CoverInv, history
    <3>1. \A i \in 0 .. (nodes - 1) : Points(i) = {}
      BY <2>2 DEF CoverInv, Covers, EmptyRing
    <3> QED
      BY <2>2, <3>1 DEF Covers
  <2> QED
    BY <1>6, <2>1, <2>2 DEF ClientRequest
<1>7. ASSUME NEW fd \in Fd,
             \/ Down(fd) \/ RegisterReplica(fd) \/ HeartbeatAgain(fd)
             \/ DetectReplica(fd) \/ DetectPromote(fd) \/ DetectUnregistered(fd),
             ~Crash
      PROVE  UNCHANGED <<ringVars, overlap>>
  BY <1>7 DEF Down, RegisterReplica, HeartbeatAgain, DetectReplica, DetectPromote,
              DetectUnregistered, history
<1>8. ASSUME \/ \E c \in Cache : Expire(c)
             \/ \E c \in Cache, fd \in Fd : Accept(c, fd)
             \/ Stamp \/ DetectErase \/ ShrinkEnd \/ UNCHANGED vars,
             ~Crash
      PROVE  UNCHANGED <<ringVars, overlap>>
  BY <1>8 DEF Expire, Accept, Stamp, DetectErase, ShrinkEnd, vars, history
<1>9. (\E fd \in Fd : HeartbeatFault(fd)) => Crash
  BY DEF HeartbeatFault
<1> QED
  BY <1>1, <1>2, <1>3, <1>4, <1>5, <1>6, <1>7, <1>8, <1>9 DEF Next, Detect

\* The completeness of the ring implies the property.
LEMMA CoverImpliesRingCovers ==
    ASSUME NoCollision, IInv, CoverInv
    PROVE  RingCovers
<1> SUFFICES ASSUME ~overlap, NEW p \in DOMAIN RingOf(nodes)
             PROVE  p \in DOMAIN key2Index /\ key2Index[p] = RingOf(nodes)[p]
  BY DEF RingCovers
<1>1. PICK i \in 0 .. (nodes - 1) : p \in Points(i)
  BY DEF RingOf
<1>2. nodes \in Nat
  BY <1>1 DEF IInv, TypeOK, RingType
<1>3. RingOf(nodes)[p] = i
  BY <1>1, <1>2, RingOfProperties
<1> QED
  BY <1>1, <1>3 DEF CoverInv, Covers

\* While fd_node keeps its length during shrinks, the ring has every point of
\* every primary with the owner that the caches compute in cal_hash_key, after
\* any joins, failovers, losses and shrinks, in any interleaving.
THEOREM MasterRingCovers ==
    ASSUME NoCollision, NoPointAtZero
    PROVE  Spec => []RingCovers
<1>1. Init => CoverInv
  BY DEF Init, RingInit, RingOf, CoverInv, Covers
<1>2. IInv /\ CoverInv /\ [Next]_vars => CoverInv'
  BY NextCover
<1>3. IInv /\ CoverInv => RingCovers
  BY CoverImpliesRingCovers
<1>4. IInv /\ [Next]_vars => IInv'
  BY NextIInv
<1> QED
  BY <1>1, <1>2, <1>3, <1>4, InitIInv, PTL DEF Spec

-----------------------------------------------------------------------------
(***************************************************************************)
(* The tables without their order: the entries, the sets M of routed, P of *)
(* waiting primaries and R of waiting backups, and the condemned entry.    *)
(***************************************************************************)

\* No table refers to an entry without a heartbeat.
NewIsAlone(list, M, P, R) ==
    \A f \in DOMAIN list : list[f].status = "n" =>
        /\ list[f].pair = NoFd
        /\ f \notin M /\ f \notin P /\ f \notin R
        /\ \A g \in DOMAIN list : list[g].pair # f

\* What waits in a stack has the stack's role and no partner.
WaitsAlone(list, S, role) ==
    \A f \in S : f \in DOMAIN list => list[f].status = role /\ list[f].pair = NoFd

\* What is routed to is a primary, and waits if it has no backup.
RoutedWait(list, M, P) ==
    \A f \in M : f \in DOMAIN list =>
        list[f].status = "P" /\ (list[f].pair = NoFd => f \in P)

Roles(a, b) == (a = "P" /\ b = "R") \/ (a = "R" /\ b = "P")

\* Partners name each other.
Mutual(list, del) ==
    \A f, g \in DOMAIN list : list[f].pair = g /\ f # del =>
        list[g].pair = f /\ Roles(list[f].status, list[g].status)

Linked(list, M, P, R, del) ==
    /\ NewIsAlone(list, M, P, R)
    /\ WaitsAlone(list, P, "P") /\ WaitsAlone(list, R, "R")
    /\ RoutedWait(list, M, P)
    /\ Mutual(list, del)

\* t is list but for the entries in S.
Same(t, list, S) ==
    /\ DOMAIN t = DOMAIN list
    /\ \A x \in DOMAIN list \ S :
          t[x].pair = list[x].pair /\ t[x].status = list[x].status

\* A new entry that nothing refers to may be added.
LEMMA LinkNew ==
    ASSUME NEW list, NEW M, NEW P, NEW R, NEW del, Linked(list, M, P, R, del),
           NoFd \notin DOMAIN list,
           NEW fd, fd # NoFd, fd \notin DOMAIN list, fd # del,
           fd \notin M, fd \notin P, fd \notin R,
           \A g \in DOMAIN list : list[g].pair # fd,
           NEW t, DOMAIN t = DOMAIN list \cup {fd},
           t[fd].status = "n", t[fd].pair = NoFd,
           \A x \in DOMAIN list : t[x] = list[x]
    PROVE  Linked(t, M, P, R, del)
<1> USE DEF Linked
<1>1. NewIsAlone(t, M, P, R)
  BY DEF NewIsAlone
<1>2. WaitsAlone(t, P, "P") /\ WaitsAlone(t, R, "R") /\ RoutedWait(t, M, P)
  BY DEF WaitsAlone, RoutedWait
<1>3. Mutual(t, del)
  BY DEF Mutual
<1> QED
  BY <1>1, <1>2, <1>3

\* A new entry becomes a primary and takes a waiting backup.
LEMMA LinkPrimary ==
    ASSUME NEW list, NEW M, NEW P, NEW R, NEW del, Linked(list, M, P, R, del),
           NoFd \notin DOMAIN list,
           NEW f \in DOMAIN list, list[f].status = "n",
           NEW g \in DOMAIN list, g \in R,
           NEW t, Same(t, list, {f, g}), t[f].status = "P", t[f].pair = g,
           t[g].status = list[g].status, t[g].pair = f
    PROVE  Linked(t, M \cup {f}, P, R \ {g}, del)
<1> USE DEF Linked, Same
<1>1. g # f /\ g # NoFd /\ f # NoFd /\ list[g].status = "R" /\ list[g].pair = NoFd
  BY DEF NewIsAlone, WaitsAlone
<1>2. \A x \in DOMAIN list : x # del => list[x].pair # g
  BY <1>1 DEF Mutual
<1>3. \A x \in DOMAIN list : list[x].pair # f
  BY DEF NewIsAlone
<1>4. g \notin P /\ g \notin M
  BY <1>1 DEF WaitsAlone, RoutedWait
<1>5. NewIsAlone(t, M \cup {f}, P, R \ {g})
  BY <1>1 DEF NewIsAlone
<1>6. WaitsAlone(t, P, "P") /\ WaitsAlone(t, R \ {g}, "R") /\ RoutedWait(t, M \cup {f}, P)
  BY <1>1, <1>4 DEF WaitsAlone, RoutedWait, NewIsAlone
<1>7. Mutual(t, del)
  BY <1>1, <1>2, <1>3 DEF Mutual, Roles
<1> QED
  BY <1>5, <1>6, <1>7

\* A new entry becomes a primary and waits.
LEMMA LinkLonePrimary ==
    ASSUME NEW list, NEW M, NEW P, NEW R, NEW del, Linked(list, M, P, R, del),
           NoFd \notin DOMAIN list,
           NEW f \in DOMAIN list, list[f].status = "n",
           NEW t, Same(t, list, {f}), t[f].status = "P", t[f].pair = list[f].pair
    PROVE  Linked(t, M \cup {f}, P \cup {f}, R, del)
<1> USE DEF Linked, Same
<1>1. list[f].pair = NoFd /\ f \notin R /\ \A x \in DOMAIN list : list[x].pair # f
  BY DEF NewIsAlone
<1>2. NewIsAlone(t, M \cup {f}, P \cup {f}, R)
  BY <1>1 DEF NewIsAlone
<1>3. WaitsAlone(t, P \cup {f}, "P") /\ WaitsAlone(t, R, "R")
  BY <1>1 DEF WaitsAlone, NewIsAlone
<1>4. RoutedWait(t, M \cup {f}, P \cup {f})
  BY <1>1 DEF RoutedWait, NewIsAlone
<1>5. Mutual(t, del)
  BY <1>1 DEF Mutual, Roles
<1> QED
  BY <1>2, <1>3, <1>4, <1>5

\* A new entry becomes a backup and takes a waiting primary.
LEMMA LinkReplica ==
    ASSUME NEW list, NEW M, NEW P, NEW R, NEW del, Linked(list, M, P, R, del),
           NoFd \notin DOMAIN list,
           NEW f \in DOMAIN list, list[f].status = "n",
           NEW g \in DOMAIN list, g \in P,
           NEW t, Same(t, list, {f, g}), t[f].status = "R", t[f].pair = g,
           t[g].status = list[g].status, t[g].pair = f
    PROVE  Linked(t, M, P \ {g}, R, del)
<1> USE DEF Linked, Same
<1>1. g # f /\ g # NoFd /\ f # NoFd /\ list[g].status = "P" /\ list[g].pair = NoFd
  BY DEF NewIsAlone, WaitsAlone
<1>2. \A x \in DOMAIN list : x # del => list[x].pair # g
  BY <1>1 DEF Mutual
<1>3. f \notin P /\ f \notin M /\ f \notin R /\ \A x \in DOMAIN list : list[x].pair # f
  BY DEF NewIsAlone
<1>4. g \notin R
  BY <1>1 DEF WaitsAlone
<1>5. NewIsAlone(t, M, P \ {g}, R)
  BY <1>1 DEF NewIsAlone
<1>6. WaitsAlone(t, P \ {g}, "P") /\ WaitsAlone(t, R, "R") /\ RoutedWait(t, M, P \ {g})
  BY <1>1, <1>3, <1>4 DEF WaitsAlone, RoutedWait
<1>7. Mutual(t, del)
  BY <1>1, <1>2, <1>3 DEF Mutual, Roles
<1> QED
  BY <1>5, <1>6, <1>7

\* A new entry becomes a backup and waits.
LEMMA LinkLoneReplica ==
    ASSUME NEW list, NEW M, NEW P, NEW R, NEW del, Linked(list, M, P, R, del),
           NoFd \notin DOMAIN list,
           NEW f \in DOMAIN list, list[f].status = "n",
           NEW t, Same(t, list, {f}), t[f].status = "R", t[f].pair = list[f].pair
    PROVE  Linked(t, M, P, R \cup {f}, del)
<1> USE DEF Linked, Same
<1>1. /\ list[f].pair = NoFd /\ f \notin P /\ f \notin M
      /\ \A x \in DOMAIN list : list[x].pair # f
  BY DEF NewIsAlone
<1>2. NewIsAlone(t, M, P, R \cup {f})
  BY <1>1 DEF NewIsAlone
<1>3. WaitsAlone(t, P, "P") /\ WaitsAlone(t, R \cup {f}, "R") /\ RoutedWait(t, M, P)
  BY <1>1 DEF WaitsAlone, RoutedWait, NewIsAlone
<1>4. Mutual(t, del)
  BY <1>1 DEF Mutual, Roles
<1> QED
  BY <1>2, <1>3, <1>4

\* An entry is condemned, and its partner, a primary from now on, waits.  M2
\* may have the partner in the place of the condemned entry.
LEMMA LinkWidow ==
    ASSUME NEW list, NEW M, NEW P, NEW R, Linked(list, M, P, R, NoFd),
           NoFd \notin DOMAIN list,
           NEW f \in DOMAIN list, NEW g \in DOMAIN list, list[f].pair = g,
           NEW M2, M2 \subseteq M \cup {g},
           NEW t, Same(t, list, {g}), t[g].status = "P", t[g].pair = NoFd
    PROVE  Linked(t, M2, P \cup {g}, R, f)
<1> USE DEF Linked, Same
<1>1. /\ f # g /\ f # NoFd /\ g # NoFd /\ list[g].pair = f
      /\ Roles(list[f].status, list[g].status)
  BY DEF Mutual, Roles
<1>2. g \notin R /\ g \notin P
  BY <1>1 DEF WaitsAlone
<1>3. NewIsAlone(t, M2, P \cup {g}, R)
  BY <1>1 DEF NewIsAlone, Roles
<1>4. WaitsAlone(t, P \cup {g}, "P") /\ WaitsAlone(t, R, "R")
  BY <1>1, <1>2 DEF WaitsAlone
<1>5. RoutedWait(t, M2, P \cup {g})
  BY DEF RoutedWait
<1>6. Mutual(t, f)
  BY <1>1 DEF Mutual
<1> QED
  BY <1>3, <1>4, <1>5, <1>6

\* Entries may be erased, routed ones dropped, and an entry condemned.  Once
\* the condemned entry is gone none is condemned.
LEMMA LinkErase ==
    ASSUME NEW list, NEW M, NEW P, NEW R, NEW del, Linked(list, M, P, R, del),
           NEW M2, M2 \subseteq M,
           NEW t, DOMAIN t \subseteq DOMAIN list, \A x \in DOMAIN t : t[x] = list[x],
           NEW del2, del2 = del \/ del \notin DOMAIN t
    PROVE  Linked(t, M2, P, R, del2)
<1> USE DEF Linked
<1>1. NewIsAlone(t, M2, P, R)
  BY DEF NewIsAlone
<1>2. WaitsAlone(t, P, "P") /\ WaitsAlone(t, R, "R") /\ RoutedWait(t, M2, P)
  BY DEF WaitsAlone, RoutedWait
<1>3. Mutual(t, del2)
  BY DEF Mutual
<1> QED
  BY <1>1, <1>2, <1>3

-----------------------------------------------------------------------------
(***************************************************************************)
(* The fields of the entries after an update.                              *)
(***************************************************************************)

\* Setting two partners changes nothing but their pair_fd.
LEMMA PairFields ==
    ASSUME NEW list, EntryList(list), NEW f \in DOMAIN list, NEW g \in DOMAIN list
    PROVE  LET t == Pair(list, f, g)
           IN  /\ Same(t, list, {f, g})
               /\ t[g].pair = f /\ (f # g => t[f].pair = g)
               /\ \A x \in DOMAIN list :
                     t[x].status = list[x].status /\ t[x].addr = list[x].addr
<1> DEFINE first == [list EXCEPT ![f].pair = g]
           t == Pair(list, f, g)
<1>1. EntryList(first) /\ DOMAIN first = DOMAIN list
  BY SetPair DEF EntryList
<1>2. /\ first[f].pair = g
      /\ \A x \in DOMAIN list : x # f => first[x] = list[x]
      /\ \A x \in DOMAIN list :
            first[x].status = list[x].status /\ first[x].addr = list[x].addr
  BY DEF EntryList, Entry
<1>3. t = [first EXCEPT ![g].pair = f]
  BY DEF Pair
<1> HIDE DEF first, t
<1>4. /\ DOMAIN t = DOMAIN list
      /\ t[g].pair = f
      /\ \A x \in DOMAIN list : x # g => t[x] = first[x]
      /\ \A x \in DOMAIN list :
            t[x].status = first[x].status /\ t[x].addr = first[x].addr
  BY <1>1, <1>3 DEF EntryList, Entry
<1> QED
  BY <1>2, <1>4 DEF Same, t

\* Registering changes the address and the status of one entry.
LEMMA EnterFields ==
    ASSUME TypeOK, NEW fd \in DOMAIN caches_list, NEW role \in {"P", "R"}
    PROVE  LET t == Enter(fd, role)
           IN  /\ EntryList(t) /\ DOMAIN t = DOMAIN caches_list
               /\ t[fd].status = role /\ t[fd].addr = sock[fd]
               /\ t[fd].pair = caches_list[fd].pair
               /\ \A x \in DOMAIN caches_list : x # fd => t[x] = caches_list[x]
<1> DEFINE first == [caches_list EXCEPT ![fd].addr = sock[fd]]
           t == Enter(fd, role)
<1>1. EntryList(caches_list)
  BY DEF TypeOK, TableType, EntryList
<1>2. EntryList(t) /\ DOMAIN t = DOMAIN caches_list
  BY EnterType
<1>3. /\ DOMAIN first = DOMAIN caches_list
      /\ first[fd].addr = sock[fd] /\ first[fd].pair = caches_list[fd].pair
      /\ first[fd] \in [status : {"n", "P", "R"}, addr : {sock[fd]}, pair : Fd \cup {NoFd}]
      /\ \A x \in DOMAIN caches_list : x # fd => first[x] = caches_list[x]
  BY <1>1 DEF EntryList, Entry
<1>4. t = [first EXCEPT ![fd].status = role]
  BY DEF Enter
<1> HIDE DEF first, t
<1>5. /\ t[fd].status = role /\ t[fd].addr = first[fd].addr
      /\ t[fd].pair = first[fd].pair
      /\ \A x \in DOMAIN caches_list : x # fd => t[x] = first[x]
  BY <1>3, <1>4
<1> QED
  BY <1>2, <1>3, <1>5 DEF t

-----------------------------------------------------------------------------
(***************************************************************************)
(* The inductive invariant of the pairing.                                 *)
(***************************************************************************)

\* An entry has a role once it has an address.
Entered(list) ==
    \A f \in DOMAIN list : list[f].status = "n" <=> list[f].addr = NoCache

Paired ==
    /\ Entered(caches_list)
    /\ NoRepeat(pcache) /\ NoRepeat(rcache)
    /\ Linked(caches_list, ToSet(fd_node), ToSet(pcache), ToSet(rcache), deletefd)

PairInv == ~aliased => Paired

\* What the types say of the tables.
LEMMA TableFacts ==
    ASSUME TypeOK
    PROVE  /\ EntryList(caches_list) /\ NoFd \notin DOMAIN caches_list
           /\ fd_node \in Seq(Fd) /\ pcache \in Seq(Fd \cup {NoFd}) /\ rcache \in Seq(Fd)
           /\ aliased \in BOOLEAN /\ revived \in BOOLEAN /\ overlap \in BOOLEAN
BY MasterAssumption DEF TypeOK, TableType, RestType, EntryList

\* A crash leaves no pairs.
LEMMA CrashPaired ==
    ASSUME Crash
    PROVE  Paired'
<1>1. /\ caches_list' = [f \in {} |-> NoFd] /\ fd_node' = <<>> /\ pcache' = <<>>
      /\ rcache' = <<>>
  BY DEF Crash
<1> QED
  BY <1>1 DEF Paired, Entered, NoRepeat, Linked, NewIsAlone, WaitsAlone, RoutedWait,
              Mutual, ToSet

\* A step that leaves the tables alone keeps the pairing.
LEMMA PairedUnchanged ==
    ASSUME Paired, UNCHANGED <<tables, deletefd>>
    PROVE  Paired'
<1>1. UNCHANGED <<fd_node, caches_list, pcache, rcache, deletefd>>
  BY DEF tables
<1> QED
  BY <1>1 DEF Paired

\* accept() of a descriptor that no table refers to keeps the pairing.
LEMMA AcceptPaired ==
    ASSUME IInv, Paired, NEW c \in Cache, NEW fd \in Fd, Accept(c, fd), fd \notin Held
    PROVE  Paired'
<1>1. /\ DOMAIN caches_list' = DOMAIN caches_list \cup {fd}
      /\ caches_list'[fd] = [status |-> "n", addr |-> NoCache, pair |-> NoFd]
      /\ \A f \in DOMAIN caches_list : f # fd => caches_list'[f] = caches_list[f]
      /\ UNCHANGED <<fd_node, pcache, rcache, deletefd>>
  BY DEF Accept, threads
<1>2. /\ fd \notin DOMAIN caches_list /\ fd # deletefd
      /\ fd \notin ToSet(fd_node) /\ fd \notin ToSet(pcache) /\ fd \notin ToSet(rcache)
      /\ \A g \in DOMAIN caches_list : caches_list[g].pair # fd
  BY DEF Held
<1>3. NoFd \notin DOMAIN caches_list /\ fd # NoFd
  BY TableFacts, MasterAssumption DEF IInv
<1>4. /\ caches_list'[fd].status = "n" /\ caches_list'[fd].addr = NoCache
      /\ caches_list'[fd].pair = NoFd
  BY <1>1
<1>5. Entered(caches_list')
  BY <1>1, <1>2, <1>4 DEF Paired, Entered
<1>6. Linked(caches_list', ToSet(fd_node), ToSet(pcache), ToSet(rcache), deletefd)
  BY <1>1, <1>2, <1>3, <1>4, LinkNew DEF Paired
<1> QED
  BY <1>1, <1>5, <1>6 DEF Paired

\* A primary's first heartbeat keeps the pairing.
LEMMA RegisterPrimaryPaired ==
    ASSUME IInv, Paired, NEW fd \in Fd, RegisterPrimary(fd), ~Crash
    PROVE  Paired'
<1> DEFINE partner == Last(rcache)
           list == Enter(fd, "P")
<1>1. /\ FirstOn(fd)
      /\ rcache # <<>> => Known(partner)
      /\ fd_node' = Append(fd_node, fd)
      /\ \/ /\ rcache # <<>>
            /\ caches_list' = Pair(list, fd, partner)
            /\ rcache' = Front(rcache)
            /\ pcache' = pcache
         \/ /\ caches_list' = list
            /\ pcache' = Append(pcache, fd)
            /\ rcache' = rcache
      /\ deletefd' = deletefd
  BY DEF RegisterPrimary
<1>2. /\ EntryList(caches_list) /\ NoFd \notin DOMAIN caches_list
      /\ fd_node \in Seq(Fd) /\ pcache \in Seq(Fd \cup {NoFd}) /\ rcache \in Seq(Fd)
  BY TableFacts DEF IInv
<1>3. fd \in DOMAIN caches_list /\ sock[fd] \in Cache /\ sock[fd] # NoCache
  BY <1>1, FirstOnFacts, MasterAssumption DEF IInv
<1>4. /\ caches_list[fd].status = "n"
      /\ fd \notin ToSet(pcache) /\ fd \notin ToSet(rcache)
  BY <1>1, <1>3 DEF FirstOn, Paired, Entered, Linked, NewIsAlone
<1>5. /\ EntryList(list) /\ DOMAIN list = DOMAIN caches_list
      /\ list[fd].status = "P" /\ list[fd].addr = sock[fd]
      /\ list[fd].pair = caches_list[fd].pair
      /\ \A x \in DOMAIN caches_list : x # fd => list[x] = caches_list[x]
  BY <1>3, EnterFields DEF IInv
<1> HIDE DEF list, partner
<1>6. ToSet(fd_node') = ToSet(fd_node) \cup {fd}
  BY <1>1, <1>2, AppendElements
<1>7. CASE /\ caches_list' = list
           /\ pcache' = Append(pcache, fd)
           /\ rcache' = rcache
  <2>1. Entered(caches_list')
    BY <1>3, <1>5, <1>7 DEF Paired, Entered
  <2>2. ToSet(pcache') = ToSet(pcache) \cup {fd} /\ NoRepeat(pcache')
    BY <1>2, <1>4, <1>7, AppendElements DEF Paired
  <2>3. Same(list, caches_list, {fd})
    BY <1>5 DEF Same
  <2>4. Linked(list, ToSet(fd_node) \cup {fd}, ToSet(pcache) \cup {fd}, ToSet(rcache), deletefd)
    BY <1>2, <1>3, <1>4, <1>5, <2>3, LinkLonePrimary DEF Paired
  <2> QED
    BY <1>1, <1>6, <1>7, <2>1, <2>2, <2>4 DEF Paired
<1>8. CASE /\ rcache # <<>>
           /\ caches_list' = Pair(list, fd, partner)
           /\ rcache' = Front(rcache)
           /\ pcache' = pcache
  <2>1. partner \in DOMAIN caches_list /\ partner \in ToSet(rcache) /\ partner # fd
    BY <1>1, <1>2, <1>4, <1>8, FrontElements DEF Known, partner
  <2>2. /\ Same(caches_list', list, {fd, partner})
        /\ caches_list'[fd].pair = partner /\ caches_list'[partner].pair = fd
        /\ \A x \in DOMAIN list : /\ caches_list'[x].status = list[x].status
                                  /\ caches_list'[x].addr = list[x].addr
    BY <1>3, <1>5, <1>8, <2>1, PairFields
  <2>3. Entered(caches_list')
    BY <1>3, <1>5, <2>2 DEF Paired, Entered, Same
  <2>4. ToSet(rcache') = ToSet(rcache) \ {partner} /\ NoRepeat(rcache')
    BY <1>2, <1>8, FrontElements DEF Paired, partner
  <2>5. Same(caches_list', caches_list, {fd, partner})
    BY <1>5, <2>2 DEF Same
  <2>6. /\ caches_list'[fd].status = "P"
        /\ caches_list'[partner].status = caches_list[partner].status
    BY <1>3, <1>5, <2>1, <2>2
  <2>7. Linked(caches_list', ToSet(fd_node) \cup {fd}, ToSet(pcache),
               ToSet(rcache) \ {partner}, deletefd)
    BY <1>2, <1>3, <1>4, <2>1, <2>2, <2>5, <2>6, LinkPrimary DEF Paired
  <2> QED
    BY <1>1, <1>6, <1>8, <2>3, <2>4, <2>7 DEF Paired
<1> QED
  BY <1>1, <1>7, <1>8

\* A backup's first heartbeat keeps the pairing.
LEMMA RegisterReplicaPaired ==
    ASSUME IInv, Paired, NEW fd \in Fd, RegisterReplica(fd), ~Crash
    PROVE  Paired'
<1> DEFINE partner == Last(pcache)
           list == Enter(fd, "R")
<1>1. /\ FirstOn(fd)
      /\ \/ /\ pcache # <<>> /\ Known(partner)
            /\ caches_list' = Pair(list, fd, partner)
            /\ pcache' = Front(pcache)
            /\ rcache' = rcache
         \/ /\ caches_list' = list
            /\ rcache' = Append(rcache, fd)
            /\ pcache' = pcache
      /\ UNCHANGED <<fd_node, deletefd>>
  BY DEF RegisterReplica
<1>2. /\ EntryList(caches_list) /\ NoFd \notin DOMAIN caches_list
      /\ fd_node \in Seq(Fd) /\ pcache \in Seq(Fd \cup {NoFd}) /\ rcache \in Seq(Fd)
  BY TableFacts DEF IInv
<1>3. fd \in DOMAIN caches_list /\ sock[fd] \in Cache /\ sock[fd] # NoCache
  BY <1>1, FirstOnFacts, MasterAssumption DEF IInv
<1>4. /\ caches_list[fd].status = "n"
      /\ fd \notin ToSet(pcache) /\ fd \notin ToSet(rcache)
  BY <1>1, <1>3 DEF FirstOn, Paired, Entered, Linked, NewIsAlone
<1>5. /\ EntryList(list) /\ DOMAIN list = DOMAIN caches_list
      /\ list[fd].status = "R" /\ list[fd].addr = sock[fd]
      /\ list[fd].pair = caches_list[fd].pair
      /\ \A x \in DOMAIN caches_list : x # fd => list[x] = caches_list[x]
  BY <1>3, EnterFields DEF IInv
<1> HIDE DEF list, partner
<1>6. CASE /\ caches_list' = list
           /\ rcache' = Append(rcache, fd)
           /\ pcache' = pcache
  <2>1. Entered(caches_list')
    BY <1>3, <1>5, <1>6 DEF Paired, Entered
  <2>2. ToSet(rcache') = ToSet(rcache) \cup {fd} /\ NoRepeat(rcache')
    BY <1>2, <1>4, <1>6, AppendElements DEF Paired
  <2>3. Same(list, caches_list, {fd})
    BY <1>5 DEF Same
  <2>4. Linked(list, ToSet(fd_node), ToSet(pcache), ToSet(rcache) \cup {fd}, deletefd)
    BY <1>2, <1>3, <1>4, <1>5, <2>3, LinkLoneReplica DEF Paired
  <2> QED
    BY <1>1, <1>6, <2>1, <2>2, <2>4 DEF Paired
<1>7. CASE /\ pcache # <<>> /\ Known(partner)
           /\ caches_list' = Pair(list, fd, partner)
           /\ pcache' = Front(pcache)
           /\ rcache' = rcache
  <2>1. partner \in DOMAIN caches_list /\ partner \in ToSet(pcache) /\ partner # fd
    BY <1>2, <1>4, <1>7, FrontElements DEF Known, partner
  <2>2. /\ Same(caches_list', list, {fd, partner})
        /\ caches_list'[fd].pair = partner /\ caches_list'[partner].pair = fd
        /\ \A x \in DOMAIN list : /\ caches_list'[x].status = list[x].status
                                  /\ caches_list'[x].addr = list[x].addr
    BY <1>3, <1>5, <1>7, <2>1, PairFields
  <2>3. Entered(caches_list')
    BY <1>3, <1>5, <2>2 DEF Paired, Entered, Same
  <2>4. ToSet(pcache') = ToSet(pcache) \ {partner} /\ NoRepeat(pcache')
    BY <1>2, <1>7, FrontElements DEF Paired, partner
  <2>5. Same(caches_list', caches_list, {fd, partner})
    BY <1>5, <2>2 DEF Same
  <2>6. /\ caches_list'[fd].status = "R"
        /\ caches_list'[partner].status = caches_list[partner].status
    BY <1>3, <1>5, <2>1, <2>2
  <2>7. Linked(caches_list', ToSet(fd_node), ToSet(pcache) \ {partner}, ToSet(rcache), deletefd)
    BY <1>2, <1>3, <1>4, <2>1, <2>2, <2>5, <2>6, LinkReplica DEF Paired
  <2> QED
    BY <1>1, <1>7, <2>3, <2>4, <2>7 DEF Paired
<1> QED
  BY <1>1, <1>6, <1>7

\* The loss of a backup keeps the pairing: its primary waits again.
LEMMA DetectReplicaPaired ==
    ASSUME IInv, Paired, NEW fd \in Fd, DetectReplica(fd), ~Crash
    PROVE  Paired'
<1> DEFINE partner == caches_list[fd].pair
           list == [caches_list EXCEPT ![partner].pair = NoFd]
<1>1. /\ Finds(fd, "R") /\ Known(partner)
      /\ caches_list' = list
      /\ pcache' = Append(pcache, list[fd].pair)
      /\ deletefd' = fd
      /\ UNCHANGED <<fd_node, rcache>>
  BY DEF DetectReplica
<1>2. /\ EntryList(caches_list) /\ NoFd \notin DOMAIN caches_list
      /\ fd_node \in Seq(Fd) /\ pcache \in Seq(Fd \cup {NoFd}) /\ rcache \in Seq(Fd)
  BY TableFacts DEF IInv
<1>3. /\ fd \in DOMAIN caches_list /\ partner \in DOMAIN caches_list
      /\ caches_list[fd].status = "R" /\ deletefd = NoFd
  BY <1>1 DEF Finds, Known
<1>4. /\ Same(list, caches_list, {partner})
      /\ list[partner].pair = NoFd
      /\ \A x \in DOMAIN caches_list : /\ list[x].status = caches_list[x].status
                                       /\ list[x].addr = caches_list[x].addr
  BY <1>2, <1>3 DEF Same, EntryList, Entry
<1>5. caches_list[fd].pair = partner
  OBVIOUS
<1> HIDE DEF list, partner
<1>6. Entered(caches_list')
  BY <1>1, <1>4 DEF Paired, Entered, Same
<1>7. Linked(caches_list, ToSet(fd_node), ToSet(pcache), ToSet(rcache), NoFd)
  BY <1>3 DEF Paired
<1>8. /\ caches_list[partner].pair = fd /\ caches_list[partner].status = "P"
      /\ fd # NoFd /\ fd # partner
  BY <1>2, <1>3, <1>5, <1>7 DEF Linked, Mutual, Roles
<1>9. partner \notin ToSet(pcache)
  BY <1>3, <1>7, <1>8 DEF Linked, WaitsAlone
<1>10. list[fd].pair = partner /\ partner \in Fd \cup {NoFd}
  BY <1>2, <1>3, <1>4, <1>5, <1>8 DEF Same, EntryList
<1>11. ToSet(pcache') = ToSet(pcache) \cup {partner} /\ NoRepeat(pcache')
  BY <1>1, <1>2, <1>9, <1>10, AppendElements DEF Paired
<1>12. list[partner].status = "P" /\ ToSet(fd_node) \subseteq ToSet(fd_node) \cup {partner}
  BY <1>3, <1>4, <1>8
<1>13. Linked(list, ToSet(fd_node), ToSet(pcache) \cup {partner}, ToSet(rcache), fd)
  BY <1>2, <1>3, <1>4, <1>5, <1>7, <1>12, LinkWidow
<1> QED
  BY <1>1, <1>6, <1>11, <1>13 DEF Paired

\* A failover keeps the pairing: the backup becomes a primary that waits.
LEMMA DetectPromotePaired ==
    ASSUME IInv, Paired, NEW fd \in Fd, DetectPromote(fd), ~Crash
    PROVE  Paired'
<1> DEFINE partner == caches_list[fd].pair
           members == IF Places(fd) = {} THEN fd_node
                      ELSE [fd_node EXCEPT ![Least(Places(fd))] = partner]
           first == [caches_list EXCEPT ![partner].pair = NoFd]
           list == [caches_list EXCEPT ![partner].pair = NoFd,
                                       ![partner].status = "P"]
<1>1. /\ Finds(fd, "P") /\ Known(partner)
      /\ fd_node' = members
      /\ caches_list' = list
      /\ pcache' = Append(pcache, partner)
      /\ deletefd' = fd
      /\ rcache' = rcache
  BY DEF DetectPromote
<1>2. /\ EntryList(caches_list) /\ NoFd \notin DOMAIN caches_list
      /\ fd_node \in Seq(Fd) /\ pcache \in Seq(Fd \cup {NoFd}) /\ rcache \in Seq(Fd)
  BY TableFacts DEF IInv
<1>3. /\ fd \in DOMAIN caches_list /\ partner \in DOMAIN caches_list /\ partner \in Fd
      /\ caches_list[fd].status = "P" /\ deletefd = NoFd
  BY <1>1, <1>2 DEF Finds, Known, EntryList
<1>4. ToSet(members) \subseteq ToSet(fd_node) \cup {partner}
  <2>1. CASE Places(fd) = {}
    BY <2>1
  <2>2. CASE Places(fd) # {}
    <3>1. Least(Places(fd)) \in 1 .. Len(fd_node)
      BY <2>2, PlacesProperties DEF IInv
    <3> HIDE DEF partner
    <3>2. members = [fd_node EXCEPT ![Least(Places(fd))] = partner]
      BY <2>2
    <3> QED
      BY <1>2, <1>3, <3>1, <3>2, ReplaceElements
  <2> QED
    BY <2>1, <2>2
<1>5. /\ EntryList(first) /\ DOMAIN first = DOMAIN caches_list
      /\ first[partner].pair = NoFd
      /\ \A x \in DOMAIN caches_list : first[x].addr = caches_list[x].addr
      /\ \A x \in DOMAIN caches_list : x # partner => first[x] = caches_list[x]
  <2>1. EntryList(first) /\ DOMAIN first = DOMAIN caches_list
    BY <1>2, <1>3, SetPair
  <2> QED
    BY <1>2, <1>3, <2>1 DEF EntryList, Entry
<1>6. list = [first EXCEPT ![partner].status = "P"] /\ caches_list[fd].pair = partner
  OBVIOUS
<1> HIDE DEF first, list, members, partner
<1>7. /\ Same(list, caches_list, {partner})
      /\ list[partner].pair = NoFd /\ list[partner].status = "P"
      /\ \A x \in DOMAIN caches_list : list[x].addr = caches_list[x].addr
  BY <1>3, <1>5, <1>6 DEF Same, EntryList, Entry
<1>8. Linked(caches_list, ToSet(fd_node), ToSet(pcache), ToSet(rcache), NoFd)
  BY <1>3 DEF Paired
<1>9. /\ caches_list[partner].pair = fd /\ caches_list[partner].status = "R"
      /\ fd # NoFd
  BY <1>2, <1>3, <1>6, <1>8 DEF Linked, Mutual, Roles
<1>10. Entered(caches_list')
  BY <1>1, <1>3, <1>7, <1>9 DEF Paired, Entered, Same
<1>11. partner \notin ToSet(pcache) /\ partner \in Fd \cup {NoFd}
  BY <1>3, <1>8, <1>9 DEF Linked, WaitsAlone
<1>12. ToSet(pcache') = ToSet(pcache) \cup {partner} /\ NoRepeat(pcache')
  BY <1>1, <1>2, <1>11, AppendElements DEF Paired
<1>13. Linked(list, ToSet(members), ToSet(pcache) \cup {partner}, ToSet(rcache), fd)
  BY <1>2, <1>3, <1>4, <1>6, <1>7, <1>8, LinkWidow
<1> QED
  BY <1>1, <1>10, <1>12, <1>13 DEF Paired

\* The loss of a lone primary keeps the pairing.
LEMMA DetectLostPaired ==
    ASSUME IInv, Paired, NEW fd \in Fd, DetectLost(fd), ~Crash
    PROVE  Paired'
<1>1. /\ Finds(fd, "P")
      /\ fd_node' = IF Places(fd) = {} THEN fd_node
                    ELSE RemoveAt(fd_node, Least(Places(fd)))
      /\ deletefd' = fd
      /\ UNCHANGED <<caches_list, pcache, rcache>>
  BY DEF DetectLost
<1>2. fd_node \in Seq(Fd) /\ deletefd = NoFd /\ NoFd \notin DOMAIN caches_list
  BY <1>1, TableFacts DEF IInv, Finds
<1>3. ToSet(fd_node') \subseteq ToSet(fd_node)
  <2>1. CASE Places(fd) = {}
    BY <1>1, <2>1
  <2>2. CASE Places(fd) # {}
    <3>1. Least(Places(fd)) \in 1 .. Len(fd_node)
      BY <2>2, PlacesProperties DEF IInv
    <3> QED
      BY <1>1, <1>2, <2>2, <3>1, RemoveAtElements
  <2> QED
    BY <2>1, <2>2
<1>4. Linked(caches_list, ToSet(fd_node'), ToSet(pcache), ToSet(rcache), fd)
  BY <1>2, <1>3, LinkErase DEF Paired
<1> QED
  BY <1>1, <1>4 DEF Paired

\* Condemning a connection without a heartbeat keeps the pairing.
LEMMA DetectUnregisteredPaired ==
    ASSUME IInv, Paired, NEW fd \in Fd, DetectUnregistered(fd)
    PROVE  Paired'
<1>1. /\ deletefd = NoFd /\ deletefd' = fd
      /\ UNCHANGED <<fd_node, caches_list, pcache, rcache>>
  BY DEF DetectUnregistered, Finds, tables
<1>2. NoFd \notin DOMAIN caches_list
  BY TableFacts DEF IInv
<1>3. Linked(caches_list, ToSet(fd_node), ToSet(pcache), ToSet(rcache), fd)
  BY <1>1, <1>2, LinkErase DEF Paired
<1> QED
  BY <1>1, <1>3 DEF Paired

\* The detector's erase() keeps the pairing.
LEMMA DetectErasePaired ==
    ASSUME IInv, Paired, DetectErase
    PROVE  Paired'
<1>1. /\ caches_list' = Erase(caches_list, {deletefd})
      /\ deletefd' = NoFd
      /\ UNCHANGED <<fd_node, pcache, rcache>>
  BY DEF DetectErase
<1>2. /\ DOMAIN caches_list' = DOMAIN caches_list \ {deletefd}
      /\ \A x \in DOMAIN caches_list' : caches_list'[x] = caches_list[x]
  BY <1>1 DEF Erase, Restrict
<1>3. Linked(caches_list', ToSet(fd_node), ToSet(pcache), ToSet(rcache), NoFd)
  <2>1. DOMAIN caches_list' \subseteq DOMAIN caches_list /\ deletefd \notin DOMAIN caches_list'
    BY <1>2
  <2>2. Linked(caches_list, ToSet(fd_node), ToSet(pcache), ToSet(rcache), deletefd)
    BY DEF Paired
  <2> QED
    BY <1>2, <2>1, <2>2, LinkErase
<1>4. Entered(caches_list')
  BY <1>2 DEF Paired, Entered
<1> QED
  BY <1>1, <1>3, <1>4 DEF Paired

\* The end of a shrink keeps the pairing.
LEMMA ShrinkEndPaired ==
    ASSUME IInv, Paired, ShrinkEnd, ~Crash
    PROVE  Paired'
<1> DEFINE gone == {shrinkfd, caches_list[shrinkfd].pair} \cap Fd
<1>1. /\ fd_node # <<>>
      /\ caches_list' = Erase(caches_list, gone)
      /\ fd_node' = Front(fd_node)
      /\ UNCHANGED <<pcache, rcache, deletefd>>
  BY DEF ShrinkEnd
<1> HIDE DEF gone
<1>2. /\ DOMAIN caches_list' = DOMAIN caches_list \ gone
      /\ \A x \in DOMAIN caches_list' : caches_list'[x] = caches_list[x]
  BY <1>1 DEF Erase, Restrict
<1>3. ToSet(fd_node') \subseteq ToSet(fd_node)
  BY <1>1, TableFacts, FrontElements DEF IInv
<1>4. Linked(caches_list', ToSet(fd_node'), ToSet(pcache), ToSet(rcache), deletefd)
  <2>1. DOMAIN caches_list' \subseteq DOMAIN caches_list
    BY <1>2
  <2>2. Linked(caches_list, ToSet(fd_node), ToSet(pcache), ToSet(rcache), deletefd)
    BY DEF Paired
  <2> QED
    BY <1>2, <1>3, <2>1, <2>2, LinkErase
<1>5. Entered(caches_list')
  BY <1>2 DEF Paired, Entered
<1> QED
  BY <1>1, <1>4, <1>5 DEF Paired

\* Every step of the master keeps the pairing.
LEMMA NextPair ==
    ASSUME IInv, PairInv, [Next]_vars
    PROVE  PairInv'
<1> USE DEF PairInv
<1>1. ASSUME Crash
      PROVE  PairInv'
  BY <1>1, CrashPaired
<1>2. ASSUME UNCHANGED <<tables, deletefd, aliased>>
      PROVE  PairInv'
  BY <1>2, PairedUnchanged
<1>3. ASSUME NEW c \in Cache, NEW fd \in Fd, Accept(c, fd)
      PROVE  PairInv'
  <2>1. aliased' = (aliased \/ fd \in Held)
    BY <1>3 DEF Accept
  <2> QED
    BY <1>3, <2>1, AcceptPaired
<1>4. ASSUME NEW fd \in Fd, ~Crash,
             \/ RegisterPrimary(fd) \/ RegisterReplica(fd) \/ DetectReplica(fd)
             \/ DetectPromote(fd) \/ DetectLost(fd) \/ DetectUnregistered(fd)
      PROVE  PairInv'
  <2>1. aliased' = aliased
    BY <1>4 DEF RegisterPrimary, RegisterReplica, DetectReplica, DetectPromote,
                DetectLost, DetectUnregistered, history
  <2> QED
    BY <1>4, <2>1, RegisterPrimaryPaired, RegisterReplicaPaired, DetectReplicaPaired,
       DetectPromotePaired, DetectLostPaired, DetectUnregisteredPaired
<1>5. ASSUME ~Crash, DetectErase \/ ShrinkEnd
      PROVE  PairInv'
  <2>1. aliased' = aliased
    BY <1>5 DEF DetectErase, ShrinkEnd, history
  <2> QED
    BY <1>5, <2>1, DetectErasePaired, ShrinkEndPaired
<1>6. ASSUME NEW fd \in Fd, Down(fd) \/ HeartbeatAgain(fd)
      PROVE  UNCHANGED <<tables, deletefd, aliased>>
  BY <1>6 DEF Down, HeartbeatAgain, threads, history
<1>7. ASSUME NEW c \in Cache, Expire(c)
      PROVE  UNCHANGED <<tables, deletefd, aliased>>
  BY <1>7 DEF Expire, threads, history
<1>8. ASSUME ~Crash, Stamp \/ ShrinkBegin \/ UNCHANGED vars
      PROVE  UNCHANGED <<tables, deletefd, aliased>>
  BY <1>8 DEF Stamp, ShrinkBegin, vars, threads, history
<1>9. ASSUME NEW h \in HashSpace, ~Crash, ClientRequest(h)
      PROVE  UNCHANGED <<tables, deletefd, aliased>>
  BY <1>9 DEF ClientRequest, vars, threads, history
<1>10. (\E fd \in Fd : HeartbeatFault(fd)) => Crash
  BY DEF HeartbeatFault
<1> HIDE DEF PairInv
<1> QED
  BY <1>1, <1>2, <1>3, <1>4, <1>5, <1>6, <1>7, <1>8, <1>9, <1>10 DEF Next, Detect

\* The pairing holds when the master starts.
LEMMA InitPair == Init => PairInv
BY DEF Init, PairInv, Paired, Entered, NoRepeat, Linked, NewIsAlone, WaitsAlone,
       RoutedWait, Mutual, ToSet

\* The inductive invariant holds of every behaviour.
LEMMA AlwaysPaired == Spec => [](IInv /\ PairInv)
<1>1. IInv /\ PairInv /\ [Next]_vars => PairInv'
  BY NextPair
<1>2. IInv /\ [Next]_vars => IInv'
  BY NextIInv
<1> QED
  BY <1>1, <1>2, InitPair, InitIInv, PTL DEF Spec

\* Until accept() reuses a descriptor that the master still refers to, a primary
\* and a backup that are paired name each other, through all registrations,
\* failovers and shrinks in any interleaving of the threads.
THEOREM MasterPairingIsMutual == Spec => []PairingIsMutual
<1>1. ASSUME PairInv
      PROVE  PairingIsMutual
  <2> SUFFICES ASSUME ~aliased, NEW f \in DOMAIN caches_list \ {deletefd},
                      NEW g, g = caches_list[f].pair, g \in DOMAIN caches_list
               PROVE  /\ caches_list[g].pair = f
                      /\ {caches_list[f].status, caches_list[g].status} = {"P", "R"}
    BY DEF PairingIsMutual, Known
  <2>1. caches_list[g].pair = f /\ Roles(caches_list[f].status, caches_list[g].status)
    BY <1>1 DEF PairInv, Paired, Linked, Mutual
  <2> QED
    BY <2>1 DEF Roles
<1> QED
  BY <1>1, AlwaysPaired, PTL

\* Until then, a primary that keys are routed to and that has no backup is in
\* the stack of waiting primaries exactly once: the next backup will find it,
\* and no second one will be given to it.
THEOREM MasterLonePrimariesWait == Spec => []LonePrimariesWait
<1>1. ASSUME IInv, PairInv
      PROVE  LonePrimariesWait
  <2> SUFFICES ASSUME ~aliased, NEW f \in ToSet(fd_node),
                      f \in DOMAIN caches_list, caches_list[f].pair = NoFd
               PROVE  Cardinality({i \in 1 .. Len(pcache) : pcache[i] = f}) = 1
    BY DEF LonePrimariesWait, Known
  <2>1. f \in ToSet(pcache) /\ NoRepeat(pcache)
    BY <1>1 DEF PairInv, Paired, Linked, RoutedWait
  <2>2. PICK k \in 1 .. Len(pcache) : pcache[k] = f
    BY <1>1, <2>1, TableFacts, Elements DEF IInv
  <2>3. {i \in 1 .. Len(pcache) : pcache[i] = f} = {k}
    BY <2>1, <2>2 DEF NoRepeat
  <2> QED
    BY <2>3, FS_Singleton
<1> QED
  BY <1>1, AlwaysPaired, PTL

-----------------------------------------------------------------------------
(***************************************************************************)
(* The primaries that keys are routed to.  Two of the actions remove       *)
(* entries: the detector erases the entry that it condemned, which must    *)
(* not be routed to any more; and the end of a shrink erases the announced *)
(* primary with its partner, and pops whatever fd_node has last.           *)
(***************************************************************************)

\* What the end of a shrink will find: the announced primary is still last; or
\* the detector has promoted its backup in its place and not yet erased it; or
\* it has no entry any more, and the master will follow a null pointer.
Retiring ==
    \/ Last(fd_node) = shrinkfd
    \/ /\ deletefd = shrinkfd /\ Known(shrinkfd)
       /\ caches_list[shrinkfd].pair = Last(fd_node)
    \/ ~Known(shrinkfd)

Routed ==
    /\ NoRepeat(fd_node)
    /\ ToSet(fd_node) \subseteq DOMAIN caches_list
    /\ deletefd \notin ToSet(fd_node)
    /\ shrinkfd # NoFd => fd_node # <<>> /\ Retiring

RouteInv == ~aliased /\ ~revived /\ ~overlap => Routed

\* A crash leaves nothing to route to.
LEMMA CrashRouted ==
    ASSUME Crash
    PROVE  Routed'
BY DEF Crash, Routed, NoRepeat, ToSet

\* A step that leaves the tables and the shrink alone keeps the routes.
LEMMA RoutedUnchanged ==
    ASSUME Routed, UNCHANGED <<tables, deletefd, shrinkfd>>
    PROVE  Routed'
BY DEF Routed, Retiring, Known, tables

\* What is routed to is a primary with an address.
LEMMA RoutedEntries ==
    ASSUME Paired, Routed, NEW f \in ToSet(fd_node)
    PROVE  /\ f \in DOMAIN caches_list /\ caches_list[f].status = "P"
           /\ caches_list[f].addr # NoCache
BY DEF Paired, Routed, Linked, RoutedWait, Entered

\* accept() of a descriptor that nothing refers to keeps the routes.
LEMMA AcceptRouted ==
    ASSUME Routed, NEW c \in Cache, NEW fd \in Fd, Accept(c, fd), fd \notin Held
    PROVE  Routed'
<1>1. /\ DOMAIN caches_list' = DOMAIN caches_list \cup {fd}
      /\ \A f \in DOMAIN caches_list : f # fd => caches_list'[f] = caches_list[f]
      /\ UNCHANGED <<fd_node, deletefd, shrinkfd>>
  BY DEF Accept, threads
<1>2. fd # shrinkfd
  BY DEF Held
<1> QED
  BY <1>1, <1>2 DEF Routed, Retiring, Known

\* A primary's first heartbeat outside a shrink keeps the routes.
LEMMA RegisterPrimaryRouted ==
    ASSUME IInv, Paired, Routed, NEW fd \in Fd, RegisterPrimary(fd), ~Crash,
           deletefd # fd, shrinkfd = NoFd
    PROVE  Routed'
<1>1. /\ FirstOn(fd) /\ fd_node' = Append(fd_node, fd)
      /\ rcache # <<>> => Known(Last(rcache))
      /\ \/ caches_list' = Enter(fd, "P")
         \/ rcache # <<>> /\ caches_list' = Pair(Enter(fd, "P"), fd, Last(rcache))
      /\ UNCHANGED <<deletefd, shrinkfd>>
  BY DEF RegisterPrimary
<1>2. fd \in DOMAIN caches_list /\ caches_list[fd].status = "n" /\ fd_node \in Seq(Fd)
  BY <1>1, FirstOnFacts, TableFacts DEF IInv, FirstOn, Paired, Entered
<1>3. fd \notin ToSet(fd_node)
  BY <1>2, RoutedEntries
<1>4. ToSet(fd_node') = ToSet(fd_node) \cup {fd} /\ NoRepeat(fd_node')
  BY <1>1, <1>2, <1>3, AppendElements DEF Routed
<1>5. DOMAIN caches_list' = DOMAIN caches_list
  <2>1. EntryList(Enter(fd, "P")) /\ DOMAIN Enter(fd, "P") = DOMAIN caches_list
    BY <1>2, EnterType DEF IInv
  <2>2. rcache # <<>> => DOMAIN Pair(Enter(fd, "P"), fd, Last(rcache)) = DOMAIN Enter(fd, "P")
    BY <1>1, <1>2, <2>1, PairType DEF Known
  <2> QED
    BY <1>1, <2>1, <2>2
<1> QED
  BY <1>1, <1>2, <1>4, <1>5 DEF Routed

\* A backup's first heartbeat keeps the routes: what it pairs with is not the
\* primary that a shrink and the detector are both removing.
LEMMA RegisterReplicaRouted ==
    ASSUME IInv, Paired, Routed, NEW fd \in Fd, RegisterReplica(fd), ~Crash
    PROVE  Routed'
<1> DEFINE partner == Last(pcache)
           list == Enter(fd, "R")
<1>1. /\ FirstOn(fd)
      /\ \/ pcache # <<>> /\ Known(partner) /\ caches_list' = Pair(list, fd, partner)
         \/ caches_list' = list
      /\ UNCHANGED <<fd_node, deletefd, shrinkfd>>
  BY DEF RegisterReplica
<1>2. /\ fd \in DOMAIN caches_list /\ caches_list[fd].status = "n"
      /\ caches_list[fd].pair = NoFd
      /\ fd_node \in Seq(Fd) /\ pcache \in Seq(Fd \cup {NoFd})
  BY <1>1, FirstOnFacts, TableFacts DEF IInv, FirstOn, Paired, Entered, Linked, NewIsAlone
<1>3. /\ EntryList(list) /\ DOMAIN list = DOMAIN caches_list
      /\ \A x \in DOMAIN caches_list : list[x].pair = caches_list[x].pair
  BY <1>2, EnterFields DEF IInv
<1>4. pcache # <<>> /\ Known(partner) => caches_list[partner].pair = NoFd
  BY <1>2, FrontElements DEF Paired, Linked, WaitsAlone, Known
<1>5. /\ DOMAIN caches_list' = DOMAIN caches_list
      /\ \A x \in DOMAIN caches_list :
            caches_list[x].pair # NoFd => caches_list'[x].pair = caches_list[x].pair
  <2> HIDE DEF list, partner
  <2>1. CASE caches_list' = list
    BY <1>3, <2>1
  <2>2. CASE pcache # <<>> /\ Known(partner) /\ caches_list' = Pair(list, fd, partner)
    <3>1. Same(caches_list', list, {fd, partner})
      BY <1>2, <1>3, <2>2, PairFields DEF Known
    <3> QED
      BY <1>2, <1>3, <1>4, <2>2, <3>1 DEF Same
  <2> QED
    BY <1>1, <2>1, <2>2
<1>6. fd_node # <<>> => Last(fd_node) # NoFd
  BY <1>2, FrontLast, MasterAssumption
<1> QED
  BY <1>1, <1>5, <1>6 DEF Routed, Retiring, Known

\* The loss of a backup keeps the routes.
LEMMA DetectReplicaRouted ==
    ASSUME IInv, Paired, Routed, NEW fd \in Fd, DetectReplica(fd), ~Crash
    PROVE  Routed'
<1>1. /\ Finds(fd, "R") /\ Known(caches_list[fd].pair)
      /\ caches_list' = [caches_list EXCEPT ![caches_list[fd].pair].pair = NoFd]
      /\ deletefd' = fd
      /\ UNCHANGED <<fd_node, shrinkfd>>
  BY DEF DetectReplica
<1>2. fd \notin ToSet(fd_node) /\ deletefd = NoFd
  BY <1>1, RoutedEntries DEF Finds
<1>3. DOMAIN caches_list' = DOMAIN caches_list
  BY <1>1
<1> QED
  BY <1>1, <1>2, <1>3 DEF Routed, Retiring, Known

\* The place of a routed primary, when none has two.
LEMMA OnePlace ==
    ASSUME IInv, NEW fd, Places(fd) # {}
    PROVE  /\ Least(Places(fd)) \in 1 .. Len(fd_node)
           /\ fd_node[Least(Places(fd))] = fd
<1>1. Places(fd) \subseteq Nat
  BY TableFacts DEF IInv, Places
<1>2. Least(Places(fd)) \in Places(fd)
  BY <1>1, LeastProperties
<1> QED
  BY <1>2 DEF Places

\* What has no place in fd_node is not in it.
LEMMA NoPlace ==
    ASSUME IInv, NEW fd, Places(fd) = {}
    PROVE  fd \notin ToSet(fd_node)
BY TableFacts, Elements DEF IInv, Places

\* A failover keeps the routes: the backup takes the place of its primary, also
\* of one that a shrink has announced.
LEMMA DetectPromoteRouted ==
    ASSUME IInv, Paired, Routed, NEW fd \in Fd, DetectPromote(fd), ~Crash
    PROVE  Routed'
<1> DEFINE partner == caches_list[fd].pair
           k == Least(Places(fd))
<1>1. /\ Finds(fd, "P") /\ Known(partner) /\ partner # fd
      /\ fd_node' = IF Places(fd) = {} THEN fd_node ELSE [fd_node EXCEPT ![k] = partner]
      /\ caches_list' = [caches_list EXCEPT ![partner].pair = NoFd,
                                            ![partner].status = "P"]
      /\ deletefd' = fd
      /\ shrinkfd' = shrinkfd
  BY DEF DetectPromote
<1>2. /\ EntryList(caches_list) /\ NoFd \notin DOMAIN caches_list /\ fd_node \in Seq(Fd)
      /\ Len(fd_node) \in Nat
  BY TableFacts DEF IInv
<1>3. /\ fd \in DOMAIN caches_list /\ partner \in DOMAIN caches_list /\ partner \in Fd
      /\ deletefd = NoFd
  BY <1>1, <1>2 DEF Finds, Known, EntryList
<1>4. DOMAIN caches_list' = DOMAIN caches_list /\ caches_list'[fd].pair = partner
  BY <1>1, <1>2, <1>3 DEF EntryList, Entry
<1>5. caches_list[partner].status = "R"
  BY <1>1, <1>2, <1>3 DEF Paired, Linked, Mutual, Roles, Finds
<1>6. partner \notin ToSet(fd_node)
  BY <1>5, RoutedEntries
<1>7. shrinkfd # NoFd => fd_node # <<>> /\ (Last(fd_node) = shrinkfd \/ ~Known(shrinkfd))
  BY <1>3 DEF Routed, Retiring
<1> HIDE DEF partner
<1>8. CASE Places(fd) = {}
  <2>1. fd_node' = fd_node /\ fd \notin ToSet(fd_node)
    BY <1>1, <1>8, NoPlace
  <2> QED
    BY <1>1, <1>4, <1>7, <2>1 DEF Routed, Retiring, Known
<1>9. CASE Places(fd) # {}
  <2>1. k \in 1 .. Len(fd_node) /\ fd_node[k] = fd
    BY <1>9, OnePlace
  <2> HIDE DEF k
  <2>2. fd_node' = [fd_node EXCEPT ![k] = partner]
    BY <1>1, <1>9
  <2>3. /\ ToSet(fd_node') \subseteq ToSet(fd_node) \cup {partner}
        /\ NoRepeat(fd_node') /\ fd \notin ToSet(fd_node')
    BY <1>2, <1>3, <1>6, <2>1, <2>2, ReplaceElements DEF Routed
  <2>4. ToSet(fd_node') \subseteq DOMAIN caches_list'
    BY <1>3, <1>4, <2>3 DEF Routed
  <2>5. ASSUME shrinkfd # NoFd
        PROVE  fd_node' # <<>> /\ Retiring'
    <3>1. /\ Len(fd_node') = Len(fd_node) /\ fd_node' # <<>>
          /\ k = Len(fd_node) => Last(fd_node') = partner
          /\ k # Len(fd_node) => Last(fd_node') = Last(fd_node)
      BY <1>2, <1>3, <2>1, <2>2 DEF Last
    <3>2. CASE ~Known(shrinkfd)
      BY <1>1, <1>4, <3>1, <3>2 DEF Retiring, Known
    <3>3. CASE Last(fd_node) = shrinkfd /\ k = Len(fd_node)
      <4>1. shrinkfd = fd
        BY <2>1, <3>3 DEF Last
      <4> QED
        BY <1>1, <1>3, <1>4, <3>1, <3>3, <4>1 DEF Retiring, Known
    <3>4. CASE Last(fd_node) = shrinkfd /\ k # Len(fd_node)
      BY <1>1, <3>1, <3>4 DEF Retiring
    <3> QED
      BY <1>7, <2>5, <3>2, <3>3, <3>4
  <2> QED
    BY <1>1, <2>3, <2>4, <2>5 DEF Routed
<1> QED
  BY <1>8, <1>9

\* The loss of a lone primary outside a shrink keeps the routes.
LEMMA DetectLostRouted ==
    ASSUME IInv, Routed, NEW fd \in Fd, DetectLost(fd), ~Crash,
           shrinkfd = NoFd \/ Places(fd) = {}
    PROVE  Routed'
<1> DEFINE k == Least(Places(fd))
<1>1. /\ Finds(fd, "P")
      /\ fd_node' = IF Places(fd) = {} THEN fd_node ELSE RemoveAt(fd_node, k)
      /\ deletefd' = fd
      /\ UNCHANGED <<caches_list, shrinkfd>>
  BY DEF DetectLost
<1>2. fd_node \in Seq(Fd) /\ deletefd = NoFd
  BY <1>1, TableFacts DEF IInv, Finds
<1>3. CASE Places(fd) = {}
  <2>1. fd_node' = fd_node /\ fd \notin ToSet(fd_node)
    BY <1>1, <1>3, NoPlace
  <2> QED
    BY <1>1, <1>2, <2>1 DEF Routed, Retiring, Known
<1>4. CASE Places(fd) # {}
  <2>1. k \in 1 .. Len(fd_node) /\ fd_node[k] = fd
    BY <1>4, OnePlace
  <2> HIDE DEF k
  <2>2. /\ ToSet(fd_node') \subseteq ToSet(fd_node) /\ fd \notin ToSet(fd_node')
        /\ NoRepeat(fd_node')
    BY <1>1, <1>2, <1>4, <2>1, RemoveAtElements DEF Routed
  <2> QED
    BY <1>1, <1>4, <2>2 DEF Routed
<1> QED
  BY <1>3, <1>4

\* Condemning a connection without a heartbeat keeps the routes.
LEMMA DetectUnregisteredRouted ==
    ASSUME Paired, Routed, NEW fd \in Fd, DetectUnregistered(fd)
    PROVE  Routed'
<1>1. /\ Finds(fd, "n") /\ deletefd' = fd
      /\ UNCHANGED <<fd_node, caches_list, shrinkfd>>
  BY DEF DetectUnregistered, tables
<1>2. fd \notin ToSet(fd_node) /\ deletefd = NoFd
  BY <1>1, RoutedEntries DEF Finds
<1> QED
  BY <1>1, <1>2 DEF Routed, Retiring, Known

\* The detector's erase() keeps the routes.
LEMMA DetectEraseRouted ==
    ASSUME IInv, Routed, DetectErase
    PROVE  Routed'
<1>1. /\ caches_list' = Erase(caches_list, {deletefd})
      /\ deletefd' = NoFd
      /\ UNCHANGED <<fd_node, shrinkfd>>
  BY DEF DetectErase
<1>2. DOMAIN caches_list' = DOMAIN caches_list \ {deletefd}
  BY <1>1 DEF Erase, Restrict
<1>3. NoFd \notin ToSet(fd_node)
  BY TableFacts, Elements, MasterAssumption DEF IInv
<1> QED
  BY <1>1, <1>2, <1>3 DEF Routed, Retiring, Known

\* The start of a shrink keeps the routes.
LEMMA ShrinkBeginRouted ==
    ASSUME Routed, ShrinkBegin, ~Crash
    PROVE  Routed'
<1>1. /\ fd_node # <<>> /\ shrinkfd' = Last(fd_node)
      /\ UNCHANGED <<fd_node, caches_list, deletefd>>
  BY DEF ShrinkBegin, tables
<1> QED
  BY <1>1 DEF Routed, Retiring

\* The end of a shrink keeps the routes: of the two entries that it erases one
\* is the last of fd_node, which it pops, and the other is not in fd_node.
LEMMA ShrinkEndRouted ==
    ASSUME IInv, Paired, Routed, ShrinkEnd, ~Crash
    PROVE  Routed'
<1> DEFINE gone == {shrinkfd, caches_list[shrinkfd].pair} \cap Fd
<1>1. /\ shrinkfd # NoFd /\ Known(shrinkfd) /\ fd_node # <<>>
      /\ caches_list' = Erase(caches_list, gone)
      /\ fd_node' = Front(fd_node)
      /\ shrinkfd' = NoFd
      /\ deletefd' = deletefd
  BY DEF ShrinkEnd
<1>2. DOMAIN caches_list' = DOMAIN caches_list \ gone
  BY <1>1 DEF Erase, Restrict
<1>3. /\ ToSet(fd_node') = ToSet(fd_node) \ {Last(fd_node)}
      /\ NoRepeat(fd_node')
      /\ Last(fd_node) \in ToSet(fd_node)
  BY <1>1, TableFacts, FrontElements DEF IInv, Routed
<1>4. \A f \in ToSet(fd_node') : f \notin gone
  <2>1. CASE Last(fd_node) = shrinkfd
    <3>1. shrinkfd # deletefd /\ caches_list[shrinkfd].status = "P"
      BY <1>3, <2>1, RoutedEntries DEF Routed
    <3>2. caches_list[shrinkfd].pair \notin ToSet(fd_node)
      <4> SUFFICES ASSUME caches_list[shrinkfd].pair \in ToSet(fd_node)
                   PROVE  FALSE
        OBVIOUS
      <4>1. /\ caches_list[shrinkfd].pair \in DOMAIN caches_list
            /\ caches_list[caches_list[shrinkfd].pair].status = "P"
        BY RoutedEntries
      <4> QED
        BY <1>1, <3>1, <4>1 DEF Paired, Linked, Mutual, Roles, Known
    <3> QED
      BY <1>3, <2>1, <3>2
  <2>2. CASE deletefd = shrinkfd /\ caches_list[shrinkfd].pair = Last(fd_node)
    BY <1>3, <2>2 DEF Routed
  <2> QED
    BY <1>1, <2>1, <2>2 DEF Routed, Retiring
<1> HIDE DEF gone
<1> QED
  BY <1>1, <1>2, <1>3, <1>4 DEF Routed

\* Every step of the master keeps the routes.
LEMMA NextRoute ==
    ASSUME IInv, PairInv, RouteInv, [Next]_vars
    PROVE  RouteInv'
<1> USE DEF PairInv, RouteInv
<1>1. ASSUME Crash
      PROVE  RouteInv'
  BY <1>1, CrashRouted
<1>2. ASSUME UNCHANGED <<tables, deletefd, shrinkfd, aliased, revived, overlap>>
      PROVE  RouteInv'
  BY <1>2, RoutedUnchanged
<1>3. ASSUME NEW c \in Cache, NEW fd \in Fd, Accept(c, fd)
      PROVE  RouteInv'
  <2>1. aliased' = (aliased \/ fd \in Held) /\ UNCHANGED <<revived, overlap>>
    BY <1>3 DEF Accept
  <2> QED
    BY <1>3, <2>1, AcceptRouted
<1>4. ASSUME NEW fd \in Fd, ~Crash, RegisterPrimary(fd)
      PROVE  RouteInv'
  <2>1. /\ revived' = (revived \/ deletefd = fd)
        /\ overlap' = (overlap \/ shrinkfd # NoFd)
        /\ aliased' = aliased
    BY <1>4 DEF RegisterPrimary
  <2> QED
    BY <1>4, <2>1, RegisterPrimaryRouted
<1>5. ASSUME NEW fd \in Fd, ~Crash, DetectLost(fd)
      PROVE  RouteInv'
  <2>1. /\ overlap' = (overlap \/ (shrinkfd # NoFd /\ Places(fd) # {}))
        /\ UNCHANGED <<aliased, revived>>
    BY <1>5 DEF DetectLost
  <2> QED
    BY <1>5, <2>1, DetectLostRouted
<1>6. ASSUME NEW fd \in Fd, ~Crash,
             \/ RegisterReplica(fd) \/ DetectReplica(fd) \/ DetectPromote(fd)
             \/ DetectUnregistered(fd)
      PROVE  RouteInv'
  <2>1. UNCHANGED <<aliased, revived, overlap>>
    BY <1>6 DEF RegisterReplica, DetectReplica, DetectPromote, DetectUnregistered, history
  <2> QED
    BY <1>6, <2>1, RegisterReplicaRouted, DetectReplicaRouted, DetectPromoteRouted,
       DetectUnregisteredRouted
<1>7. ASSUME ~Crash, DetectErase \/ ShrinkBegin \/ ShrinkEnd
      PROVE  RouteInv'
  <2>1. UNCHANGED <<aliased, revived, overlap>>
    BY <1>7 DEF DetectErase, ShrinkBegin, ShrinkEnd, history
  <2> QED
    BY <1>7, <2>1, DetectEraseRouted, ShrinkBeginRouted, ShrinkEndRouted
<1>8. ASSUME NEW fd \in Fd, Down(fd) \/ HeartbeatAgain(fd)
      PROVE  UNCHANGED <<tables, deletefd, shrinkfd, aliased, revived, overlap>>
  BY <1>8 DEF Down, HeartbeatAgain, threads, history
<1>9. ASSUME NEW c \in Cache, Expire(c)
      PROVE  UNCHANGED <<tables, deletefd, shrinkfd, aliased, revived, overlap>>
  BY <1>9 DEF Expire, threads, history
<1>10. ASSUME Stamp \/ UNCHANGED vars
       PROVE  UNCHANGED <<tables, deletefd, shrinkfd, aliased, revived, overlap>>
  BY <1>10 DEF Stamp, vars, threads, history
<1>11. ASSUME NEW h \in HashSpace, ~Crash, ClientRequest(h)
       PROVE  UNCHANGED <<tables, deletefd, shrinkfd, aliased, revived, overlap>>
  BY <1>11 DEF ClientRequest, vars, threads, history
<1>12. (\E fd \in Fd : HeartbeatFault(fd)) => Crash
  BY DEF HeartbeatFault
<1> HIDE DEF PairInv, RouteInv
<1> QED
  BY <1>1, <1>2, <1>3, <1>4, <1>5, <1>6, <1>7, <1>8, <1>9, <1>10, <1>11, <1>12
     DEF Next, Detect

\* Until accept() reuses a descriptor still referred to, a condemned connection
\* registers, or fd_node changes its length during a shrink, every primary that
\* keys are routed to has an entry with its role and address, and one index
\* only: handleClientMessage follows no null pointer.
THEOREM MasterRoutedAreKnown == Spec => []RoutedAreKnown
<1>1. Init => RouteInv
  BY DEF Init, RouteInv, Routed, NoRepeat, ToSet
<1>2. IInv /\ PairInv /\ RouteInv /\ [Next]_vars => RouteInv'
  BY NextRoute
<1>3. ASSUME IInv, PairInv, RouteInv
      PROVE  RoutedAreKnown
  <2> SUFFICES ASSUME ~aliased, ~revived, ~overlap
               PROVE  /\ \A i \in 1 .. Len(fd_node) :
                            /\ Known(fd_node[i])
                            /\ caches_list[fd_node[i]].status = "P"
                            /\ caches_list[fd_node[i]].addr # NoCache
                      /\ NoRepeat(fd_node)
    BY DEF RoutedAreKnown, NoRepeat
  <2>1. Paired /\ Routed
    BY <1>3 DEF PairInv, RouteInv
  <2>2. \A i \in 1 .. Len(fd_node) : fd_node[i] \in ToSet(fd_node)
    BY <1>3, TableFacts, Elements DEF IInv
  <2> QED
    BY <2>1, <2>2, RoutedEntries DEF Routed, Known
<1> QED
  BY <1>1, <1>2, <1>3, AlwaysPaired, PTL DEF Spec

-----------------------------------------------------------------------------
(***************************************************************************)
(* Routing is stable.                                                      *)
(***************************************************************************)

\* A key's point, when the ring changes: it stays, or it appears in the larger
\* ring, or it disappears from it.
LEMMA PointStays ==
    ASSUME NEW ring, DOMAIN ring \subseteq HashSpace,
           NEW less, DOMAIN less \subseteq DOMAIN ring, DOMAIN less # {},
           NEW h \in HashSpace
    PROVE  /\ GetServer(ring, h) \in DOMAIN ring
           /\ GetServer(ring, h) \in DOMAIN less => GetServer(less, h) = GetServer(ring, h)
<1>1. h \in Nat /\ HashSpace \subseteq Nat
  BY RingAssumption DEF HashSpace
<1>2. DOMAIN ring \subseteq Nat /\ DOMAIN ring # {}
  BY <1>1
<1> QED
  BY <1>1, <1>2, GetServerProperties

\* A primary that joins takes keys for itself only.
LEMMA RegisterPrimaryStable ==
    ASSUME IInv, NEW fd \in Fd, RegisterPrimary(fd), ~Crash, ~overlap',
           NEW h \in HashSpace, Routable(h), Routable(h)', Route(h)' # Route(h)
    PROVE  MayMove(h)
<1> DEFINE q == GetServer(key2Index', h)
<1>1. /\ fd_node' = Append(fd_node, fd)
      /\ addNode(Len(Append(fd_node, fd)) - 1)
  BY DEF RegisterPrimary
<1>2. /\ fd_node \in Seq(Fd) /\ Len(fd_node) \in Nat
      /\ Len(fd_node') = Len(fd_node) + 1 /\ Len(Append(fd_node, fd)) - 1 = Len(fd_node)
      /\ fd_node'[Len(fd_node) + 1] = fd /\ Last(fd_node') = fd
      /\ \A i \in 1 .. Len(fd_node) : fd_node'[i] = fd_node[i]
  BY <1>1, TableFacts DEF IInv, Last
<1>3. /\ DOMAIN key2Index' = DOMAIN key2Index \cup Points(Len(fd_node))
      /\ \A p \in DOMAIN key2Index' :
            \/ p \in DOMAIN key2Index /\ key2Index'[p] = key2Index[p]
            \/ p \notin DOMAIN key2Index /\ key2Index'[p] = Len(fd_node)
  BY <1>1, <1>2 DEF addNode
<1>4. DOMAIN key2Index # {} /\ DOMAIN key2Index' \subseteq HashSpace
  <2>1. key2Index = [p \in DOMAIN key2Index |-> key2Index[p]]
    BY DEF IInv, TypeOK, RingType
  <2>2. DOMAIN key2Index # {}
    BY <2>1 DEF Routable, EmptyRing
  <2> QED
    BY <1>3, <2>2, PointsAreHashes DEF IInv, TypeOK, RingType
<1>5. /\ q \in DOMAIN key2Index'
      /\ q \in DOMAIN key2Index => GetServer(key2Index, h) = q
  BY <1>3, <1>4, PointStays
<1>6. CASE q \in DOMAIN key2Index
  <2>1. Owner(key2Index', h) = Owner(key2Index, h)
    BY <1>3, <1>5, <1>6 DEF Owner
  <2>2. Route(h)' = Route(h)
    BY <1>2, <2>1 DEF Route, Routable
  <2> QED
    BY <2>2
<1>7. CASE q \notin DOMAIN key2Index
  <2>1. Owner(key2Index', h) = Len(fd_node)
    BY <1>3, <1>5, <1>7 DEF Owner
  <2>2. Route(h)' = Last(fd_node)'
    BY <1>2, <2>1 DEF Route
  <2> QED
    BY <1>2, <2>2 DEF MayMove
<1> QED
  BY <1>6, <1>7

\* A failover moves the keys of the failed primary only, to its backup.
LEMMA DetectPromoteStable ==
    ASSUME IInv, NEW fd \in Fd, DetectPromote(fd), ~Crash,
           NEW h \in HashSpace, Routable(h), Routable(h)', Route(h)' # Route(h)
    PROVE  MayMove(h)
<1> DEFINE partner == caches_list[fd].pair
           k == Least(Places(fd))
           place == Owner(key2Index, h) + 1
<1>1. /\ Finds(fd, "P")
      /\ fd_node' = IF Places(fd) = {} THEN fd_node ELSE [fd_node EXCEPT ![k] = partner]
      /\ key2Index' = key2Index
  BY DEF DetectPromote, ringVars
<1>2. Route(h) = fd_node[place] /\ Route(h)' = fd_node'[place]
  BY <1>1 DEF Route
<1>3. place \in 1 .. Len(fd_node) /\ fd_node \in Seq(Fd)
  BY TableFacts DEF Routable, IInv
<1>4. Places(fd) # {}
  BY <1>1, <1>2
<1>5. k \in 1 .. Len(fd_node) /\ fd_node[k] = fd
  BY <1>4, OnePlace
<1> HIDE DEF k, place, partner
<1>6. place = k /\ fd_node'[place] = partner
  BY <1>1, <1>2, <1>3, <1>4, <1>5
<1>7. Route(h) = fd /\ Route(h)' = caches_list[fd].pair
  BY <1>2, <1>5, <1>6 DEF partner
<1> QED
  BY <1>1, <1>7 DEF MayMove, Finds

\* The start of a shrink moves the keys of the announced primary only.
LEMMA ShrinkBeginStable ==
    ASSUME IInv, CoverInv, ShrinkBegin, ~Crash, ~overlap',
           NEW h \in HashSpace, Routable(h), Routable(h)', Route(h)' # Route(h)
    PROVE  MayMove(h)
<1> DEFINE q == GetServer(key2Index, h)
           n == Len(fd_node)
<1>1. /\ shrinkfd = NoFd /\ fd_node # <<>>
      /\ deleteNode(n - 1)
      /\ shrinkfd' = Last(fd_node)
      /\ UNCHANGED <<fd_node, overlap>>
  BY DEF ShrinkBegin, tables
<1>2. fd_node \in Seq(Fd) /\ n \in Nat \ {0} /\ Last(fd_node) = fd_node[n]
  BY <1>1, TableFacts, FrontLast DEF IInv, Last
<1>3. nodes = n /\ Covers(key2Index, n)
  BY <1>1, <1>2 DEF IInv, RangeInv, InRing, CoverInv
<1> HIDE DEF n
<1>4. (n - 1) .. (nodes - 2) = {}
  BY <1>2, <1>3
<1>5. /\ DOMAIN key2Index' = DOMAIN key2Index \ Points(n - 1)
      /\ \A p \in DOMAIN key2Index' : key2Index'[p] = key2Index[p]
  BY <1>1, <1>3, <1>4 DEF deleteNode
<1>6. DOMAIN key2Index' # {} /\ DOMAIN key2Index \subseteq HashSpace
  <2>1. key2Index' = [p \in DOMAIN key2Index' |-> key2Index'[p]]
    BY <1>1 DEF deleteNode
  <2>2. key2Index' # EmptyRing
    BY DEF Routable
  <2> QED
    BY <2>1, <2>2 DEF EmptyRing, IInv, TypeOK, RingType
<1>7. /\ q \in DOMAIN key2Index
      /\ q \in DOMAIN key2Index' => GetServer(key2Index', h) = q
  BY <1>5, <1>6, PointStays
<1>8. CASE q \in DOMAIN key2Index'
  <2>1. Owner(key2Index', h) = Owner(key2Index, h)
    BY <1>5, <1>7, <1>8 DEF Owner
  <2>2. Route(h)' = Route(h)
    BY <1>1, <2>1 DEF Route
  <2> QED
    BY <2>2
<1>9. CASE q \notin DOMAIN key2Index'
  <2>1. q \in Points(n - 1) /\ n - 1 \in 0 .. (n - 1)
    BY <1>2, <1>5, <1>7, <1>9
  <2>2. key2Index[q] = n - 1
    BY <1>3, <2>1 DEF Covers
  <2>3. Owner(key2Index, h) + 1 = n
    BY <1>2, <2>2 DEF Owner
  <2>4. Route(h) = Last(fd_node)
    BY <1>2, <2>3 DEF Route
  <2> QED
    BY <1>1, <2>4 DEF MayMove
<1> QED
  BY <1>8, <1>9

\* The end of a shrink moves no key that still has a server.
LEMMA ShrinkEndStable ==
    ASSUME IInv, ShrinkEnd, ~Crash, NEW h \in HashSpace, Routable(h), Routable(h)'
    PROVE  Route(h)' = Route(h)
<1> DEFINE place == Owner(key2Index, h) + 1
<1>1. fd_node # <<>> /\ fd_node' = Front(fd_node) /\ key2Index' = key2Index
  BY DEF ShrinkEnd, ringVars
<1>2. /\ fd_node \in Seq(Fd) /\ Len(fd_node) \in Nat \ {0}
      /\ Len(fd_node') = Len(fd_node) - 1
  BY <1>1, TableFacts, FrontLast DEF IInv
<1>3. place \in 1 .. Len(fd_node')
  BY <1>1 DEF Routable
<1> HIDE DEF place
<1>4. fd_node'[place] = fd_node[place]
  BY <1>1, <1>2, <1>3 DEF Front
<1> QED
  BY <1>1, <1>4 DEF Route, place

\* The removal of a lone primary may move keys.
LEMMA DetectLostStable ==
    ASSUME IInv, NEW fd \in Fd, DetectLost(fd), ~Crash,
           NEW h \in HashSpace, Routable(h), Route(h)' # Route(h)
    PROVE  MayMove(h)
<1>1. /\ Finds(fd, "P") /\ deletefd' = fd
      /\ fd_node' = IF Places(fd) = {} THEN fd_node
                    ELSE RemoveAt(fd_node, Least(Places(fd)))
      /\ Places(fd) = {} => UNCHANGED ringVars
  BY DEF DetectLost
<1>2. Places(fd) # {}
  BY <1>1 DEF Route, ringVars
<1>3. fd_node \in Seq(Fd) /\ Len(fd_node) \in Nat /\ fd # NoFd
  BY TableFacts, MasterAssumption DEF IInv
<1>4. Len(fd_node') = Len(fd_node) - 1
  BY <1>1, <1>2, <1>3, OnePlace, RemoveAtProperties
<1> QED
  BY <1>1, <1>3, <1>4 DEF MayMove, Finds

\* A step that leaves the ring and fd_node alone moves no key.
LEMMA RouteUnchanged ==
    ASSUME UNCHANGED <<key2Index, fd_node>>, NEW h
    PROVE  Route(h)' = Route(h)
BY DEF Route

\* Keys are rerouted for four reasons only: to a primary that has just joined,
\* from a silent primary to its backup, away from the primary that a shrink
\* announces, and when an index is removed.  Here two shards must not share a
\* point, and none must have the point 0.
THEOREM MasterRoutingIsStable ==
    ASSUME NoCollision, NoPointAtZero
    PROVE  Spec => RoutingIsStable
<1> DEFINE Stable ==
        \A h \in HashSpace :
            ~overlap' /\ Routable(h) /\ Routable(h)' /\ Route(h)' # Route(h) => MayMove(h)
<1>1. IInv /\ CoverInv /\ [Next]_vars => [Stable]_vars
  <2> SUFFICES ASSUME IInv, CoverInv, Next, NEW h \in HashSpace, ~overlap',
                      Routable(h), Routable(h)', Route(h)' # Route(h)
               PROVE  MayMove(h)
    BY Zenon
  <2>1. ~Crash
    BY DEF Crash, Routable
  <2>2. ASSUME NEW fd \in Fd,
               \/ Down(fd) \/ RegisterReplica(fd) \/ HeartbeatAgain(fd)
               \/ DetectReplica(fd) \/ DetectUnregistered(fd)
        PROVE  FALSE
    <3>1. UNCHANGED <<key2Index, fd_node>>
      BY <2>1, <2>2 DEF Down, RegisterReplica, HeartbeatAgain, DetectReplica,
                        DetectUnregistered, ringVars, tables
    <3> QED
      BY <3>1, RouteUnchanged
  <2>3. ASSUME \/ \E c \in Cache : Expire(c)
               \/ \E c \in Cache, fd \in Fd : Accept(c, fd)
               \/ Stamp \/ DetectErase
        PROVE  FALSE
    <3>1. UNCHANGED <<key2Index, fd_node>>
      BY <2>3 DEF Expire, Accept, Stamp, DetectErase, ringVars, tables
    <3> QED
      BY <3>1, RouteUnchanged
  <2>4. ASSUME NEW k \in HashSpace, ClientRequest(k)
        PROVE  FALSE
    <3>1. UNCHANGED <<key2Index, fd_node>>
      BY <2>1, <2>4 DEF ClientRequest, Routable, vars, ringVars, tables
    <3> QED
      BY <3>1, RouteUnchanged
  <2>5. ASSUME NEW fd \in Fd, HeartbeatFault(fd)
        PROVE  FALSE
    BY <2>1, <2>5 DEF HeartbeatFault
  <2>6. ASSUME NEW fd \in Fd, RegisterPrimary(fd) \/ DetectPromote(fd) \/ DetectLost(fd)
        PROVE  MayMove(h)
    BY <2>1, <2>6, RegisterPrimaryStable, DetectPromoteStable, DetectLostStable
  <2>7. ASSUME ShrinkBegin \/ ShrinkEnd
        PROVE  MayMove(h)
    BY <2>1, <2>7, ShrinkBeginStable, ShrinkEndStable
  <2> QED
    BY <2>2, <2>3, <2>4, <2>5, <2>6, <2>7 DEF Next, Detect
<1>2. Init => CoverInv
  BY DEF Init, RingInit, RingOf, CoverInv, Covers
<1>3. IInv /\ CoverInv /\ [Next]_vars => CoverInv'
  BY NextCover
<1>4. IInv /\ [Next]_vars => IInv'
  BY NextIInv
<1> QED
  BY <1>1, <1>2, <1>3, <1>4, InitIInv, PTL DEF Spec, RoutingIsStable
=============================================================================
