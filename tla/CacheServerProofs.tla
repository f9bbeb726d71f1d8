-------------------------- MODULE CacheServerProofs --------------------------
(***************************************************************************)
(* Proofs about the cache servers, for any number of servers, keys, puts,  *)
(* shrinks and failures, any capacity and any hash function: the state has *)
(* its type and a dying server plans to send its own keys; as long as no   *)
(* backup takes over and no shrink is disturbed, a primary that has read   *)
(* its messages has the master's list and what it is told to erase is in   *)
(* it; if, besides, no two shards share a point, a dying server sends each *)
(* key to the server the master names, and a shrink loses no value but     *)
(* those that met a refused or a second connection, a full cache, a put at *)
(* the wrong moment or the loss of a primary.                              *)
(*                                                                         *)
(* The inductive invariant has four layers, each of which rests on the     *)
(* ones before.                                                            *)
(*                                                                         *)
(*   BaseInv   types, and what a process has: nothing when it does not     *)
(*             run, nothing to send unless it is dying, at most one key    *)
(*             on its way to it, and that only while it listens.  It       *)
(*             always holds.                                               *)
(*   ViewInv   ViewsAgree speaks of servers that have read everything and  *)
(*             says nothing of those that have not.  What is inductive is  *)
(*             that the unread messages, replayed on the list a server     *)
(*             has, give the ring (Replays).                               *)
(*   OwnerInv  the master's ring is the one that cal_hash_key builds.      *)
(*   KeepInv   the keys are stacked.  Servers join and are retired at the  *)
(*             end, so the servers that still have a key were its owners   *)
(*             one after the other, in the order of the ring, and the last *)
(*             of them has the newest value (Stacked, Placed).  Therefore  *)
(*             the one that is retired may overwrite what it finds.  What  *)
(*             is on its way over a connection counts as had (Has): the    *)
(*             sender is gone before the receiver puts it, and a second    *)
(*             shrink may retire the receiver before it does.  A loss in   *)
(*             the middle of the ring breaks the order, for the keys put   *)
(*             until then.                                                 *)
(***************************************************************************)
EXTENDS CacheServer, ConsistentHashProofs, SequenceLemmas

-----------------------------------------------------------------------------
(***************************************************************************)
(* Rings and lists.                                                        *)
(***************************************************************************)

\* A ring of n servers that cal_hash_key builds from nothing names one of them.
LEMMA RingOfRange ==
    ASSUME NEW n \in Nat, n # 0, NEW h \in HashSpace
    PROVE  /\ Owner(RingOf(n), h) \in 0 .. (n - 1)
           /\ RingOf(n) # EmptyRing
<1> DEFINE R == RingOf(n)
           q == GetServer(R, h)
           S == {i \in 0 .. (n - 1) : q \in Points(i)}
<1>1. h \in Nat /\ HashSpace \subseteq Nat
  BY RingAssumption DEF HashSpace
<1>2. DOMAIN R = UNION {Points(i) : i \in 0 .. (n - 1)}
  BY DEF RingOf
<1>3. DOMAIN R \subseteq Nat
  BY <1>1, <1>2, PointsAreHashes
<1>4. DOMAIN R # {}
  <2>1. PICK j \in VNode : TRUE
    BY ServerAssumption
  <2>2. Point[<<0, j>>] \in Points(0)
    BY ServerAssumption DEF Points
  <2>3. 0 \in 0 .. (n - 1)
    OBVIOUS
  <2> QED
    BY <1>2, <2>2, <2>3
<1>5. R # EmptyRing
  <2> HIDE DEF R
  <2> QED
    BY <1>4 DEF EmptyRing
<1>6. q \in DOMAIN R
  <2> HIDE DEF R
  <2> QED
    BY <1>1, <1>3, <1>4, GetServerProperties
<1>7. R[q] = Least(S)
  BY <1>2, <1>6 DEF RingOf
<1>8. S # {} /\ S \subseteq Nat
  BY <1>2, <1>6
<1>9. Least(S) \in S
  <2> HIDE DEF S
  <2> QED
    BY <1>8, LeastProperties
<1> QED
  BY <1>5, <1>7, <1>9 DEF Owner

\* A key whose owner is among the first j of m servers has the same owner when
\* there are only those j.
LEMMA OwnerStays ==
    ASSUME NoCollision, NEW m \in Nat, NEW j \in 1 .. m, NEW h \in HashSpace,
           Owner(RingOf(m), h) < j
    PROVE  Owner(RingOf(j), h) = Owner(RingOf(m), h)
<1> DEFINE A == RingOf(j)
           B == RingOf(m)
           q == GetServer(B, h)
<1>1. h \in Nat /\ HashSpace \subseteq Nat /\ j \in Nat /\ m # 0
  BY RingAssumption DEF HashSpace
<1>2. B # EmptyRing /\ Owner(B, h) \in 0 .. (m - 1)
  BY <1>1, RingOfRange
<1>3. DOMAIN A \subseteq HashSpace /\ DOMAIN B \subseteq HashSpace
  BY <1>1, RingOfProperties
<1>4. DOMAIN A \subseteq DOMAIN B
  <2>1. \A i \in 0 .. (j - 1) : i \in 0 .. (m - 1)
    OBVIOUS
  <2> QED
    BY <1>1, <2>1, RingOfProperties
<1>5. DOMAIN B # {}
  <2>1. B = [p \in DOMAIN B |-> B[p]]
    BY RingOfProperties
  <2> HIDE DEF B
  <2> QED
    BY <1>2, <2>1 DEF EmptyRing
<1>6. /\ q \in DOMAIN B
      /\ q \in DOMAIN A => GetServer(A, h) = q
  <2> HIDE DEF A, B
  <2> QED
    BY <1>1, <1>3, <1>4, <1>5, GetServerProperties
<1>7. PICK i \in 0 .. (m - 1) : q \in Points(i)
  BY <1>6, RingOfProperties
<1>8. Owner(B, h) = i
  BY <1>7, RingOfProperties DEF Owner
<1>9. i \in 0 .. (j - 1)
  BY <1>8
<1>10. q \in DOMAIN A /\ A[q] = i
  BY <1>1, <1>3, <1>6, <1>7, <1>9, RingOfProperties
<1> QED
  BY <1>6, <1>8, <1>10 DEF Owner

\* erase(find_if(...)) takes one element out.
LEMMA WithoutType ==
    ASSUME NEW S, NEW s \in Seq(S), NEW e, e \in ToSet(s)
    PROVE  Without(s, e) \in Seq(S)
<1> DEFINE I == {i \in DOMAIN s : s[i] = e}
<1>1. DOMAIN s = 1 .. Len(s)
  OBVIOUS
<1>2. I # {} /\ I \subseteq Nat
  BY <1>1, Elements
<1>3. Least(I) \in I
  <2> HIDE DEF I
  <2> QED
    BY <1>2, LeastProperties
<1>4. Least(I) \in 1 .. Len(s)
  BY <1>1, <1>3
<1>5. RemoveAt(s, Least(I)) \in Seq(S)
  <2> HIDE DEF I
  <2> QED
    BY <1>4, RemoveAtProperties
<1> QED
  BY <1>5 DEF Without

\* An element that occurs once is erased where it is.
LEMMA WithoutOnly ==
    ASSUME NEW S, NEW s \in Seq(S), NoRepeat(s), NEW k \in 1 .. Len(s)
    PROVE  Without(s, s[k]) = RemoveAt(s, k)
<1> DEFINE I == {i \in DOMAIN s : s[i] = s[k]}
<1>1. DOMAIN s = 1 .. Len(s)
  OBVIOUS
<1>2. I = {k}
  BY <1>1 DEF NoRepeat
<1>3. Least(I) \in I
  <2>1. I # {} /\ I \subseteq Nat
    BY <1>2
  <2> HIDE DEF I
  <2> QED
    BY <2>1, LeastProperties
<1>4. Least(I) = k
  BY <1>2, <1>3
<1> QED
  BY <1>4 DEF Without

\* To erase the last element is to drop it.
LEMMA RemoveAtLast ==
    ASSUME NEW S, NEW s \in Seq(S), s # <<>>
    PROVE  RemoveAt(s, Len(s)) = Front(s)
<1> DEFINE n == Len(s)
           t == RemoveAt(s, n)
           f == Front(s)
<1>1. n \in Nat \ {0} /\ f \in Seq(S) /\ Len(f) = n - 1
  BY FrontLast
<1>2. n \in 1 .. Len(s)
  BY <1>1
<1>3. t \in Seq(S) /\ Len(t) = n - 1
  BY <1>2, RemoveAtProperties
<1>4. \A i \in 1 .. (n - 1) : t[i] = s[i]
  <2> SUFFICES ASSUME NEW i \in 1 .. (n - 1)
               PROVE  t[i] = s[i]
    OBVIOUS
  <2>1. i < n
    BY <1>1
  <2> QED
    BY <1>2, <2>1, RemoveAtIndex
<1>5. \A i \in 1 .. (n - 1) : f[i] = s[i]
  BY <1>1 DEF Front
<1>6. t = f
  <2> HIDE DEF t, f, n
  <2> QED
    BY <1>1, <1>3, <1>4, <1>5, SeqEqual
<1> QED
  BY <1>6

-----------------------------------------------------------------------------
(***************************************************************************)
(* What a queue of messages makes of a list.                               *)
(***************************************************************************)

\* What a message of the master makes of the list of server c, when an address
\* that is to be erased is there.
Follows(c, msg, old, new) ==
    \/ msg.kind = "list" /\ old = <<>> /\ new = msg.all
    \/ msg.kind = "N" /\ msg.who = c /\ new = old
    \/ msg.kind = "N" /\ msg.who # c /\ new = Append(old, msg.who)
    \/ msg.kind \in {"K", "D"} /\ msg.who \in ToSet(old) /\ new = Without(old, msg.who)

\* The messages of a queue, read one by one, take the list of c from one value
\* to another.
Replays(c, queue, from, to) ==
    \E v \in [0 .. Len(queue) -> Seq(Cache)] :
        /\ v[0] = from /\ v[Len(queue)] = to
        /\ \A i \in 1 .. Len(queue) : Follows(c, queue[i], v[i - 1], v[i])

\* With nothing to read the list stays.
LEMMA ReplayNone ==
    ASSUME NEW c, NEW from \in Seq(Cache), NEW to
    PROVE  Replays(c, <<>>, from, to) <=> from = to
<1>1. Len(<<>>) = 0 /\ 1 .. 0 = {}
  OBVIOUS
<1>2. ASSUME from = to
      PROVE  Replays(c, <<>>, from, to)
  <2> DEFINE v == [i \in 0 .. 0 |-> from]
  <2>1. v \in [0 .. Len(<<>>) -> Seq(Cache)] /\ v[0] = from
    BY <1>1
  <2> HIDE DEF v
  <2> QED
    BY <1>1, <1>2, <2>1 DEF Replays
<1> QED
  BY <1>1, <1>2 DEF Replays

\* The first message is read.
LEMMA ReplayHead ==
    ASSUME NEW c, NEW M, NEW q \in Seq(M), q # <<>>, NEW from, NEW to,
           Replays(c, q, from, to)
    PROVE  \E mid \in Seq(Cache) :
              Follows(c, Head(q), from, mid) /\ Replays(c, Tail(q), mid, to)
<1>1. PICK v \in [0 .. Len(q) -> Seq(Cache)] :
        /\ v[0] = from /\ v[Len(q)] = to
        /\ \A i \in 1 .. Len(q) : Follows(c, q[i], v[i - 1], v[i])
  BY DEF Replays
<1> DEFINE t == Tail(q)
           w == [i \in 0 .. Len(t) |-> v[i + 1]]
<1>2. /\ Len(q) \in Nat \ {0} /\ Head(q) = q[1]
      /\ Len(t) = Len(q) - 1 /\ \A i \in 1 .. Len(t) : t[i] = q[i + 1]
  BY EmptySeq
<1>3. w \in [0 .. Len(t) -> Seq(Cache)]
  BY <1>2
<1>4. w[0] = v[1] /\ v[1] \in Seq(Cache) /\ w[Len(t)] = to
  BY <1>1, <1>2
<1>5. ASSUME NEW i \in 1 .. Len(t)
      PROVE  Follows(c, t[i], w[i - 1], w[i])
  <2>1. i + 1 \in 1 .. Len(q) /\ i - 1 \in 0 .. Len(t) /\ i \in 0 .. Len(t)
    BY <1>2
  <2>2. w[i - 1] = v[(i + 1) - 1] /\ w[i] = v[i + 1]
    BY <2>1
  <2> QED
    BY <1>1, <1>2, <2>1, <2>2
<1>6. Follows(c, Head(q), from, v[1])
  <2>1. 1 \in 1 .. Len(q) /\ 1 - 1 = 0
    BY <1>2
  <2> QED
    BY <1>1, <1>2, <2>1
<1>7. Replays(c, t, v[1], to)
  <2> HIDE DEF w, t
  <2> QED
    BY <1>3, <1>4, <1>5 DEF Replays
<1> QED
  BY <1>4, <1>6, <1>7

\* A message is added behind the others.
LEMMA ReplayAppend ==
    ASSUME NEW c, NEW M, NEW q \in Seq(M), NEW msg \in M, NEW from, NEW to,
           Replays(c, q, from, to), NEW new \in Seq(Cache), Follows(c, msg, to, new)
    PROVE  Replays(c, Append(q, msg), from, new)
<1>1. PICK v \in [0 .. Len(q) -> Seq(Cache)] :
        /\ v[0] = from /\ v[Len(q)] = to
        /\ \A i \in 1 .. Len(q) : Follows(c, q[i], v[i - 1], v[i])
  BY DEF Replays
<1> DEFINE n == Len(q)
           t == Append(q, msg)
           w == [i \in 0 .. Len(t) |-> IF i <= n THEN v[i] ELSE new]
<1>2. /\ n \in Nat /\ Len(t) = n + 1 /\ t[n + 1] = msg
      /\ \A i \in 1 .. n : t[i] = q[i]
  OBVIOUS
<1>3. w \in [0 .. Len(t) -> Seq(Cache)]
  BY <1>2
<1>4. w[0] = from /\ w[Len(t)] = new /\ w[n] = to
  BY <1>1, <1>2
<1>5. ASSUME NEW i \in 1 .. Len(t)
      PROVE  Follows(c, t[i], w[i - 1], w[i])
  <2>1. CASE i = n + 1
    <3>1. i - 1 = n
      BY <1>2, <2>1
    <3> QED
      BY <1>2, <1>4, <2>1, <3>1
  <2>2. CASE i # n + 1
    <3>1. i \in 1 .. n /\ i - 1 \in 0 .. n
      BY <1>2, <2>2
    <3>2. w[i - 1] = v[i - 1] /\ w[i] = v[i]
      BY <1>2, <3>1
    <3> QED
      BY <1>1, <1>2, <3>1, <3>2
  <2> QED
    BY <2>1, <2>2
<1> QED
  <2> HIDE DEF w, t
  <2>1. Replays(c, t, from, new)
    BY <1>3, <1>4, <1>5 DEF Replays
  <2> QED
    BY <2>1 DEF t

-----------------------------------------------------------------------------
(***************************************************************************)
(* The base of the inductive invariant: types, and what each process has.  *)
(***************************************************************************)

\* The parts of TypeOK.
RingType == nodes \in Int /\ key2Index \in [DOMAIN key2Index -> Nat]
MasterType ==
    /\ members \in Seq(Cache) /\ shrinking \in Cache \cup {NoCache}
    /\ shrinks \in 0 .. MaxShrinks
LifeType == alive \subseteq started /\ started \subseteq Cache /\ fails \in 0 .. MaxFails
InboxType == inbox \in [Cache -> Seq(Message)]
ViewType ==
    /\ initial_flag \in [Cache -> BOOLEAN]
    /\ status_ \in [Cache -> {"P", "R", "K"}]
    /\ dying_cache \in [Cache -> Cache \cup {NoCache}]
    /\ cache_list \in [Cache -> Seq(Cache)]
    /\ killing \subseteq Cache
PassType ==
    /\ store \in [Cache -> [Key -> Value]]
    /\ thread \in [Cache -> {"loop", "accept", "send", "ended"}]
    /\ out_key \in [Cache -> SUBSET [key : Key, to : Cache]]
    /\ conn \in [Cache -> SUBSET [key : Key, val : Value]]
HistoryType ==
    /\ replaced \in BOOLEAN /\ disturbed \in BOOLEAN
    /\ newest \in [Key -> 0 .. MaxPuts]
    /\ late \cup early \cup orphaned \cup evicted \cup unsent \subseteq Key

\* TypeOK by parts, so that a step names only the parts it touches.
LEMMA TypeParts ==
    TypeOK <=> /\ RingType /\ MasterType /\ LifeType /\ InboxType /\ ViewType
               /\ PassType /\ HistoryType
BY DEF TypeOK, RingType, MasterType, LifeType, InboxType, ViewType, PassType, HistoryType

\* A process that does not run has no memory.
Idle ==
    \A c \in Cache \ alive :
        /\ inbox[c] = <<>> /\ cache_list[c] = <<>> /\ out_key[c] = {} /\ conn[c] = {}
        /\ c \notin killing

\* A server that has not started is not dying and has no keys.
Unstarted ==
    \A c \in Cache \ started : status_[c] # "K" /\ \A k \in Key : store[c][k] = 0

\* Only a dying server that knows another one sends keys, to servers it knows.
Sending ==
    \A c \in Cache :
        thread[c] = "send" =>
            /\ status_[c] = "K" /\ cache_list[c] # <<>>
            /\ \A e \in out_key[c] : e.to \in ToSet(cache_list[c])

\* What is still to be sent is there, if it was not dropped, and what is on its
\* way to a server is all that this server waits for.
Planned ==
    \A c \in Cache :
        /\ \A e \in out_key[c] :
              thread[c] = "send" /\ (store[c][e.key] # 0 \/ e.key \in evicted)
        /\ \A m \in conn[c] : thread[c] = "accept" /\ conn[c] = {m}

\* No server has, or will get, a value that was not put yet, and none has an
\* empty one but for a key that some cache dropped.
Numbered ==
    \A c \in Cache :
        /\ \A k \in Key :
              store[c][k] <= newest[k] /\ (store[c][k] = Blank => k \in evicted)
        /\ \A m \in conn[c] :
              /\ m.val <= newest[m.key] /\ m.val # 0
              /\ m.val = Blank => m.key \in evicted

\* All of it, with the type of the state.
BaseInv == TypeOK /\ Idle /\ Unstarted /\ Sending /\ Planned /\ Numbered

\* The invariant by parts.
LEMMA BaseParts ==
    BaseInv <=> /\ RingType /\ MasterType /\ LifeType /\ InboxType /\ ViewType
                /\ PassType /\ HistoryType
                /\ Idle /\ Unstarted /\ Sending /\ Planned /\ Numbered
BY TypeParts DEF BaseInv

\* The same after a step.
LEMMA BasePartsNext ==
    BaseInv' <=> /\ RingType' /\ MasterType' /\ LifeType' /\ InboxType' /\ ViewType'
                 /\ PassType' /\ HistoryType'
                 /\ Idle' /\ Unstarted' /\ Sending' /\ Planned' /\ Numbered'
BY TypeParts, BaseParts, PTL

\* Parts whose variables do not change.
LEMMA RingTypeFrame == RingType /\ UNCHANGED ringVars => RingType'
BY DEF RingType, ringVars
LEMMA MasterTypeFrame == MasterType /\ UNCHANGED <<members, shrinking, shrinks>> => MasterType'
BY DEF MasterType
LEMMA LifeTypeFrame == LifeType /\ UNCHANGED <<alive, started, fails>> => LifeType'
BY DEF LifeType
LEMMA InboxTypeFrame == InboxType /\ UNCHANGED inbox => InboxType'
BY DEF InboxType
LEMMA ViewTypeFrame == ViewType /\ UNCHANGED view => ViewType'
BY DEF ViewType, view
LEMMA PassTypeFrame == PassType /\ UNCHANGED passing => PassType'
BY DEF PassType, passing
LEMMA HistoryTypeFrame == HistoryType /\ UNCHANGED history => HistoryType'
BY DEF HistoryType, history, puts
LEMMA IdleFrame ==
    Idle /\ UNCHANGED <<alive, inbox, cache_list, out_key, conn, killing>> => Idle'
BY DEF Idle
LEMMA UnstartedFrame == Unstarted /\ UNCHANGED <<started, status_, store>> => Unstarted'
BY DEF Unstarted
LEMMA SendingFrame ==
    Sending /\ UNCHANGED <<thread, status_, cache_list, out_key>> => Sending'
BY DEF Sending
LEMMA PlannedFrame ==
    Planned /\ UNCHANGED <<thread, out_key, store, conn, evicted>> => Planned'
BY DEF Planned
LEMMA NumberedFrame ==
    Numbered /\ UNCHANGED <<store, newest, conn, evicted>> => Numbered'
BY DEF Numbered

\* Before the first server starts there is nothing to hold.
LEMMA InitBase == Init => BaseInv
<1> SUFFICES ASSUME Init PROVE BaseInv
  OBVIOUS
<1>1. RingType
  <2>1. nodes = 0 /\ key2Index = RingOf(0)
    BY DEF Init, RingInit
  <2>2. DOMAIN key2Index = {} /\ key2Index = [p \in DOMAIN key2Index |-> key2Index[p]]
    BY <2>1 DEF RingOf
  <2> QED
    BY <2>1, <2>2 DEF RingType
<1>2. MasterType /\ LifeType
  BY ServerAssumption DEF Init, MasterType, LifeType
<1>3. InboxType
  BY DEF Init, InboxType
<1>4. ViewType
  BY Z3 DEF Init, ViewType
<1>5. PassType
  <2>1. 0 \in Value
    BY ServerAssumption DEF Value, Blank
  <2> QED
    BY <2>1 DEF Init, PassType
<1>6. HistoryType
  <2>1. /\ newest \in [Key -> 0 .. MaxPuts]
        /\ late \cup early \cup orphaned \cup evicted \cup unsent \subseteq Key
    BY ServerAssumption DEF Init
  <2>2. replaced \in BOOLEAN /\ disturbed \in BOOLEAN
    BY Zenon DEF Init
  <2> QED
    BY <2>1, <2>2, Zenon DEF HistoryType
<1>7. Idle /\ Sending /\ Planned
  BY DEF Init, Idle, Sending, Planned
<1>8. Unstarted /\ Numbered
  BY DEF Init, Unstarted, Numbered, Blank
<1> QED
  BY <1>1, <1>2, <1>3, <1>4, <1>5, <1>6, <1>7, <1>8, BaseParts

\* addNode and deleteNode keep the type of the ring.
LEMMA AddNodeType ==
    ASSUME RingType, NEW index \in Nat, addNode(index)
    PROVE  RingType'
BY DEF RingType, addNode

\* deleteNode() leaves a ring of indices.
LEMMA DeleteNodeType ==
    ASSUME RingType, NEW index \in Nat, deleteNode(index)
    PROVE  RingType'
<1> DEFINE kept == index .. (nodes - 2)
           again == UNION {Points(i) : i \in kept}
<1>1. nodes' \in Int
  BY DEF RingType, deleteNode
<1>2. /\ DOMAIN key2Index' = (DOMAIN key2Index \ Points(nodes - 1)) \cup again
      /\ key2Index' = [p \in DOMAIN key2Index' |-> key2Index'[p]]
  BY DEF deleteNode
<1>3. ASSUME NEW p \in DOMAIN key2Index'
      PROVE  key2Index'[p] \in Nat
  <2>1. CASE p \in again
    <3> DEFINE S == {i \in kept : p \in Points(i)}
    <3>1. key2Index'[p] = Greatest(S)
      BY <1>2, <2>1 DEF deleteNode
    <3>2. S # {} /\ S \subseteq Nat /\ \A y \in S : y <= nodes
      BY <2>1 DEF RingType
    <3>3. nodes \in Nat
      <4>1. PICK y \in S : TRUE
        BY <3>2
      <4>2. y \in Nat /\ y <= nodes /\ nodes \in Int
        BY <3>2 DEF RingType
      <4> QED
        BY <4>2
    <3>4. Greatest(S) \in S
      <4> HIDE DEF S
      <4> QED
        BY <3>2, <3>3, GreatestProperties
    <3> QED
      BY <3>1, <3>2, <3>4
  <2>2. CASE p \notin again
    <3>1. p \in DOMAIN key2Index /\ key2Index'[p] = key2Index[p]
      BY <1>2, <2>2 DEF deleteNode
    <3> QED
      BY <3>1 DEF RingType
  <2> QED
    BY <2>1, <2>2
<1>4. key2Index' \in [DOMAIN key2Index' -> Nat]
  BY <1>2, <1>3
<1> QED
  BY <1>1, <1>4 DEF RingType

\* A broadcast adds one message to the queues of those it reaches.
LEMMA BroadcastQueues ==
    ASSUME InboxType, NEW S, NEW msg \in Message
    PROVE  /\ Broadcast(S, msg) \in [Cache -> Seq(Message)]
           /\ \A c \in Cache :
                 Broadcast(S, msg)[c] =
                    IF c \in S \cap alive THEN Append(inbox[c], msg) ELSE inbox[c]
BY DEF InboxType, Broadcast

\* The messages that are sent.
LEMMA Messages ==
    /\ \A all \in Seq(Cache) : [kind |-> "list", all |-> all] \in Message
    /\ \A who \in Cache, k \in {"N", "K", "D", "C"} : [kind |-> k, who |-> who] \in Message
    /\ [kind |-> "P"] \in Message
BY DEF Message

\* A message is read.
LEMMA TakenQueues ==
    ASSUME InboxType, NEW c \in Cache, inbox[c] # <<>>, Taken(c)
    PROVE  /\ InboxType' /\ Head(inbox[c]) \in Message /\ Tail(inbox[c]) \in Seq(Message)
           /\ inbox'[c] = Tail(inbox[c])
           /\ \A d \in Cache \ {c} : inbox'[d] = inbox[d]
<1>1. inbox[c] \in Seq(Message)
  BY DEF InboxType
<1>2. Head(inbox[c]) \in Message /\ Tail(inbox[c]) \in Seq(Message)
  BY <1>1
<1> QED
  BY <1>2 DEF InboxType, Taken

\* Messages that name a server name one of the system.
LEMMA NamesServer ==
    ASSUME NEW msg \in Message
    PROVE  /\ msg.kind \in {"N", "K", "D", "C"} => msg.who \in Cache
           /\ msg.kind = "list" => msg.all \in Seq(Cache)
BY DEF Message

\* The end of a process.
LEMMA DiesParts ==
    ASSUME BaseInv, NEW c \in Cache, Dies(c), UNCHANGED <<started, newest, evicted>>
    PROVE  /\ alive' \subseteq started' /\ InboxType' /\ ViewType' /\ PassType'
           /\ Idle' /\ Unstarted' /\ Sending' /\ Planned' /\ Numbered'
           /\ unsent' \subseteq Key
<1> USE DEF Dies
<1>1. alive' \subseteq started' /\ InboxType'
  BY BaseParts DEF LifeType, InboxType
<1>2. ViewType'
  BY BaseParts DEF ViewType
<1>3. PassType'
  BY BaseParts DEF PassType
<1>4. Idle'
  BY BaseParts DEF Idle, InboxType, ViewType, PassType
<1>5. Unstarted' /\ Numbered'
  BY BaseParts DEF Unstarted, Numbered, PassType
<1>6. Sending'
  BY BaseParts DEF Sending, ViewType, PassType
<1>7. Planned'
  BY BaseParts DEF Planned, PassType
<1>8. unsent' \subseteq Key
  BY BaseParts DEF PassType, HistoryType
<1> QED
  BY <1>1, <1>2, <1>3, <1>4, <1>5, <1>6, <1>7, <1>8

\* A death that changes nothing else.
LEMMA DeathBase ==
    ASSUME BaseInv, NEW c \in Cache, Dies(c),
           UNCHANGED <<master, servers, replaced, disturbed, puts>>
    PROVE  BaseInv'
<1>1. UNCHANGED <<ringVars, members, shrinking, shrinks, started, fails, newest, late,
                  early, orphaned, evicted, replaced, disturbed>>
  BY DEF master, servers, puts
<1>2. /\ alive' \subseteq started' /\ InboxType' /\ ViewType' /\ PassType'
      /\ Idle' /\ Unstarted' /\ Sending' /\ Planned' /\ Numbered'
      /\ unsent' \subseteq Key
  BY <1>1, DiesParts
<1>3. RingType' /\ MasterType' /\ HistoryType'
  <2>1. late' \cup early' \cup orphaned' \cup evicted' \cup unsent' \subseteq Key
    BY <1>1, <1>2, BaseParts DEF HistoryType
  <2>2. HistoryType'
    BY <1>1, <2>1, BaseParts, Zenon DEF HistoryType
  <2> QED
    BY <1>1, <2>2, BaseParts, RingTypeFrame, MasterTypeFrame
<1>4. LifeType'
  BY <1>1, <1>2, BaseParts DEF LifeType
<1> QED
  BY <1>2, <1>3, <1>4, BasePartsNext

\* Disturb keeps its type.
LEMMA DisturbType ==
    ASSUME disturbed \in BOOLEAN, Disturb
    PROVE  disturbed' \in BOOLEAN
BY Zenon DEF Disturb

\* A primary registers: list and N are messages, and it has nothing yet.
LEMMA JoinBase ==
    ASSUME BaseInv, NEW c \in Cache, Join(c)
    PROVE  BaseInv'
<1> DEFINE all == Append(members, c)
           b == Broadcast(ToSet(members), [kind |-> "N", who |-> c])
           two == <<[kind |-> "list", all |-> all], [kind |-> "N", who |-> c]>>
<1>1. /\ members' = all /\ inbox' = [b EXCEPT ![c] = two]
      /\ addNode(Len(members)) /\ c \notin started
      /\ started' = started \cup {c} /\ alive' = alive \cup {c}
      /\ Disturb
      /\ UNCHANGED <<shrinking, shrinks, fails, view, passing, replaced, puts,
                     unsent>>
  BY DEF Join
<1>2. members \in Seq(Cache) /\ all \in Seq(Cache) /\ Len(members) \in Nat
  BY BaseParts DEF MasterType
<1>3. RingType'
  BY <1>1, <1>2, BaseParts, AddNodeType
<1>4. MasterType'
  BY <1>1, <1>2, BaseParts DEF MasterType
<1>5. LifeType'
  BY <1>1, BaseParts DEF LifeType
<1>6. two \in Seq(Message)
  <2>1. PICK m1 \in Message : m1 = [kind |-> "list", all |-> all]
    BY <1>2, Messages
  <2>2. PICK m2 \in Message : m2 = [kind |-> "N", who |-> c]
    BY Messages
  <2>3. <<m1, m2>> \in Seq(Message)
    OBVIOUS
  <2> QED
    BY <2>1, <2>2, <2>3
<1>7. b \in [Cache -> Seq(Message)] /\ \A d \in Cache \ alive : b[d] = inbox[d]
  <2>1. PICK msg \in Message : msg = [kind |-> "N", who |-> c]
    BY Messages
  <2>2. /\ Broadcast(ToSet(members), msg) \in [Cache -> Seq(Message)]
        /\ \A d \in Cache \ alive : Broadcast(ToSet(members), msg)[d] = inbox[d]
    BY BaseParts, BroadcastQueues
  <2> QED
    BY <2>1, <2>2
<1>8. InboxType' /\ \A d \in Cache \ {c} : inbox'[d] = b[d]
  <2> HIDE DEF b, two
  <2> QED
    BY <1>1, <1>6, <1>7 DEF InboxType
<1>9. Idle'
  BY <1>1, <1>7, <1>8, BaseParts DEF Idle, view, passing
<1>10. Unstarted'
  BY <1>1, BaseParts DEF Unstarted, view, passing
<1>11. HistoryType'
  <2>1. disturbed' \in BOOLEAN
    BY <1>1, BaseParts, DisturbType DEF HistoryType
  <2> QED
    BY <1>1, <2>1, BaseParts, Zenon DEF HistoryType, puts
<1>12. ViewType' /\ PassType' /\ Sending' /\ Planned' /\ Numbered'
  BY <1>1, BaseParts, ViewTypeFrame, PassTypeFrame, SendingFrame, PlannedFrame,
     NumberedFrame DEF view, passing, puts
<1> QED
  BY <1>3, <1>4, <1>5, <1>8, <1>9, <1>10, <1>11, <1>12, BasePartsNext

\* A backup registers.
LEMMA StandByBase ==
    ASSUME BaseInv, NEW c \in Cache, StandBy(c)
    PROVE  BaseInv'
<1>1. /\ started' = started \cup {c} /\ alive' = alive \cup {c}
      /\ UNCHANGED <<master, fails, inbox, view, passing, history>>
  BY DEF StandBy
<1>2. LifeType'
  BY <1>1, BaseParts DEF LifeType
<1>3. Idle' /\ Unstarted'
  BY <1>1, BaseParts DEF Idle, Unstarted, view, passing
<1>4. /\ RingType' /\ MasterType' /\ InboxType' /\ ViewType' /\ PassType' /\ HistoryType'
      /\ Sending' /\ Planned' /\ Numbered'
  BY <1>1, BaseParts, RingTypeFrame, MasterTypeFrame, InboxTypeFrame, ViewTypeFrame,
     PassTypeFrame, HistoryTypeFrame, SendingFrame, PlannedFrame, NumberedFrame
     DEF master, view, passing, history, puts
<1> QED
  BY <1>2, <1>3, <1>4, BasePartsNext

\* A broadcast to servers that run leaves the others idle.
LEMMA BroadcastIdle ==
    ASSUME BaseInv, NEW S, NEW msg \in Message, inbox' = Broadcast(S, msg),
           UNCHANGED <<alive, view, passing>>
    PROVE  InboxType' /\ Idle'
<1>1. /\ inbox' \in [Cache -> Seq(Message)]
      /\ \A c \in Cache \ alive : inbox'[c] = inbox[c]
  BY BaseParts, BroadcastQueues
<1> QED
  BY <1>1, BaseParts DEF InboxType, Idle, view, passing

\* The detector promotes a backup.
LEMMA FailoverBase ==
    ASSUME BaseInv, NEW p \in Cache, NEW r \in Cache, Failover(p, r)
    PROVE  BaseInv'
<1> DEFINE all == [i \in 1 .. Len(members) |-> IF members[i] = p THEN r ELSE members[i]]
<1>1. /\ members' = all /\ inbox' = Broadcast(ToSet(all), [kind |-> "C", who |-> p])
      /\ replaced' = TRUE /\ Disturb
      /\ UNCHANGED <<ringVars, shrinking, shrinks, servers, alive, view, passing, puts,
                     unsent>>
  BY DEF Failover
<1>2. all \in Seq(Cache)
  BY BaseParts DEF MasterType
<1>3. MasterType'
  BY <1>1, <1>2, BaseParts DEF MasterType
<1>4. InboxType' /\ Idle'
  BY <1>1, Messages, BroadcastIdle
<1>5. HistoryType'
  <2>1. disturbed' \in BOOLEAN
    BY <1>1, BaseParts, DisturbType DEF HistoryType
  <2> QED
    BY <1>1, <2>1, BaseParts, Zenon DEF HistoryType, puts
<1>6. /\ RingType' /\ LifeType' /\ ViewType' /\ PassType' /\ Unstarted' /\ Sending'
      /\ Planned' /\ Numbered'
  BY <1>1, BaseParts, RingTypeFrame, LifeTypeFrame, ViewTypeFrame, PassTypeFrame,
     UnstartedFrame, SendingFrame, PlannedFrame, NumberedFrame
     DEF servers, view, passing, puts
<1> QED
  BY <1>3, <1>4, <1>5, <1>6, BasePartsNext

\* The answer to a heartbeat is a message to a server that runs.
LEMMA AnswerPrimaryBase ==
    ASSUME BaseInv, NEW c \in Cache, AnswerPrimary(c)
    PROVE  BaseInv'
<1>1. /\ inbox' = Broadcast({c}, [kind |-> "P"])
      /\ UNCHANGED <<master, servers, alive, view, passing, history>>
  BY DEF AnswerPrimary
<1>2. InboxType' /\ Idle'
  BY <1>1, Messages, BroadcastIdle
<1>3. /\ RingType' /\ MasterType' /\ LifeType' /\ ViewType' /\ PassType' /\ HistoryType'
      /\ Unstarted' /\ Sending' /\ Planned' /\ Numbered'
  BY <1>1, BaseParts, RingTypeFrame, MasterTypeFrame, LifeTypeFrame, ViewTypeFrame,
     PassTypeFrame, HistoryTypeFrame, UnstartedFrame, SendingFrame, PlannedFrame,
     NumberedFrame DEF master, servers, view, passing, history, puts
<1> QED
  BY <1>2, <1>3, BasePartsNext

\* The place of a primary in fd_node.
LEMMA MemberPlace ==
    ASSUME NEW s \in Seq(Cache), NEW p \in ToSet(s)
    PROVE  LET k == CHOOSE i \in 1 .. Len(s) : s[i] = p
           IN  k \in 1 .. Len(s) /\ s[k] = p
BY Elements

\* The detector removes a primary.
LEMMA LostBase ==
    ASSUME BaseInv, NEW p \in Cache, Lost(p)
    PROVE  BaseInv'
<1> DEFINE place == CHOOSE i \in 1 .. Len(members) : members[i] = p
           rest == RemoveAt(members, place)
<1>1. /\ members' = rest /\ deleteNode(place - 1) /\ p \in ToSet(members)
      /\ inbox' = Broadcast(ToSet(rest), [kind |-> "D", who |-> p])
      /\ Disturb
      /\ UNCHANGED <<shrinking, shrinks, servers, alive, view, passing, replaced,
                     newest, late, early, evicted, unsent>>
      /\ orphaned' = orphaned \cup {k \in Key : newest[k] # 0}
  BY DEF Lost
<1>2. members \in Seq(Cache)
  BY BaseParts DEF MasterType
<1>3. place \in 1 .. Len(members)
  BY <1>1, <1>2, MemberPlace
<1>4. rest \in Seq(Cache) /\ place - 1 \in Nat
  <2> HIDE DEF place
  <2> QED
    BY <1>2, <1>3, RemoveAtProperties
<1>5. MasterType'
  <2> HIDE DEF rest
  <2> QED
    BY <1>1, <1>4, BaseParts DEF MasterType
<1>6. RingType'
  <2> HIDE DEF place
  <2> QED
    BY <1>1, <1>4, BaseParts, DeleteNodeType
<1>7. InboxType' /\ Idle'
  BY <1>1, Messages, BroadcastIdle
<1>8. HistoryType'
  <2>1. disturbed' \in BOOLEAN
    BY <1>1, BaseParts, DisturbType DEF HistoryType
  <2>2. late' \cup early' \cup orphaned' \cup evicted' \cup unsent' \subseteq Key
    BY <1>1, BaseParts DEF HistoryType
  <2> QED
    BY <1>1, <2>1, <2>2, BaseParts, Zenon DEF HistoryType
<1>9. /\ LifeType' /\ ViewType' /\ PassType' /\ Unstarted' /\ Sending' /\ Planned'
      /\ Numbered'
  BY <1>1, BaseParts, LifeTypeFrame, ViewTypeFrame, PassTypeFrame,
     UnstartedFrame, SendingFrame, PlannedFrame, NumberedFrame
     DEF servers, view, passing
<1> QED
  BY <1>5, <1>6, <1>7, <1>8, <1>9, BasePartsNext

\* 's': the last primary is named to all.
LEMMA ShrinkBeginBase ==
    ASSUME BaseInv, ShrinkBegin
    PROVE  BaseInv'
<1>1. /\ deleteNode(Len(members) - 1) /\ members # <<>> /\ shrinks < MaxShrinks
      /\ shrinking' = Last(members) /\ shrinks' = shrinks + 1
      /\ inbox' = Broadcast(ToSet(members), [kind |-> "K", who |-> Last(members)])
      /\ disturbed' = (disturbed \/ ~(ToSet(members) \subseteq alive))
      /\ UNCHANGED <<members, servers, alive, view, passing, replaced, puts,
                     unsent>>
  BY DEF ShrinkBegin
<1>2. members \in Seq(Cache)
  BY BaseParts DEF MasterType
<1>3. Last(members) \in Cache /\ Len(members) - 1 \in Nat
  BY <1>1, <1>2, FrontLast
<1>4. MasterType'
  BY <1>1, <1>2, <1>3, BaseParts, ServerAssumption DEF MasterType
<1>5. RingType'
  BY <1>1, <1>3, BaseParts, DeleteNodeType
<1>6. InboxType' /\ Idle'
  BY <1>1, <1>3, Messages, BroadcastIdle
<1>7. HistoryType'
  <2>1. disturbed' \in BOOLEAN
    BY <1>1, BaseParts, Zenon DEF HistoryType
  <2> QED
    BY <1>1, <2>1, BaseParts, Zenon DEF HistoryType, puts
<1>8. /\ LifeType' /\ ViewType' /\ PassType' /\ Unstarted' /\ Sending' /\ Planned'
      /\ Numbered'
  BY <1>1, BaseParts, LifeTypeFrame, ViewTypeFrame, PassTypeFrame,
     UnstartedFrame, SendingFrame, PlannedFrame, NumberedFrame
     DEF servers, view, passing, puts
<1> QED
  BY <1>4, <1>5, <1>6, <1>7, <1>8, BasePartsNext

\* shrinkageCapacity() ends.
LEMMA ShrinkEndBase ==
    ASSUME BaseInv, ShrinkEnd
    PROVE  BaseInv'
<1>1. /\ members' = Front(members) /\ shrinking' = NoCache
      /\ UNCHANGED <<ringVars, shrinks, servers, alive, inbox, view, passing, history>>
  BY DEF ShrinkEnd
<1>2. Front(members) \in Seq(Cache)
  <2>1. members \in Seq(Cache)
    BY BaseParts DEF MasterType
  <2>2. CASE members = <<>>
    <3>1. Front(members) = <<>>
      BY <2>2 DEF Front
    <3> QED
      BY <3>1
  <2> QED
    BY <2>1, <2>2, FrontLast
<1>3. MasterType'
  BY <1>1, <1>2, BaseParts DEF MasterType
<1>4. /\ RingType' /\ LifeType' /\ InboxType' /\ ViewType' /\ PassType' /\ HistoryType'
      /\ Idle' /\ Unstarted' /\ Sending' /\ Planned' /\ Numbered'
  BY <1>1, BaseParts, RingTypeFrame, LifeTypeFrame, InboxTypeFrame, ViewTypeFrame,
     PassTypeFrame, HistoryTypeFrame, IdleFrame, UnstartedFrame, SendingFrame,
     PlannedFrame, NumberedFrame DEF servers, view, passing, history, puts
<1> QED
  BY <1>3, <1>4, BasePartsNext

\* A server stops for a reason of its own.
LEMMA FailBase ==
    ASSUME BaseInv, NEW c \in Cache, Fail(c)
    PROVE  BaseInv'
<1>1. /\ Dies(c) /\ Disturb /\ fails < MaxFails /\ fails' = fails + 1
      /\ UNCHANGED <<master, started, replaced, puts>>
  BY DEF Fail
<1>2. /\ alive' \subseteq started' /\ InboxType' /\ ViewType' /\ PassType'
      /\ Idle' /\ Unstarted' /\ Sending' /\ Planned' /\ Numbered'
      /\ unsent' \subseteq Key
  BY <1>1, DiesParts DEF puts
<1>3. LifeType'
  BY <1>1, <1>2, BaseParts, ServerAssumption DEF LifeType
<1>4. HistoryType'
  <2>1. disturbed' \in BOOLEAN
    BY <1>1, BaseParts, DisturbType DEF HistoryType
  <2>2. late' \cup early' \cup orphaned' \cup evicted' \cup unsent' \subseteq Key
    BY <1>1, <1>2, BaseParts DEF HistoryType, puts
  <2> QED
    BY <1>1, <2>1, <2>2, BaseParts, Zenon DEF HistoryType, puts
<1>5. RingType' /\ MasterType'
  BY <1>1, BaseParts, RingTypeFrame, MasterTypeFrame DEF master
<1> QED
  BY <1>2, <1>3, <1>4, <1>5, BasePartsNext

\* A message is read by a server that runs: its queue, and nothing of the rest.
LEMMA TickBase ==
    ASSUME BaseInv, NEW c \in Cache, c \in alive, inbox[c] # <<>>, Taken(c),
           UNCHANGED <<master, servers, alive, passing, history>>
    PROVE  /\ InboxType' /\ Head(inbox[c]) \in Message /\ c \in alive'
           /\ RingType' /\ MasterType' /\ LifeType' /\ PassType' /\ HistoryType'
           /\ Planned' /\ Numbered'
           /\ \A d \in Cache \ alive' : inbox'[d] = <<>> /\ out_key'[d] = {} /\ conn'[d] = {}
<1>1. /\ InboxType' /\ Head(inbox[c]) \in Message
      /\ \A d \in Cache \ {c} : inbox'[d] = inbox[d]
  BY BaseParts, TakenQueues
<1>2. /\ RingType' /\ MasterType' /\ LifeType' /\ PassType' /\ HistoryType'
      /\ Planned' /\ Numbered'
  BY BaseParts, RingTypeFrame, MasterTypeFrame, LifeTypeFrame, PassTypeFrame,
     HistoryTypeFrame, PlannedFrame, NumberedFrame
     DEF master, servers, passing, history, puts
<1>3. \A d \in Cache \ alive' : inbox'[d] = <<>> /\ out_key'[d] = {} /\ conn'[d] = {}
  BY <1>1, BaseParts DEF Idle, passing
<1> QED
  BY <1>1, <1>2, <1>3

\* The rest of the invariant, when the list of c changes and its role does not.
LEMMA ListBase ==
    ASSUME BaseInv, NEW c \in Cache, c \in alive, NEW list \in Seq(Cache),
           cache_list' = [cache_list EXCEPT ![c] = list],
           status_[c] # "K",
           dying_cache' \in [Cache -> Cache \cup {NoCache}],
           initial_flag' \in [Cache -> BOOLEAN],
           killing' \in {killing, killing \cup {c}},
           UNCHANGED <<started, alive, status_, passing>>,
           \A d \in Cache \ alive' : inbox'[d] = <<>> /\ out_key'[d] = {} /\ conn'[d] = {}
    PROVE  ViewType' /\ Idle' /\ Unstarted' /\ Sending'
<1>1. /\ cache_list' \in [Cache -> Seq(Cache)] /\ cache_list'[c] = list
      /\ \A d \in Cache \ {c} : cache_list'[d] = cache_list[d]
  BY BaseParts DEF ViewType
<1>2. ViewType'
  BY <1>1, BaseParts DEF ViewType
<1>3. Idle'
  BY <1>1, BaseParts DEF Idle
<1>4. Unstarted' /\ Sending'
  BY <1>1, BaseParts DEF Unstarted, Sending, passing
<1> QED
  BY <1>2, <1>3, <1>4

\* initial() fills the list.
LEMMA InitialBase ==
    ASSUME BaseInv, NEW c \in Cache, Initial(c)
    PROVE  BaseInv'
<1>1. /\ c \in alive /\ inbox[c] # <<>> /\ Head(inbox[c]).kind = "list" /\ Taken(c)
      /\ initial_flag' = [initial_flag EXCEPT ![c] = TRUE]
      /\ cache_list' = [cache_list EXCEPT ![c] = @ \o Head(inbox[c]).all]
      /\ UNCHANGED <<master, servers, alive, status_, dying_cache, killing,
                     passing, history>>
  BY DEF Initial, Gets
<1>2. /\ InboxType' /\ Head(inbox[c]) \in Message /\ c \in alive'
      /\ RingType' /\ MasterType' /\ LifeType' /\ PassType' /\ HistoryType'
      /\ Planned' /\ Numbered'
      /\ \A d \in Cache \ alive' : inbox'[d] = <<>> /\ out_key'[d] = {} /\ conn'[d] = {}
  BY <1>1, TickBase
<1>3. Head(inbox[c]).all \in Seq(Cache) /\ cache_list[c] \in Seq(Cache)
  BY <1>1, <1>2, BaseParts, NamesServer DEF ViewType
<1>4. initial_flag' \in [Cache -> BOOLEAN]
  BY <1>1, BaseParts DEF ViewType
<1>5. /\ cache_list' \in [Cache -> Seq(Cache)]
      /\ cache_list'[c] = cache_list[c] \o Head(inbox[c]).all
      /\ \A d \in Cache \ {c} : cache_list'[d] = cache_list[d]
  BY <1>1, <1>3, BaseParts DEF ViewType
<1>6. /\ cache_list[c] # <<>> => cache_list'[c] # <<>>
      /\ ToSet(cache_list[c]) \subseteq ToSet(cache_list'[c])
  <2> DEFINE s == cache_list[c]
             t == Head(inbox[c]).all
  <2>1. s \in Seq(Cache) /\ t \in Seq(Cache) /\ cache_list'[c] = s \o t
    BY <1>3, <1>5
  <2> HIDE DEF s, t
  <2>2. s # <<>> => s \o t # <<>>
    BY <2>1, ConcatProperties, EmptySeq
  <2>3. ToSet(s) \subseteq ToSet(s \o t)
    BY <2>1 DEF ToSet
  <2> QED
    BY <2>1, <2>2, <2>3 DEF s
<1>7. ViewType'
  BY <1>1, <1>4, <1>5, BaseParts DEF ViewType
<1>8. Idle'
  BY <1>1, <1>2, <1>5, BaseParts DEF Idle
<1>9. Unstarted' /\ Sending'
  BY <1>1, <1>5, <1>6, BaseParts DEF Unstarted, Sending, passing, servers
<1> QED
  BY <1>2, <1>7, <1>8, <1>9, BasePartsNext

\* A dying server ignores a message.
LEMMA IgnoreBase ==
    ASSUME BaseInv, NEW c \in Cache, Ignore(c)
    PROVE  BaseInv'
<1>1. /\ c \in alive /\ inbox[c] # <<>> /\ Taken(c)
      /\ UNCHANGED <<master, servers, alive, view, passing, history>>
  BY DEF Ignore, Gets
<1>2. /\ InboxType' /\ c \in alive'
      /\ RingType' /\ MasterType' /\ LifeType' /\ PassType' /\ HistoryType'
      /\ Planned' /\ Numbered'
      /\ \A d \in Cache \ alive' : inbox'[d] = <<>> /\ out_key'[d] = {} /\ conn'[d] = {}
  BY <1>1, TickBase
<1>3. ViewType' /\ Unstarted' /\ Sending'
  BY <1>1, BaseParts, ViewTypeFrame, UnstartedFrame, SendingFrame
     DEF servers, view, passing
<1>4. Idle'
  BY <1>1, <1>2, BaseParts DEF Idle, view
<1> QED
  BY <1>2, <1>3, <1>4, BasePartsNext

\* N adds an address.
LEMMA ReadNewBase ==
    ASSUME BaseInv, NEW c \in Cache, ReadNew(c)
    PROVE  BaseInv'
<1> DEFINE who == Head(inbox[c]).who
           list == IF who = c THEN cache_list[c] ELSE Append(cache_list[c], who)
<1>1. /\ c \in alive /\ inbox[c] # <<>> /\ Head(inbox[c]).kind = "N" /\ Taken(c)
      /\ status_[c] # "K"
      /\ cache_list' = IF who = c THEN cache_list
                       ELSE [cache_list EXCEPT ![c] = Append(@, who)]
      /\ UNCHANGED <<master, servers, alive, initial_flag, status_, dying_cache,
                     killing, passing, history>>
  BY DEF ReadNew, Reads, Gets
<1>2. /\ InboxType' /\ Head(inbox[c]) \in Message /\ c \in alive'
      /\ RingType' /\ MasterType' /\ LifeType' /\ PassType' /\ HistoryType'
      /\ Planned' /\ Numbered'
      /\ \A d \in Cache \ alive' : inbox'[d] = <<>> /\ out_key'[d] = {} /\ conn'[d] = {}
  BY <1>1, TickBase
<1>3. who \in Cache /\ cache_list[c] \in Seq(Cache)
  BY <1>1, <1>2, BaseParts, NamesServer DEF ViewType
<1>4. list \in Seq(Cache)
  BY <1>3
<1>5. cache_list' = [cache_list EXCEPT ![c] = list]
  BY <1>1, BaseParts DEF ViewType
<1>6. UNCHANGED <<started, alive, status_, passing, killing>>
  BY <1>1 DEF servers
<1>7. dying_cache' \in [Cache -> Cache \cup {NoCache}] /\ initial_flag' \in [Cache -> BOOLEAN]
  BY <1>1, BaseParts DEF ViewType
<1>8. ViewType' /\ Idle' /\ Unstarted' /\ Sending'
  <2> HIDE DEF list
  <2> QED
    BY <1>1, <1>2, <1>4, <1>5, <1>6, <1>7, ListBase
<1> QED
  BY <1>2, <1>8, BasePartsNext

\* P sets the role.
LEMMA ReadPrimaryBase ==
    ASSUME BaseInv, NEW c \in Cache, ReadPrimary(c)
    PROVE  BaseInv'
<1>1. /\ c \in alive /\ inbox[c] # <<>> /\ Taken(c) /\ status_[c] # "K"
      /\ status_' = [status_ EXCEPT ![c] = "P"]
      /\ UNCHANGED <<master, servers, alive, initial_flag, dying_cache,
                     cache_list, killing, passing, history>>
  BY DEF ReadPrimary, Reads, Gets
<1>2. /\ InboxType' /\ c \in alive'
      /\ RingType' /\ MasterType' /\ LifeType' /\ PassType' /\ HistoryType'
      /\ Planned' /\ Numbered'
      /\ \A d \in Cache \ alive' : inbox'[d] = <<>> /\ out_key'[d] = {} /\ conn'[d] = {}
  BY <1>1, TickBase
<1>3. ViewType'
  BY <1>1, BaseParts DEF ViewType
<1>4. Idle'
  BY <1>1, <1>2, BaseParts DEF Idle
<1>5. Unstarted' /\ Sending'
  BY <1>1, BaseParts DEF Unstarted, Sending, ViewType, servers, passing
<1> QED
  BY <1>2, <1>3, <1>4, <1>5, BasePartsNext

\* C changes nothing, or ends the process.
LEMMA ReadChangeBase ==
    ASSUME BaseInv, NEW c \in Cache, ReadChange(c)
    PROVE  BaseInv'
<1>1. /\ c \in alive /\ inbox[c] # <<>>
      /\ UNCHANGED <<master, servers, replaced, disturbed, puts>>
  BY DEF ReadChange, Reads, Gets
<1>2. CASE Dies(c)
  BY <1>1, <1>2, DeathBase
<1>3. CASE Taken(c) /\ UNCHANGED <<alive, view, passing, unsent>>
  <2> UNCHANGED history
    BY <1>1, <1>3 DEF history
  <2>1. /\ InboxType' /\ c \in alive'
        /\ RingType' /\ MasterType' /\ LifeType' /\ PassType' /\ HistoryType'
        /\ Planned' /\ Numbered'
        /\ \A d \in Cache \ alive' : inbox'[d] = <<>> /\ out_key'[d] = {} /\ conn'[d] = {}
    BY <1>1, <1>3, TickBase
  <2>2. ViewType' /\ Unstarted' /\ Sending'
    BY <1>1, <1>3, BaseParts, ViewTypeFrame, UnstartedFrame, SendingFrame
       DEF servers, view, passing
  <2>3. Idle'
    BY <1>3, <2>1, BaseParts DEF Idle, view
  <2> QED
    BY <2>1, <2>2, <2>3, BasePartsNext
<1> QED
  BY <1>2, <1>3 DEF ReadChange

\* vector::erase(end()) ends the process.
LEMMA EraseFailsBase ==
    ASSUME BaseInv, NEW c \in Cache, EraseFails(c)
    PROVE  BaseInv'
BY DeathBase DEF EraseFails

\* What erase() may leave is a list of servers.
LEMMA ErasedType ==
    ASSUME NEW s \in Seq(Cache), NEW e, NEW list \in Erased(s, e)
    PROVE  list \in Seq(Cache)
BY WithoutType, FrontLast DEF Erased

\* D erases an address.
LEMMA ReadDeleteBase ==
    ASSUME BaseInv, NEW c \in Cache, ReadDelete(c)
    PROVE  BaseInv'
<1>1. /\ c \in alive /\ inbox[c] # <<>> /\ Taken(c) /\ status_[c] # "K"
      /\ UNCHANGED <<master, servers, alive, initial_flag, status_, dying_cache,
                     killing, passing, history>>
  BY DEF ReadDelete, Reads, Gets
<1>2. PICK list \in Erased(cache_list[c], Head(inbox[c]).who) :
          cache_list' = [cache_list EXCEPT ![c] = list]
  BY DEF ReadDelete
<1>3. /\ InboxType' /\ c \in alive'
      /\ RingType' /\ MasterType' /\ LifeType' /\ PassType' /\ HistoryType'
      /\ Planned' /\ Numbered'
      /\ \A d \in Cache \ alive' : inbox'[d] = <<>> /\ out_key'[d] = {} /\ conn'[d] = {}
  BY <1>1, TickBase
<1>4. list \in Seq(Cache)
  BY BaseParts, ErasedType DEF ViewType
<1>5. UNCHANGED <<started, alive, status_, passing, killing>>
  BY <1>1 DEF servers
<1>6. dying_cache' \in [Cache -> Cache \cup {NoCache}] /\ initial_flag' \in [Cache -> BOOLEAN]
  BY <1>1, BaseParts DEF ViewType
<1>7. ViewType' /\ Idle' /\ Unstarted' /\ Sending'
  BY <1>1, <1>2, <1>3, <1>4, <1>5, <1>6, ListBase
<1> QED
  BY <1>3, <1>7, BasePartsNext

\* K, first half: it is read by servers that are not dying yet, so no
\* sender loses its list.
LEMMA ReadKillBase ==
    ASSUME BaseInv, NEW c \in Cache, ReadKill(c)
    PROVE  BaseInv'
<1> DEFINE who == Head(inbox[c]).who
<1>1. /\ c \in alive /\ inbox[c] # <<>> /\ Taken(c) /\ status_[c] # "K"
      /\ Head(inbox[c]).kind = "K"
      /\ dying_cache' = [dying_cache EXCEPT ![c] = who]
      /\ killing' = IF who = c THEN killing \cup {c} ELSE killing
      /\ UNCHANGED <<master, servers, alive, initial_flag, status_, passing, history>>
  BY DEF ReadKill, Reads, Gets
<1>2. PICK list \in Erased(cache_list[c], who) :
          cache_list' = [cache_list EXCEPT ![c] = list]
  BY DEF ReadKill
<1>3. /\ InboxType' /\ Head(inbox[c]) \in Message /\ c \in alive'
      /\ RingType' /\ MasterType' /\ LifeType' /\ PassType' /\ HistoryType'
      /\ Planned' /\ Numbered'
      /\ \A d \in Cache \ alive' : inbox'[d] = <<>> /\ out_key'[d] = {} /\ conn'[d] = {}
  BY <1>1, TickBase
<1>4. list \in Seq(Cache) /\ who \in Cache
  BY <1>1, <1>3, BaseParts, ErasedType, NamesServer DEF ViewType
<1>5. UNCHANGED <<started, alive, status_, passing>>
  BY <1>1 DEF servers
<1>6. /\ dying_cache' \in [Cache -> Cache \cup {NoCache}] /\ initial_flag' \in [Cache -> BOOLEAN]
      /\ killing' \in {killing, killing \cup {c}}
  BY <1>1, <1>4, BaseParts DEF ViewType
<1>7. ViewType' /\ Idle' /\ Unstarted' /\ Sending'
  BY <1>1, <1>2, <1>3, <1>4, <1>5, <1>6, ListBase
<1> QED
  BY <1>3, <1>7, BasePartsNext

\* K, second half.
LEMMA KillEndBase ==
    ASSUME BaseInv, NEW c \in Cache, KillEnd(c)
    PROVE  BaseInv'
<1>1. /\ c \in alive /\ killing' = killing \ {c}
      /\ status_' = [status_ EXCEPT ![c] = "K"]
      /\ UNCHANGED <<master, servers, alive, inbox, initial_flag, dying_cache,
                     cache_list, passing, history>>
  BY DEF KillEnd
<1>2. ViewType'
  BY <1>1, BaseParts DEF ViewType
<1>3. Idle' /\ Unstarted' /\ Sending'
  BY <1>1, BaseParts DEF Idle, Unstarted, Sending, ViewType, LifeType, servers, passing
<1>4. /\ RingType' /\ MasterType' /\ LifeType' /\ InboxType' /\ PassType' /\ HistoryType'
      /\ Planned' /\ Numbered'
  BY <1>1, BaseParts, RingTypeFrame, MasterTypeFrame, LifeTypeFrame, InboxTypeFrame,
     PassTypeFrame, HistoryTypeFrame, PlannedFrame, NumberedFrame
     DEF master, servers, passing, history, puts
<1> QED
  BY <1>2, <1>3, <1>4, BasePartsNext

\* cache_pass opens its port.
LEMMA PassListenBase ==
    ASSUME BaseInv, NEW c \in Cache, PassListen(c)
    PROVE  BaseInv'
<1>1. /\ thread[c] = "loop" /\ thread' = [thread EXCEPT ![c] = "accept"]
      /\ UNCHANGED <<master, servers, alive, inbox, view, store, out_key, conn, history>>
  BY DEF PassListen, At
<1>2. PassType' /\ Sending' /\ Planned'
  BY <1>1, BaseParts DEF PassType, Sending, Planned, view, history, puts
<1>3. /\ RingType' /\ MasterType' /\ LifeType' /\ InboxType' /\ ViewType' /\ HistoryType'
      /\ Idle' /\ Unstarted' /\ Numbered'
  BY <1>1, BaseParts, RingTypeFrame, MasterTypeFrame, LifeTypeFrame, InboxTypeFrame,
     ViewTypeFrame, HistoryTypeFrame, IdleFrame, UnstartedFrame, NumberedFrame
     DEF master, servers, view, history, puts
<1> QED
  BY <1>2, <1>3, BasePartsNext

\* cal_hash_key sends every key to a server of the list.
LEMMA TargetType ==
    ASSUME BaseInv, NEW c \in Cache, cache_list[c] # <<>>, NEW k \in Key
    PROVE  Target(c, k) \in Cache /\ Target(c, k) \in ToSet(cache_list[c])
<1> DEFINE n == Len(cache_list[c])
<1>1. cache_list[c] \in Seq(Cache) /\ Hash[k] \in HashSpace
  BY BaseParts, ServerAssumption DEF ViewType
<1>2. n \in Nat /\ n # 0
  BY <1>1, EmptySeq
<1>3. Owner(RingOf(n), Hash[k]) \in 0 .. (n - 1)
  <2> HIDE DEF n
  <2> QED
    BY <1>1, <1>2, RingOfRange
<1>4. Owner(RingOf(n), Hash[k]) + 1 \in 1 .. n
  BY <1>2, <1>3
<1> QED
  BY <1>1, <1>4, ElementOfSeq DEF Target, idx, cache_hash, ToSet

\* cache_pass plans keys that are there, for servers that are listed.
LEMMA PassPlanBase ==
    ASSUME BaseInv, NEW c \in Cache, PassPlan(c)
    PROVE  BaseInv'
<1> DEFINE plan == {[key |-> k, to |-> Target(c, k)] : k \in Stored(c)}
<1>1. /\ c \in alive /\ thread[c] = "loop" /\ status_[c] = "K"
      /\ UNCHANGED <<master, servers, alive, inbox, view, store, conn, history>>
      /\ IF cache_list[c] = <<>>
         THEN thread' = [thread EXCEPT ![c] = "ended"] /\ UNCHANGED out_key
         ELSE /\ thread' = [thread EXCEPT ![c] = "send"]
              /\ out_key' = [out_key EXCEPT ![c] = plan]
  BY DEF PassPlan, At
<1>2. out_key[c] = {}
  BY <1>1, BaseParts DEF Planned
<1> conn[c] = {}
  BY <1>1, BaseParts DEF Planned
<1>3. CASE cache_list[c] = <<>>
  <2>1. PassType' /\ Sending' /\ Planned' /\ Idle'
    BY <1>1, <1>2, <1>3, BaseParts DEF PassType, Sending, Planned, Idle, view, history, puts
  <2>2. /\ RingType' /\ MasterType' /\ LifeType' /\ InboxType' /\ ViewType' /\ HistoryType'
        /\ Unstarted' /\ Numbered'
    BY <1>1, BaseParts, RingTypeFrame, MasterTypeFrame, LifeTypeFrame, InboxTypeFrame,
       ViewTypeFrame, HistoryTypeFrame, UnstartedFrame, NumberedFrame
       DEF master, servers, view, history, puts
  <2> QED
    BY <2>1, <2>2, BasePartsNext
<1>4. CASE cache_list[c] # <<>>
  <2>1. /\ plan \subseteq [key : Key, to : Cache]
        /\ \A e \in plan : store[c][e.key] # 0 /\ e.to \in ToSet(cache_list[c])
    BY <1>4, TargetType DEF Stored
  <2>2. PassType' /\ Planned' /\ Idle'
    <3> HIDE DEF plan
    <3>1. /\ \A d \in Cache : out_key'[d] = IF d = c THEN plan ELSE out_key[d]
          /\ \A d \in Cache : thread'[d] = IF d = c THEN "send" ELSE thread[d]
          /\ UNCHANGED <<alive, inbox, cache_list, killing, store, conn, evicted>>
      BY <1>1, <1>4, BaseParts DEF PassType, view, history, puts
    <3>2. PassType'
      BY <1>1, <1>4, <2>1, BaseParts DEF PassType
    <3>3. Planned'
      BY <1>1, <2>1, <3>1, BaseParts DEF Planned
    <3>4. Idle'
      BY <1>1, <3>1, BaseParts DEF Idle
    <3> QED
      BY <3>2, <3>3, <3>4
  <2>3. Sending'
    <3> HIDE DEF plan
    <3> QED
      BY <1>1, <1>4, <2>1, BaseParts DEF PassType, Sending, view
  <2>4. /\ RingType' /\ MasterType' /\ LifeType' /\ InboxType' /\ ViewType' /\ HistoryType'
        /\ Unstarted' /\ Numbered'
    BY <1>1, BaseParts, RingTypeFrame, MasterTypeFrame, LifeTypeFrame, InboxTypeFrame,
       ViewTypeFrame, HistoryTypeFrame, UnstartedFrame, NumberedFrame
       DEF master, servers, view, history, puts
  <2> QED
    BY <2>2, <2>3, <2>4, BasePartsNext
<1> QED
  BY <1>3, <1>4

\* cache_pass sends a key: it goes to a server that listens, or is lost.
LEMMA PassSendBase ==
    ASSUME BaseInv, NEW c \in Cache, PassSend(c)
    PROVE  BaseInv'
<1>1. /\ c \in alive /\ thread[c] = "send"
      /\ UNCHANGED <<master, servers, alive, inbox, view, store, thread, replaced,
                     disturbed, puts>>
  BY DEF PassSend, At
<1>2. PICK e \in out_key[c] :
        /\ e.to \in alive /\ thread[e.to] = "accept"
        /\ out_key' = [out_key EXCEPT ![c] = @ \ {e}]
        /\ LET val == IF store[c][e.key] = 0 THEN Blank ELSE store[c][e.key]
           IN  IF conn[e.to] = {}
               THEN /\ conn' = [conn EXCEPT ![e.to] = {[key |-> e.key, val |-> val]}]
                    /\ UNCHANGED unsent
               ELSE unsent' = unsent \cup {e.key} /\ UNCHANGED conn
  BY DEF PassSend, Listens, At
<1>3. /\ e \in [key : Key, to : Cache]
      /\ store[c][e.key] # 0 \/ e.key \in evicted
  BY BaseParts DEF PassType, Planned
<1>4. PICK r \in Cache, k \in Key : r = e.to /\ k = e.key
  BY <1>3
<1> DEFINE val == IF store[c][k] = 0 THEN Blank ELSE store[c][k]
           m == [key |-> k, val |-> val]
<1>5. /\ val \in Value /\ val # 0 /\ val <= newest[k]
      /\ val = Blank => k \in evicted
  <2>1. store[c][k] \in Value /\ store[c][k] <= newest[k] /\ newest[k] \in 0 .. MaxPuts
    BY BaseParts DEF PassType, Numbered, HistoryType
  <2>2. store[c][k] = Blank => k \in evicted
    BY BaseParts DEF Numbered
  <2> QED
    BY <1>3, <1>4, <2>1, <2>2, ServerAssumption DEF Value, Blank
<1>6. \/ /\ conn[r] = {} /\ conn' = [conn EXCEPT ![r] = {m}] /\ unsent' = unsent
      \/ conn' = conn /\ unsent' = unsent \cup {k}
  BY <1>2, <1>4
<1>7. /\ conn' \in [Cache -> SUBSET [key : Key, val : Value]]
      /\ \A d \in Cache : \/ conn'[d] = conn[d]
                          \/ d = r /\ conn'[d] = {m}
      /\ unsent' \subseteq Key
  <2>1. m \in [key : Key, val : Value]
    BY <1>5
  <2> HIDE DEF m
  <2> QED
    BY <1>6, <2>1, BaseParts DEF PassType, HistoryType
<1>8. /\ out_key' \in [Cache -> SUBSET [key : Key, to : Cache]]
      /\ \A d \in Cache : out_key'[d] \subseteq out_key[d]
  BY <1>2, BaseParts DEF PassType
<1>9. PassType'
  BY <1>1, <1>7, <1>8, BaseParts DEF PassType
<1>10. Planned'
  <2>1. ASSUME NEW d \in Cache, NEW f \in out_key'[d]
        PROVE  thread'[d] = "send" /\ (store'[d][f.key] # 0 \/ f.key \in evicted')
    BY <1>1, <1>8, BaseParts DEF Planned, puts
  <2>2. ASSUME NEW d \in Cache, NEW n \in conn'[d]
        PROVE  thread'[d] = "accept" /\ conn'[d] = {n}
    <3> HIDE DEF m
    <3> QED
      BY <1>1, <1>2, <1>4, <1>7, BaseParts DEF Planned
  <2> QED
    BY <2>1, <2>2 DEF Planned
<1>11. Sending'
  BY <1>1, <1>8, BaseParts DEF Sending, view
<1>12. Idle'
  <2> HIDE DEF m
  <2> QED
    BY <1>1, <1>2, <1>4, <1>7, <1>8, BaseParts DEF Idle, view
<1>13. Numbered'
  <2>1. ASSUME NEW d \in Cache, NEW n \in conn'[d]
        PROVE  n.val <= newest[n.key] /\ n.val # 0 /\ (n.val = Blank => n.key \in evicted)
    <3>1. CASE n \in conn[d]
      BY <3>1, BaseParts DEF Numbered
    <3>2. CASE n = m
      BY <1>5, <3>2
    <3> QED
      BY <1>7, <3>1, <3>2
  <2> QED
    BY <1>1, <2>1, BaseParts DEF Numbered, puts
<1>14. HistoryType'
  <2>1. late' \cup early' \cup orphaned' \cup evicted' \cup unsent' \subseteq Key
    BY <1>1, <1>7, BaseParts DEF HistoryType, puts
  <2> QED
    BY <1>1, <2>1, BaseParts, Zenon DEF HistoryType, puts
<1>15. /\ RingType' /\ MasterType' /\ LifeType' /\ InboxType' /\ ViewType' /\ Unstarted'
  BY <1>1, BaseParts, RingTypeFrame, MasterTypeFrame, LifeTypeFrame, InboxTypeFrame,
     ViewTypeFrame, UnstartedFrame DEF master, servers, view
<1> QED
  BY <1>9, <1>10, <1>11, <1>12, <1>13, <1>14, <1>15, BasePartsNext

\* What put() changes: one key gets its value, and another may go.
LEMMA PutParts ==
    ASSUME BaseInv, NEW c \in Cache, NEW k \in Key, NEW val \in Value, Put(c, k, val)
    PROVE  /\ store' \in [Cache -> [Key -> Value]] /\ store'[c][k] = val
           /\ \A d \in Cache \ {c} : store'[d] = store[d]
           /\ \A l \in Key \ {k} :
                 \/ store'[c][l] = store[c][l]
                 \/ store'[c][l] = 0 /\ l \in evicted'
           /\ evicted \subseteq evicted' /\ evicted' \subseteq Key
<1> DEFINE others == Stored(c) \ {k}
<1>1. \/ store' = [store EXCEPT ![c][k] = val] /\ UNCHANGED evicted
      \/ \E j \in others :
            /\ store' = [store EXCEPT ![c] = [@ EXCEPT ![k] = val, ![j] = 0]]
            /\ evicted' = evicted \cup {j}
  BY DEF Put
<1>2. 0 \in Value /\ others \subseteq Key /\ k \notin others
  BY ServerAssumption DEF Value, Blank, Stored
<1>3. store \in [Cache -> [Key -> Value]] /\ evicted \subseteq Key
  BY BaseParts DEF PassType, HistoryType
<1> HIDE DEF others
<1> QED
  BY <1>1, <1>2, <1>3

\* The parts of the invariant that a put on c bears upon, when nothing else of it
\* changes that they speak of.
LEMMA PutBase ==
    ASSUME BaseInv, NEW c \in Cache, c \in alive, NEW k \in Key, NEW val \in Value,
           Put(c, k, val), val # 0, val <= newest'[k], val = Blank => k \in evicted,
           newest' \in [Key -> 0 .. MaxPuts], \A l \in Key : newest[l] <= newest'[l],
           thread' \in [Cache -> {"loop", "accept", "send", "ended"}],
           thread[c] # "accept" => thread' = thread,
           thread[c] = "accept" => thread'[c] # "send",
           \A d \in Cache \ {c} : thread'[d] = thread[d],
           conn' \in [Cache -> SUBSET [key : Key, val : Value]],
           \A d \in Cache : conn'[d] \in {conn[d], {}},
           conn'[c] # {} => thread'[c] = thread[c],
           UNCHANGED <<alive, started, status_, inbox, cache_list, out_key, killing>>
    PROVE  PassType' /\ Idle' /\ Unstarted' /\ Sending' /\ Planned' /\ Numbered'
<1>1. /\ store' \in [Cache -> [Key -> Value]] /\ store'[c][k] = val
      /\ \A d \in Cache \ {c} : store'[d] = store[d]
      /\ \A l \in Key \ {k} :
            store'[c][l] = store[c][l] \/ (store'[c][l] = 0 /\ l \in evicted')
      /\ evicted \subseteq evicted' /\ evicted' \subseteq Key
  BY PutParts
<1>2. PassType'
  BY <1>1, BaseParts DEF PassType
<1>3. Idle'
  BY BaseParts DEF Idle
<1>4. Unstarted'
  BY <1>1, BaseParts DEF Unstarted, LifeType
<1>5. ASSUME NEW d \in Cache, thread'[d] = "send"
      PROVE  thread[d] = "send"
  BY <1>5
<1>6. Sending'
  BY <1>5, BaseParts DEF Sending
<1>7. Planned'
  <2>1. ASSUME NEW d \in Cache, NEW e \in out_key[d]
        PROVE  thread'[d] = "send" /\ (store'[d][e.key] # 0 \/ e.key \in evicted')
    <3>1. /\ e.key \in Key /\ thread[d] = "send"
          /\ store[d][e.key] # 0 \/ e.key \in evicted
      BY BaseParts DEF PassType, Planned
    <3> QED
      BY <1>1, <3>1
  <2>2. ASSUME NEW d \in Cache, NEW m \in conn'[d]
        PROVE  thread'[d] = "accept" /\ conn'[d] = {m}
    <3>1. m \in conn[d] /\ conn'[d] = conn[d]
      OBVIOUS
    <3>2. thread[d] = "accept" /\ conn[d] = {m}
      BY <3>1, BaseParts DEF Planned
    <3> QED
      BY <3>1, <3>2
  <2> QED
    BY <2>1, <2>2 DEF Planned
<1>8. Numbered'
  <2>1. ASSUME NEW d \in Cache, NEW l \in Key
        PROVE  store'[d][l] <= newest'[l] /\ (store'[d][l] = Blank => l \in evicted')
    <3>1. /\ store[d][l] \in Int /\ newest[l] \in Int /\ newest'[l] \in Nat
          /\ store[d][l] <= newest[l] /\ newest[l] <= newest'[l]
          /\ store[d][l] = Blank => l \in evicted
      BY BaseParts, ServerAssumption DEF Numbered, PassType, HistoryType, Value, Blank
    <3> QED
      BY <1>1, <3>1 DEF Blank
  <2>2. ASSUME NEW d \in Cache, NEW m \in conn'[d]
        PROVE  /\ m.val <= newest'[m.key] /\ m.val # 0
               /\ m.val = Blank => m.key \in evicted'
    <3>1. m \in conn[d]
      OBVIOUS
    <3>2. m.key \in Key /\ m.val \in Int
      BY <3>1, BaseParts, ServerAssumption DEF PassType, Value, Blank
    <3>3. m.val <= newest[m.key] /\ m.val # 0 /\ (m.val = Blank => m.key \in evicted)
      BY <3>1, BaseParts DEF Numbered
    <3>4. newest[m.key] \in Int /\ newest'[m.key] \in Int /\ newest[m.key] <= newest'[m.key]
      BY <3>2, BaseParts, ServerAssumption DEF HistoryType
    <3> QED
      BY <1>1, <3>2, <3>3, <3>4
  <2> QED
    BY <2>1, <2>2 DEF Numbered
<1> QED
  BY <1>2, <1>3, <1>4, <1>6, <1>7, <1>8

\* A server puts what it was sent.
LEMMA PassReceiveBase ==
    ASSUME BaseInv, NEW c \in Cache, PassReceive(c)
    PROVE  BaseInv'
<1>1. /\ c \in alive /\ thread[c] = "accept"
      /\ conn' = [conn EXCEPT ![c] = {}]
      /\ thread' = [thread EXCEPT ![c] = "loop"]
      /\ UNCHANGED <<master, servers, alive, inbox, view, out_key, replaced,
                     disturbed, newest, late, early, orphaned, unsent>>
  BY DEF PassReceive, Listens, At
<1>2. PICK m \in conn[c] : Put(c, m.key, m.val)
  BY DEF PassReceive
<1>3. /\ m.key \in Key /\ m.val \in Value /\ m.val # 0 /\ m.val <= newest[m.key]
      /\ m.val = Blank => m.key \in evicted
  BY BaseParts DEF PassType, Numbered
<1>4. /\ newest' = newest /\ newest \in [Key -> 0 .. MaxPuts]
      /\ \A l \in Key : newest[l] <= newest'[l]
  BY <1>1, BaseParts DEF HistoryType
<1>5. /\ thread' \in [Cache -> {"loop", "accept", "send", "ended"}] /\ thread'[c] = "loop"
      /\ \A d \in Cache \ {c} : thread'[d] = thread[d]
      /\ conn' \in [Cache -> SUBSET [key : Key, val : Value]] /\ conn'[c] = {}
      /\ \A d \in Cache : conn'[d] \in {conn[d], {}}
  BY <1>1, BaseParts DEF PassType
<1>6. UNCHANGED <<alive, started, status_, inbox, cache_list, out_key, killing>>
  BY <1>1 DEF servers, view
<1>7. PassType' /\ Idle' /\ Unstarted' /\ Sending' /\ Planned' /\ Numbered'
  BY <1>1, <1>2, <1>3, <1>4, <1>5, <1>6, PutBase
<1>8. HistoryType'
  <2>1. evicted' \subseteq Key
    BY <1>2, <1>3, PutParts
  <2>2. late' \cup early' \cup orphaned' \cup evicted' \cup unsent' \subseteq Key
    BY <1>1, <2>1, BaseParts DEF HistoryType
  <2> QED
    BY <1>1, <2>2, BaseParts, Zenon DEF HistoryType
<1>9. /\ RingType' /\ MasterType' /\ LifeType' /\ InboxType' /\ ViewType'
  BY <1>1, BaseParts, RingTypeFrame, MasterTypeFrame, LifeTypeFrame, InboxTypeFrame,
     ViewTypeFrame DEF master, servers
<1> QED
  BY <1>7, <1>8, <1>9, BasePartsNext

\* What a client's put changes.
LEMMA PutEffect ==
    ASSUME BaseInv, NEW c \in Cache, NEW k \in Key, ClientPut(c, k)
    PROVE  /\ c \in alive /\ newest[k] + 1 \in 1 .. MaxPuts
           /\ newest' \in [Key -> 0 .. MaxPuts]
           /\ \A l \in Key : newest'[l] = IF l = k THEN newest[k] + 1 ELSE newest[l]
           /\ newest[k] + 1 \in Value /\ newest'[k] = newest[k] + 1
           /\ Put(c, k, newest[k] + 1)
           /\ UNCHANGED <<master, servers, alive, inbox, view, thread, out_key, conn,
                          replaced, disturbed, orphaned, unsent>>
           /\ late \subseteq late' /\ late' \subseteq late \cup {k}
           /\ early \subseteq early' /\ early' \subseteq early \cup {k}
<1>1. /\ c \in alive /\ newest[k] < MaxPuts
      /\ newest' = [newest EXCEPT ![k] = @ + 1]
      /\ Put(c, k, newest'[k])
      /\ UNCHANGED <<master, servers, alive, inbox, view, thread, out_key, conn,
                     replaced, disturbed, orphaned, unsent>>
  BY DEF ClientPut
<1>2. /\ late \subseteq late' /\ late' \subseteq late \cup {k}
      /\ early \subseteq early' /\ early' \subseteq early \cup {k}
  BY DEF ClientPut
<1>3. newest \in [Key -> 0 .. MaxPuts] /\ MaxPuts \in Nat
  BY BaseParts, ServerAssumption DEF HistoryType
<1>4. /\ newest[k] + 1 \in 1 .. MaxPuts /\ newest' \in [Key -> 0 .. MaxPuts]
      /\ \A l \in Key : newest'[l] = IF l = k THEN newest[k] + 1 ELSE newest[l]
      /\ newest'[k] = newest[k] + 1
  BY <1>1, <1>3
<1>5. newest[k] + 1 \in Value
  BY <1>3, <1>4 DEF Value, Blank
<1> QED
  BY <1>1, <1>2, <1>4, <1>5

\* A put: the value is the newest there is.
LEMMA ClientPutBase ==
    ASSUME BaseInv, NEW c \in Cache, NEW k \in Key, ClientPut(c, k)
    PROVE  BaseInv'
<1> DEFINE val == newest[k] + 1
<1>1. /\ c \in alive /\ val \in 1 .. MaxPuts
      /\ newest' \in [Key -> 0 .. MaxPuts]
      /\ \A l \in Key : newest'[l] = IF l = k THEN val ELSE newest[l]
      /\ val \in Value /\ newest'[k] = val /\ Put(c, k, val)
      /\ UNCHANGED <<master, servers, alive, inbox, view, thread, out_key, conn,
                     replaced, disturbed, orphaned, unsent>>
      /\ late' \subseteq late \cup {k} /\ early' \subseteq early \cup {k}
  BY PutEffect
<1>2. /\ \A l \in Key : newest[l] <= newest'[l]
      /\ val # 0 /\ val <= newest'[k] /\ val # Blank
  BY <1>1, BaseParts, ServerAssumption DEF HistoryType, Blank
<1>3. /\ thread' \in [Cache -> {"loop", "accept", "send", "ended"}]
      /\ thread[c] = "accept" => thread'[c] # "send"
      /\ conn' \in [Cache -> SUBSET [key : Key, val : Value]]
      /\ \A d \in Cache : thread'[d] = thread[d] /\ conn'[d] \in {conn[d], {}}
  BY <1>1, BaseParts DEF PassType
<1>4. UNCHANGED <<alive, started, status_, inbox, cache_list, out_key, killing, thread>>
  BY <1>1 DEF servers, view
<1> HIDE DEF val
<1>5. PassType' /\ Idle' /\ Unstarted' /\ Sending' /\ Planned' /\ Numbered'
  BY <1>1, <1>2, <1>3, <1>4, PutBase
<1>6. HistoryType'
  <2>1. evicted' \subseteq Key
    BY <1>1, PutParts
  <2>2. late' \cup early' \cup orphaned' \cup evicted' \cup unsent' \subseteq Key
    BY <1>1, <2>1, BaseParts DEF HistoryType
  <2> QED
    BY <1>1, <2>2, BaseParts, Zenon DEF HistoryType
<1>7. /\ RingType' /\ MasterType' /\ LifeType' /\ InboxType' /\ ViewType'
  BY <1>1, BaseParts, RingTypeFrame, MasterTypeFrame, LifeTypeFrame, InboxTypeFrame,
     ViewTypeFrame DEF master, servers
<1> QED
  BY <1>5, <1>6, <1>7, BasePartsNext

\* Nothing happens.
LEMMA StutterBase ==
    ASSUME BaseInv, UNCHANGED vars
    PROVE  BaseInv'
BY BaseParts, BasePartsNext, RingTypeFrame, MasterTypeFrame, LifeTypeFrame, InboxTypeFrame,
   ViewTypeFrame, PassTypeFrame, HistoryTypeFrame, IdleFrame, UnstartedFrame, SendingFrame,
   PlannedFrame, NumberedFrame
   DEF vars, master, servers, view, passing, history, puts

\* Every step keeps the base.
LEMMA NextBase ==
    ASSUME BaseInv, [Next]_vars
    PROVE  BaseInv'
<1>1. ASSUME NEW c \in Cache, Tick(c)
      PROVE  BaseInv'
  BY <1>1, InitialBase, IgnoreBase, ReadNewBase, ReadPrimaryBase, ReadChangeBase,
     EraseFailsBase, ReadDeleteBase, ReadKillBase, KillEndBase DEF Tick
<1>2. ASSUME NEW c \in Cache, Pass(c)
      PROVE  BaseInv'
  <2>1. CASE PassRefused(c)
    BY <2>1, DeathBase DEF PassRefused
  <2>2. CASE PassExit(c)
    BY <2>2, DeathBase DEF PassExit
  <2> QED
    BY <1>2, <2>1, <2>2, PassListenBase, PassPlanBase, PassSendBase, PassReceiveBase
       DEF Pass
<1>3. ASSUME NEW c \in Cache,
             Join(c) \/ StandBy(c) \/ AnswerPrimary(c) \/ Lost(c) \/ Fail(c)
      PROVE  BaseInv'
  BY <1>3, JoinBase, StandByBase, AnswerPrimaryBase, LostBase, FailBase
<1> QED
  BY <1>1, <1>2, <1>3, FailoverBase, ShrinkBeginBase, ShrinkEndBase, ClientPutBase,
     StutterBase DEF Next

\* The base holds in every state.
LEMMA AlwaysBase == Spec => []BaseInv
<1>1. BaseInv /\ [Next]_vars => BaseInv'
  BY NextBase
<1> QED
  BY <1>1, InitBase, PTL DEF Spec

\* What a dying server still has to send is a key that it has, or that some cache
\* dropped, and goes to a server of its list.
PlansOwnKeys ==
    \A c \in Cache : \A e \in out_key[c] :
        /\ store[c][e.key] # 0 \/ e.key \in evicted
        /\ e.to \in ToSet(cache_list[c])

\* The state of the servers has its type, and what cache_pass plans to send is a
\* key of its own for a server of its list, whatever fails and whoever takes over:
\* no message takes the list from under the thread, and no put of a client or of
\* another server a key that was not dropped by a full cache.
THEOREM ServersTypeCorrect == Spec => [](TypeOK /\ PlansOwnKeys)
<1>1. BaseInv => TypeOK /\ PlansOwnKeys
  BY DEF BaseInv, Sending, Planned, PlansOwnKeys
<1> QED
  BY <1>1, AlwaysBase, PTL

-----------------------------------------------------------------------------
(***************************************************************************)
(* Every primary's list, once it has read its queue, is the ring.          *)
(***************************************************************************)

\* No backup has taken over and no shrink was disturbed.
Calm == ~replaced /\ ~disturbed

\* fd_node: every primary once, and every one that runs.
Listed == NoRepeat(members) /\ ToSet(members) \subseteq PCache \cap started
Running == alive \cap PCache \subseteq ToSet(members)

\* The server that is retired is the last one, and the others run.
Retiring ==
    shrinking # NoCache =>
        members # <<>> /\ shrinking = Last(members) /\ ToSet(Front(members)) \subseteq alive

Counted == nodes = Len(Ring)

\* Backups hear nothing.
Backups == \A c \in alive \cap RCache : inbox[c] = <<>> /\ status_[c] # "K" /\ c \notin killing

\* What a primary has not read yet takes its list to the ring.
Views == \A c \in alive \cap PCache : Replays(c, inbox[c], cache_list[c], Ring)

\* Only the server that is retired dies, and it has read all.
Dying ==
    \A c \in alive : status_[c] = "K" \/ c \in killing => shrinking = c /\ inbox[c] = <<>>

\* The K for a server itself is the last message it gets.
Told ==
    \A c \in alive : \A i \in 1 .. Len(inbox[c]) :
        inbox[c][i].kind = "K" /\ inbox[c][i].who = c
          => shrinking = c /\ i = Len(inbox[c])

\* What holds as long as nothing disturbed the servers.
Viewed ==
    /\ Listed /\ Running /\ Retiring /\ Counted
    /\ Backups /\ Views /\ Dying /\ Told

ViewInv == Calm => Viewed

\* A step that leaves the views alone.
LEMMA ViewedFrame ==
    ASSUME Viewed,
           UNCHANGED <<nodes, members, shrinking, started, alive, inbox, status_,
                       cache_list, killing>>
    PROVE  Viewed'
<1>1. Ring' = Ring
  BY DEF Ring
<1>2. Listed' /\ Running' /\ Retiring' /\ Counted' /\ Backups' /\ Dying' /\ Told'
  BY <1>1 DEF Viewed, Listed, Running, Retiring, Counted, Backups, Dying, Told
<1>3. Views'
  BY <1>1, Zenon DEF Viewed, Views
<1> QED
  BY <1>2, <1>3 DEF Viewed

\* Without a shrink nobody is dying, and nobody has been told.
LEMMA NobodyDies ==
    ASSUME BaseInv, Viewed, shrinking \notin alive
    PROVE  /\ \A c \in alive : status_[c] # "K" /\ c \notin killing
           /\ \A c \in alive : \A i \in 1 .. Len(inbox[c]) :
                 ~(inbox[c][i].kind = "K" /\ inbox[c][i].who = c)
BY DEF Viewed, Dying, Told

\* Without a shrink the ring is fd_node.
LEMMA NoShrink ==
    ASSUME BaseInv, shrinking = NoCache
    PROVE  shrinking \notin alive /\ Ring = members
BY BaseParts, ServerAssumption DEF LifeType, Ring

\* Both are sequences of servers.
LEMMA RingSequence ==
    ASSUME BaseInv, Viewed
    PROVE  Ring \in Seq(Cache) /\ members \in Seq(Cache)
<1>1. members \in Seq(Cache)
  BY BaseParts DEF MasterType
<1> QED
  BY <1>1, FrontLast DEF Ring, Viewed, Retiring

\* A broadcast to all primaries, of a change they will make to their lists.
LEMMA BroadcastViews ==
    ASSUME BaseInv, Viewed, NEW S, NEW msg \in Message, NEW new \in Seq(Cache),
           NEW c \in alive \cap PCache, c \in S, Follows(c, msg, Ring, new)
    PROVE  Replays(c, Broadcast(S, msg)[c], cache_list[c], new)
<1>1. c \in Cache /\ inbox[c] \in Seq(Message)
  BY BaseParts DEF Cache, InboxType
<1>2. Broadcast(S, msg)[c] = Append(inbox[c], msg)
  BY <1>1, BaseParts, BroadcastQueues
<1>3. Replays(c, inbox[c], cache_list[c], Ring)
  BY DEF Viewed, Views
<1> QED
  BY <1>1, <1>2, <1>3, ReplayAppend

\* The messages of a queue that has got one more.
LEMMA AppendedMessages ==
    ASSUME NEW q \in Seq(Message), NEW msg \in Message
    PROVE  /\ Len(Append(q, msg)) = Len(q) + 1
           /\ \A i \in 1 .. Len(Append(q, msg)) :
                 IF i = Len(q) + 1 THEN Append(q, msg)[i] = msg
                 ELSE i \in 1 .. Len(q) /\ Append(q, msg)[i] = q[i]
OBVIOUS

\* A primary joins: its own queue takes it from nothing to the whole list, and
\* N takes the others there.
LEMMA JoinViewed ==
    ASSUME BaseInv, Viewed, NEW c \in Cache, Join(c), shrinking = NoCache
    PROVE  Viewed'
<1> DEFINE all == Append(members, c)
           S == ToSet(members)
           m1 == [kind |-> "list", all |-> all]
           msg == [kind |-> "N", who |-> c]
           two == <<m1, msg>>
<1>1. /\ members' = all /\ inbox' = [Broadcast(S, msg) EXCEPT ![c] = two]
      /\ nodes' = nodes + 1 /\ c \in PCache /\ c \notin started
      /\ started' = started \cup {c} /\ alive' = alive \cup {c}
      /\ UNCHANGED <<shrinking, status_, cache_list, killing>>
  BY DEF Join, addNode, view
<1>2. /\ shrinking \notin alive /\ Ring = members /\ Ring' = all
  BY <1>1, NoShrink DEF Ring
<1>3. members \in Seq(Cache) /\ all \in Seq(Cache) /\ Len(all) = Len(members) + 1
  BY BaseParts DEF MasterType
<1>4. c \notin S /\ S \subseteq PCache /\ S \subseteq started
  BY <1>1 DEF Viewed, Listed
<1>5. c \notin alive /\ alive \subseteq Cache
  BY <1>1, BaseParts DEF LifeType
<1>6. m1 \in Message /\ msg \in Message
  BY <1>3, Messages
<1>7. /\ \A d \in Cache \ {c} : inbox'[d] = Broadcast(S, msg)[d]
      /\ inbox'[c] = two
  <2>1. Broadcast(S, msg) \in [Cache -> Seq(Message)]
    <3> HIDE DEF msg
    <3> QED
      BY <1>6, BaseParts, BroadcastQueues
  <2> HIDE DEF msg, two
  <2> QED
    BY <1>1, <2>1
<1>8. \A d \in Cache : Broadcast(S, msg)[d] =
          IF d \in S \cap alive THEN Append(inbox[d], msg) ELSE inbox[d]
  <2> HIDE DEF msg
  <2> QED
    BY <1>6, BaseParts, BroadcastQueues
<1>9. Listed'
  <2>1. ToSet(all) = S \cup {c} /\ NoRepeat(all)
    BY <1>3, <1>4, AppendElements DEF Viewed, Listed
  <2> QED
    BY <1>1, <1>4, <2>1 DEF Listed
<1>10. Running'
  <2>1. ToSet(all) = S \cup {c}
    BY <1>3, AppendElements
  <2> QED
    BY <1>1, <2>1 DEF Viewed, Running
<1>11. Retiring' /\ Counted'
  BY <1>1, <1>2, <1>3 DEF Viewed, Retiring, Counted
<1>12. Backups'
  <2> SUFFICES ASSUME NEW d \in alive' \cap RCache
               PROVE  inbox'[d] = <<>> /\ status_'[d] # "K" /\ d \notin killing'
    BY DEF Backups
  <2>1. d # c /\ d \in alive /\ d \in Cache /\ d \notin S
    BY <1>1, <1>4, <1>5, ServerAssumption
  <2> QED
    BY <1>1, <1>7, <1>8, <2>1 DEF Viewed, Backups
<1>13. ASSUME NEW d \in alive' \cap PCache
       PROVE  Replays(d, inbox'[d], cache_list'[d], all)
  <2>1. CASE d = c
    <3>1. cache_list[c] = <<>>
      BY <1>5, BaseParts DEF Idle
    <3> <<>> \in Seq(Cache) /\ <<>> \in Seq(Message)
      OBVIOUS
    <3>2. Replays(c, <<>>, <<>>, <<>>)
      BY ReplayNone
    <3>3. Follows(c, m1, <<>>, all)
      BY DEF Follows
    <3>4. Replays(c, Append(<<>>, m1), <<>>, all)
      <4> HIDE DEF m1, all
      <4> QED
        BY <1>3, <1>6, <3>2, <3>3, ReplayAppend
    <3>5. Follows(c, msg, all, all)
      BY DEF Follows
    <3>6. Append(<<>>, m1) \in Seq(Message)
      <4> HIDE DEF m1
      <4> QED
        BY <1>6
    <3>7. Replays(c, Append(Append(<<>>, m1), msg), <<>>, all)
      <4> HIDE DEF m1, msg, all
      <4> QED
        BY <1>3, <1>6, <3>4, <3>5, <3>6, ReplayAppend
    <3>8. two = Append(Append(<<>>, m1), msg)
      <4> HIDE DEF m1, msg
      <4> QED
        OBVIOUS
    <3> QED
      BY <1>1, <1>7, <2>1, <3>1, <3>7, <3>8
  <2>2. CASE d # c
    <3>1. d \in alive \cap PCache /\ d \in S /\ d \in Cache
      BY <1>1, <1>5, <2>2 DEF Viewed, Running
    <3>2. Follows(d, msg, Ring, all)
      BY <1>2, <2>2 DEF Follows
    <3>3. Replays(d, Broadcast(S, msg)[d], cache_list[d], all)
      <4> HIDE DEF msg, all, S
      <4> QED
        BY <1>3, <1>6, <3>1, <3>2, BroadcastViews
    <3> QED
      BY <1>1, <1>7, <2>2, <3>1, <3>3
  <2> QED
    BY <2>1, <2>2
<1>14. Views'
  BY <1>2, <1>13, Zenon DEF Views
<1>15. ASSUME NEW d \in alive'
       PROVE  /\ status_'[d] # "K" /\ d \notin killing'
              /\ \A i \in 1 .. Len(inbox'[d]) :
                    ~(inbox'[d][i].kind = "K" /\ inbox'[d][i].who = d)
  <2>1. CASE d = c
    <3>1. status_[c] # "K" /\ c \notin killing
      BY <1>1, <1>5, BaseParts DEF Unstarted, Idle
    <3>2. ASSUME NEW i \in 1 .. Len(two)
          PROVE  two[i].kind # "K"
      <4>1. i = 1 \/ i = 2
        OBVIOUS
      <4>2. two[1].kind = "list" /\ two[2].kind = "N"
        OBVIOUS
      <4> QED
        BY <4>1, <4>2
    <3> QED
      BY <1>1, <1>7, <2>1, <3>1, <3>2
  <2>2. CASE d # c
    <3>1. d \in alive /\ d \in Cache
      BY <1>1, <1>5, <2>2
    <3>2. /\ status_[d] # "K" /\ d \notin killing
          /\ \A i \in 1 .. Len(inbox[d]) :
                 ~(inbox[d][i].kind = "K" /\ inbox[d][i].who = d)
      BY <1>2, <3>1, NobodyDies
    <3>3. inbox'[d] = IF d \in S THEN Append(inbox[d], msg) ELSE inbox[d]
      BY <1>7, <1>8, <2>2, <3>1
    <3>4. inbox[d] \in Seq(Message)
      BY <3>1, BaseParts DEF InboxType
    <3>5. msg.kind # "K"
      OBVIOUS
    <3>6. \A i \in 1 .. Len(inbox'[d]) :
             ~(inbox'[d][i].kind = "K" /\ inbox'[d][i].who = d)
      <4> HIDE DEF msg
      <4> QED
        BY <1>6, <3>2, <3>3, <3>4, <3>5, AppendedMessages
    <3> QED
      BY <1>1, <3>2, <3>6
  <2> QED
    BY <2>1, <2>2
<1>16. Dying' /\ Told'
  BY <1>15 DEF Dying, Told
<1> QED
  BY <1>9, <1>10, <1>11, <1>12, <1>14, <1>16 DEF Viewed

\* A backup joins, which nobody is told.
LEMMA StandByViewed ==
    ASSUME BaseInv, Viewed, NEW c \in Cache, StandBy(c)
    PROVE  Viewed'
<1>1. /\ c \in RCache /\ c \notin started
      /\ started' = started \cup {c} /\ alive' = alive \cup {c}
      /\ UNCHANGED <<nodes, members, shrinking, inbox, status_, cache_list, killing>>
  BY DEF StandBy, master, ringVars, view
<1>2. /\ c \notin alive /\ inbox[c] = <<>> /\ status_[c] # "K" /\ c \notin killing
      /\ c \notin PCache
  BY <1>1, BaseParts, ServerAssumption DEF LifeType, Idle, Unstarted
<1>3. Ring' = Ring
  BY <1>1 DEF Ring
<1>4. Listed' /\ Running' /\ Retiring' /\ Counted'
  BY <1>1, <1>2, <1>3 DEF Viewed, Listed, Running, Retiring, Counted
<1>5. Backups' /\ Dying' /\ Told'
  BY <1>1, <1>2 DEF Viewed, Backups, Dying, Told
<1>6. Views'
  <2>1. alive' \cap PCache = alive \cap PCache
    BY <1>1, <1>2
  <2> QED
    BY <1>1, <1>3, <2>1, Zenon DEF Viewed, Views
<1> QED
  BY <1>4, <1>5, <1>6 DEF Viewed

\* A primary is lost: D takes the others to the ring without it.
LEMMA LostViewed ==
    ASSUME BaseInv, Viewed, NEW p \in Cache, Lost(p), shrinking = NoCache
    PROVE  Viewed'
<1> DEFINE place == CHOOSE i \in 1 .. Len(members) : members[i] = p
           rest == RemoveAt(members, place)
           S == ToSet(rest)
           msg == [kind |-> "D", who |-> p]
<1>1. /\ members' = rest /\ nodes' = nodes - 1 /\ p \in ToSet(members) /\ p \notin alive
      /\ inbox' = Broadcast(S, msg)
      /\ UNCHANGED <<shrinking, started, alive, status_, cache_list, killing>>
  BY DEF Lost, deleteNode, servers, view
<1>2. /\ shrinking \notin alive /\ Ring = members /\ Ring' = rest
  BY <1>1, NoShrink DEF Ring
<1>3. members \in Seq(Cache)
  BY BaseParts DEF MasterType
<1>4. place \in 1 .. Len(members) /\ members[place] = p
  BY <1>1, <1>3, MemberPlace
<1>5. /\ rest \in Seq(Cache) /\ Len(rest) = Len(members) - 1
      /\ S \subseteq ToSet(members) /\ ToSet(members) \subseteq S \cup {p}
      /\ NoRepeat(rest) /\ rest = Without(members, p)
  <2> HIDE DEF place
  <2>1. NoRepeat(members)
    BY DEF Viewed, Listed
  <2> QED
    BY <1>3, <1>4, <2>1, RemoveAtProperties, RemoveAtElements, WithoutOnly
<1>6. msg \in Message
  BY Messages
<1> HIDE DEF place, rest, S
<1>7. Listed' /\ Counted' /\ Retiring'
  BY <1>1, <1>2, <1>5 DEF Viewed, Listed, Counted, Retiring, S
<1>8. Running'
  BY <1>1, <1>5 DEF Viewed, Running, S
<1>9. \A d \in Cache : inbox'[d] =
          IF d \in S \cap alive THEN Append(inbox[d], msg) ELSE inbox[d]
  <2> HIDE DEF msg
  <2> QED
    BY <1>1, <1>6, BaseParts, BroadcastQueues
<1>10. alive \subseteq Cache
  BY BaseParts DEF LifeType
<1>11. Backups'
  <2> SUFFICES ASSUME NEW d \in alive \cap RCache
               PROVE  inbox'[d] = <<>> /\ status_[d] # "K" /\ d \notin killing
    BY <1>1 DEF Backups
  <2>1. d \in Cache /\ d \notin S
    BY <1>5, <1>10, ServerAssumption DEF Viewed, Listed
  <2> QED
    BY <1>9, <2>1 DEF Viewed, Backups
<1>12. ASSUME NEW d \in alive \cap PCache
       PROVE  Replays(d, inbox'[d], cache_list'[d], rest)
  <2>1. d \in S
    BY <1>1, <1>5 DEF Viewed, Running
  <2>2. Follows(d, msg, Ring, rest)
    BY <1>1, <1>2, <1>5 DEF Follows
  <2>3. Replays(d, Broadcast(S, msg)[d], cache_list[d], rest)
    <3> HIDE DEF msg
    <3> QED
      BY <1>5, <1>6, <2>1, <2>2, BroadcastViews
  <2> QED
    BY <1>1, <2>3
<1>13. Views'
  BY <1>1, <1>2, <1>12, Zenon DEF Views
<1>14. ASSUME NEW d \in alive
       PROVE  \A i \in 1 .. Len(inbox'[d]) :
                 ~(inbox'[d][i].kind = "K" /\ inbox'[d][i].who = d)
  <2>1. d \in Cache /\ inbox[d] \in Seq(Message)
    BY <1>10, BaseParts DEF InboxType
  <2>2. \A i \in 1 .. Len(inbox[d]) : ~(inbox[d][i].kind = "K" /\ inbox[d][i].who = d)
    BY <1>2, NobodyDies
  <2>3. msg.kind # "K"
    OBVIOUS
  <2>4. inbox'[d] = IF d \in S THEN Append(inbox[d], msg) ELSE inbox[d]
    BY <1>9, <2>1
  <2> HIDE DEF msg
  <2> QED
    BY <1>6, <2>1, <2>2, <2>3, <2>4, AppendedMessages
<1>15. Dying' /\ Told'
  <2>1. \A d \in alive : status_[d] # "K" /\ d \notin killing
    BY <1>2, NobodyDies
  <2> QED
    BY <1>1, <1>14, <2>1 DEF Dying, Told
<1> QED
  BY <1>7, <1>8, <1>11, <1>13, <1>15 DEF Viewed

\* A shrink begins: K takes all, the victim too, to the ring without the last.
LEMMA ShrinkBeginViewed ==
    ASSUME BaseInv, Viewed, ShrinkBegin, ToSet(members) \subseteq alive
    PROVE  Viewed'
<1> DEFINE last == Last(members)
           S == ToSet(members)
           msg == [kind |-> "K", who |-> last]
<1>1. /\ shrinking = NoCache /\ members # <<>> /\ nodes' = nodes - 1
      /\ shrinking' = last /\ inbox' = Broadcast(S, msg)
      /\ UNCHANGED <<members, started, alive, status_, cache_list, killing>>
  BY DEF ShrinkBegin, deleteNode, servers, view
<1>2. members \in Seq(Cache)
  BY BaseParts DEF MasterType
<1>3. /\ last \in Cache /\ last # NoCache /\ Front(members) \in Seq(Cache)
      /\ Len(Front(members)) = Len(members) - 1 /\ last \in S
      /\ ToSet(Front(members)) \subseteq S
  BY <1>1, <1>2, FrontLast, FrontElements, ServerAssumption
<1>4. shrinking \notin alive /\ Ring = members /\ Ring' = Front(members)
  BY <1>1, <1>3, NoShrink DEF Ring
<1>5. Front(members) = Without(members, last)
  <2>1. NoRepeat(members)
    BY DEF Viewed, Listed
  <2>2. Len(members) \in 1 .. Len(members) /\ last = members[Len(members)]
    BY <1>1, <1>2, EmptySeq DEF Last
  <2> QED
    BY <1>1, <1>2, <2>1, <2>2, WithoutOnly, RemoveAtLast
<1>6. msg \in Message
  BY <1>3, Messages
<1>7. Listed' /\ Running' /\ Retiring' /\ Counted'
  BY <1>1, <1>3, <1>4 DEF Viewed, Listed, Running, Retiring, Counted
<1> HIDE DEF S, last
<1>8. \A d \in Cache : inbox'[d] =
          IF d \in S \cap alive THEN Append(inbox[d], msg) ELSE inbox[d]
  <2> HIDE DEF msg
  <2> QED
    BY <1>1, <1>6, BaseParts, BroadcastQueues
<1>9. alive \subseteq Cache
  BY BaseParts DEF LifeType
<1>10. Backups'
  <2> SUFFICES ASSUME NEW d \in alive \cap RCache
               PROVE  inbox'[d] = <<>> /\ status_[d] # "K" /\ d \notin killing
    BY <1>1 DEF Backups
  <2>1. d \in Cache /\ d \notin S
    BY <1>9, ServerAssumption DEF Viewed, Listed, S
  <2> QED
    BY <1>8, <2>1 DEF Viewed, Backups
<1>11. ASSUME NEW d \in alive \cap PCache
       PROVE  Replays(d, inbox'[d], cache_list'[d], Front(members))
  <2>1. d \in S
    BY DEF Viewed, Running, S
  <2>2. Follows(d, msg, Ring, Front(members))
    BY <1>3, <1>4, <1>5 DEF Follows, S
  <2>3. Replays(d, Broadcast(S, msg)[d], cache_list[d], Front(members))
    <3> HIDE DEF msg
    <3> QED
      BY <1>3, <1>6, <2>1, <2>2, BroadcastViews
  <2> QED
    BY <1>1, <2>3
<1>12. Views'
  BY <1>1, <1>4, <1>11, Zenon DEF Views
<1>13. Dying'
  <2>1. \A d \in alive : status_[d] # "K" /\ d \notin killing
    BY <1>4, NobodyDies
  <2> QED
    BY <1>1, <2>1 DEF Dying
<1>14. Told'
  <2> SUFFICES ASSUME NEW d \in alive, NEW i \in 1 .. Len(inbox'[d]),
                      inbox'[d][i].kind = "K", inbox'[d][i].who = d
               PROVE  last = d /\ i = Len(inbox'[d])
    BY <1>1 DEF Told
  <2>1. d \in Cache /\ inbox[d] \in Seq(Message)
    BY <1>9, BaseParts DEF InboxType
  <2>2. \A j \in 1 .. Len(inbox[d]) : ~(inbox[d][j].kind = "K" /\ inbox[d][j].who = d)
    BY <1>4, NobodyDies
  <2>3. msg.who = last
    OBVIOUS
  <2>4. inbox'[d] = IF d \in S THEN Append(inbox[d], msg) ELSE inbox[d]
    BY <1>8, <2>1
  <2> HIDE DEF msg
  <2> QED
    BY <1>6, <2>1, <2>2, <2>3, <2>4, AppendedMessages
<1> QED
  BY <1>7, <1>10, <1>12, <1>13, <1>14 DEF Viewed

\* A shrink ends: fd_node becomes what the ring was all along.
LEMMA ShrinkEndViewed ==
    ASSUME BaseInv, Viewed, ShrinkEnd
    PROVE  Viewed'
<1>1. /\ shrinking \in Cache \ alive /\ members' = Front(members) /\ shrinking' = NoCache
      /\ UNCHANGED <<nodes, started, alive, inbox, status_, cache_list, killing>>
  BY DEF ShrinkEnd, ringVars, servers, view
<1>2. /\ members \in Seq(Cache) /\ members # <<>> /\ shrinking = Last(members)
      /\ shrinking # NoCache
  BY <1>1, BaseParts, ServerAssumption DEF MasterType, Viewed, Retiring
<1>3. Ring = Front(members) /\ Ring' = Front(members)
  BY <1>1, <1>2 DEF Ring
<1>4. ToSet(Front(members)) = ToSet(members) \ {shrinking} /\ NoRepeat(Front(members))
  BY <1>2, FrontElements DEF Viewed, Listed
<1>5. Listed' /\ Running' /\ Retiring' /\ Counted' /\ Backups'
  BY <1>1, <1>3, <1>4 DEF Viewed, Listed, Running, Retiring, Counted, Backups
<1>6. Views'
  BY <1>1, <1>3, Zenon DEF Viewed, Views
<1>7. Dying' /\ Told'
  BY <1>1, NobodyDies DEF Dying, Told
<1> QED
  BY <1>5, <1>6, <1>7 DEF Viewed

\* A server that is not one of the others of a shrink may end.
LEMMA DiesViewed ==
    ASSUME BaseInv, Viewed, NEW c \in Cache, Dies(c), UNCHANGED <<master, started>>,
           shrinking = NoCache \/ shrinking = c
    PROVE  Viewed'
<1>1. /\ alive' = alive \ {c} /\ inbox' = [inbox EXCEPT ![c] = <<>>]
      /\ cache_list' = [cache_list EXCEPT ![c] = <<>>] /\ killing' = killing \ {c}
      /\ UNCHANGED <<nodes, members, shrinking, started, status_>>
  BY DEF Dies, master, ringVars
<1>2. \A d \in alive' : d \in alive /\ d # c /\ d \in Cache
  BY <1>1, BaseParts DEF LifeType
<1>3. \A d \in alive' : inbox'[d] = inbox[d] /\ cache_list'[d] = cache_list[d]
  BY <1>1, <1>2, BaseParts DEF InboxType, ViewType
<1>4. Ring' = Ring
  BY <1>1 DEF Ring
<1>5. Listed' /\ Running' /\ Counted'
  BY <1>1, <1>4 DEF Viewed, Listed, Running, Counted
<1>6. Retiring'
  <2>1. ASSUME shrinking # NoCache
        PROVE  ToSet(Front(members)) \subseteq alive'
    <3>1. members # <<>> /\ c = Last(members) /\ ToSet(Front(members)) \subseteq alive
      BY <2>1 DEF Viewed, Retiring
    <3>2. c \notin ToSet(Front(members))
      BY <3>1, BaseParts, FrontElements DEF MasterType, Viewed, Listed
    <3> QED
      BY <1>1, <3>1, <3>2
  <2> QED
    BY <1>1, <2>1 DEF Viewed, Retiring
<1>7. Backups' /\ Dying' /\ Told'
  BY <1>1, <1>2, <1>3 DEF Viewed, Backups, Dying, Told
<1>8. Views'
  <2>1. \A d \in alive' \cap PCache : Replays(d, inbox'[d], cache_list'[d], Ring)
    <3>1. \A d \in alive' \cap PCache : Replays(d, inbox[d], cache_list[d], Ring)
      BY <1>2 DEF Viewed, Views
    <3> QED
      BY <1>3, <3>1
  <2> QED
    BY <1>4, <2>1, Zenon DEF Views
<1> QED
  BY <1>5, <1>6, <1>7, <1>8 DEF Viewed

\* A server that has something to read is a primary, and knows what to do with it.
LEMMA NextMessage ==
    ASSUME BaseInv, Viewed, NEW c \in alive, inbox[c] # <<>>
    PROVE  /\ c \in PCache /\ c \in Cache /\ status_[c] # "K"
           /\ \E mid \in Seq(Cache) : /\ Follows(c, Head(inbox[c]), cache_list[c], mid)
                                      /\ Replays(c, Tail(inbox[c]), mid, Ring)
<1>1. c \in Cache /\ inbox[c] \in Seq(Message)
  BY BaseParts DEF LifeType, InboxType
<1>2. c \in PCache
  BY <1>1 DEF Viewed, Backups, Cache
<1>3. Replays(c, inbox[c], cache_list[c], Ring)
  BY <1>2 DEF Viewed, Views
<1>4. status_[c] # "K"
  BY DEF Viewed, Dying
<1> QED
  BY <1>1, <1>2, <1>3, <1>4, ReplayHead

\* A server reads a message and does what it says.
LEMMA ReadViewed ==
    ASSUME BaseInv, Viewed, NEW c \in alive, inbox[c] # <<>>, c \notin killing, Taken(c),
           UNCHANGED <<nodes, members, shrinking, started, alive, status_>>,
           \A d \in Cache \ {c} : cache_list'[d] = cache_list[d],
           Replays(c, Tail(inbox[c]), cache_list'[c], Ring),
           killing' \subseteq killing \cup {c},
           c \in killing' => Head(inbox[c]).kind = "K" /\ Head(inbox[c]).who = c
    PROVE  Viewed'
<1>1. c \in PCache /\ c \in Cache /\ status_[c] # "K" /\ c \notin RCache
  BY NextMessage, ServerAssumption
<1>2. /\ inbox[c] \in Seq(Message)
      /\ inbox'[c] = Tail(inbox[c])
      /\ \A d \in Cache \ {c} : inbox'[d] = inbox[d]
  BY <1>1, BaseParts, TakenQueues DEF InboxType
<1>3. Ring' = Ring /\ alive \subseteq Cache
  BY BaseParts DEF Ring, LifeType
<1>4. Listed' /\ Running' /\ Retiring' /\ Counted'
  BY <1>3 DEF Viewed, Listed, Running, Retiring, Counted
<1>5. Backups'
  BY <1>1, <1>2, <1>3 DEF Viewed, Backups
<1>6. Views'
  <2>1. ASSUME NEW d \in alive \cap PCache
        PROVE  Replays(d, inbox'[d], cache_list'[d], Ring)
    <3>1. CASE d = c
      BY <1>2, <3>1
    <3>2. CASE d # c
      <4>1. inbox'[d] = inbox[d] /\ cache_list'[d] = cache_list[d]
        BY <1>2, <1>3, <3>2
      <4> QED
        BY <4>1 DEF Viewed, Views
    <3> QED
      BY <3>1, <3>2
  <2> QED
    BY <1>3, <2>1, Zenon DEF Views
<1>7. /\ Len(inbox[c]) \in Nat \ {0} /\ Head(inbox[c]) = inbox[c][1]
      /\ Len(Tail(inbox[c])) = Len(inbox[c]) - 1
      /\ \A i \in 1 .. Len(Tail(inbox[c])) : Tail(inbox[c])[i] = inbox[c][i + 1]
  BY <1>2, EmptySeq
<1> DEFINE n == Len(inbox[c])
<1>0. \A i \in 1 .. n : inbox[c][i].kind = "K" /\ inbox[c][i].who = c => shrinking = c /\ i = n
  BY DEF Viewed, Told
<1>n. n \in Nat \ {0} /\ Len(Tail(inbox[c])) = n - 1 /\ 1 \in 1 .. n
  BY <1>7
<1>8. Dying'
  <2> SUFFICES ASSUME NEW d \in alive, status_[d] = "K" \/ d \in killing'
               PROVE  shrinking = d /\ inbox'[d] = <<>>
    BY DEF Dying
  <2>1. CASE d = c
    <3>1. inbox[c][1].kind = "K" /\ inbox[c][1].who = c
      <4>1. c \in killing'
        BY <1>1, <2>1
      <4> QED
        BY <1>7, <4>1
    <3>2. shrinking = c /\ 1 = n
      <4> HIDE DEF n
      <4> QED
        BY <1>0, <1>n, <3>1
    <3>3. Tail(inbox[c]) = <<>>
      <4>1. Tail(inbox[c]) \in Seq(Message) /\ Len(Tail(inbox[c])) = 0
        BY <1>2, <1>n, <3>2
      <4> QED
        BY <4>1, EmptySeq
    <3> QED
      BY <1>2, <2>1, <3>2, <3>3
  <2>2. CASE d # c
    BY <1>2, <1>3, <2>2 DEF Viewed, Dying
  <2> QED
    BY <2>1, <2>2
<1>9. Told'
  <2> SUFFICES ASSUME NEW d \in alive, NEW i \in 1 .. Len(inbox'[d]),
                      inbox'[d][i].kind = "K", inbox'[d][i].who = d
               PROVE  shrinking = d /\ i = Len(inbox'[d])
    BY DEF Told
  <2>1. CASE d = c
    <3>1. i \in 1 .. Len(Tail(inbox[c])) /\ inbox'[d][i] = inbox[c][i + 1]
      BY <1>2, <1>7, <2>1
    <3>2. i + 1 \in 1 .. n
      <4> HIDE DEF n
      <4> QED
        BY <1>n, <3>1
    <3>3. shrinking = c /\ i + 1 = n
      <4> HIDE DEF n
      <4> QED
        BY <1>0, <2>1, <3>1, <3>2
    <3>4. inbox'[d] = Tail(inbox[c])
      BY <1>2, <2>1
    <3>5. i = Len(inbox'[d])
      <4> HIDE DEF n
      <4> QED
        BY <1>n, <3>1, <3>3, <3>4
    <3> QED
      BY <2>1, <3>3, <3>5
  <2>2. CASE d # c
    BY <1>2, <1>3, <2>2 DEF Viewed, Told
  <2> QED
    BY <2>1, <2>2
<1> QED
  BY <1>4, <1>5, <1>6, <1>8, <1>9 DEF Viewed

\* initial(): a new primary takes the list for its own.
LEMMA InitialViewed ==
    ASSUME BaseInv, Viewed, NEW c \in Cache, Initial(c)
    PROVE  Viewed'
<1>1. /\ c \in alive /\ c \notin killing /\ inbox[c] # <<>> /\ Taken(c)
      /\ Head(inbox[c]).kind = "list"
      /\ cache_list' = [cache_list EXCEPT ![c] = @ \o Head(inbox[c]).all]
      /\ UNCHANGED <<nodes, members, shrinking, started, alive, status_, killing>>
  BY DEF Initial, Gets, master, ringVars, servers
<1>2. PICK mid \in Seq(Cache) : /\ Follows(c, Head(inbox[c]), cache_list[c], mid)
                                /\ Replays(c, Tail(inbox[c]), mid, Ring)
  BY <1>1, NextMessage
<1>3. cache_list[c] = <<>> /\ mid = Head(inbox[c]).all
  BY <1>1, <1>2 DEF Follows
<1>4. /\ cache_list'[c] = cache_list[c] \o mid
      /\ \A d \in Cache \ {c} : cache_list'[d] = cache_list[d]
  BY <1>1, <1>3, BaseParts DEF ViewType
<1>5. cache_list'[c] = mid
  BY <1>3, <1>4, ConcatEmptySeq
<1> QED
  BY <1>1, <1>2, <1>4, <1>5, ReadViewed

\* N is read.
LEMMA ReadNewViewed ==
    ASSUME BaseInv, Viewed, NEW c \in Cache, ReadNew(c)
    PROVE  Viewed'
<1> DEFINE who == Head(inbox[c]).who
<1>1. /\ c \in alive /\ c \notin killing /\ inbox[c] # <<>> /\ Taken(c)
      /\ Head(inbox[c]).kind = "N"
      /\ cache_list' = IF who = c THEN cache_list
                       ELSE [cache_list EXCEPT ![c] = Append(@, who)]
      /\ UNCHANGED <<nodes, members, shrinking, started, alive, status_, killing>>
  BY DEF ReadNew, Reads, Gets, master, ringVars, servers
<1>2. PICK mid \in Seq(Cache) : /\ Follows(c, Head(inbox[c]), cache_list[c], mid)
                                /\ Replays(c, Tail(inbox[c]), mid, Ring)
  BY <1>1, NextMessage
<1>3. mid = IF who = c THEN cache_list[c] ELSE Append(cache_list[c], who)
  BY <1>1, <1>2 DEF Follows
<1>4. /\ cache_list'[c] = mid
      /\ \A d \in Cache \ {c} : cache_list'[d] = cache_list[d]
  BY <1>1, <1>3, BaseParts DEF ViewType
<1> QED
  BY <1>1, <1>2, <1>4, ReadViewed

\* What is to be erased is found.
LEMMA FindsErased ==
    ASSUME BaseInv, Viewed, NEW c \in Cache, c \in alive, inbox[c] # <<>>,
           Head(inbox[c]).kind \in {"K", "D"}
    PROVE  /\ Head(inbox[c]).who \in ToSet(cache_list[c])
           /\ Replays(c, Tail(inbox[c]), Without(cache_list[c], Head(inbox[c]).who), Ring)
<1>1. PICK mid \in Seq(Cache) : /\ Follows(c, Head(inbox[c]), cache_list[c], mid)
                                /\ Replays(c, Tail(inbox[c]), mid, Ring)
  BY NextMessage
<1>2. /\ Head(inbox[c]).who \in ToSet(cache_list[c])
      /\ mid = Without(cache_list[c], Head(inbox[c]).who)
  BY <1>1 DEF Follows
<1> QED
  BY <1>1, <1>2

\* D is read.
LEMMA ReadDeleteViewed ==
    ASSUME BaseInv, Viewed, NEW c \in Cache, ReadDelete(c)
    PROVE  Viewed'
<1> DEFINE who == Head(inbox[c]).who
<1>1. /\ c \in alive /\ c \notin killing /\ inbox[c] # <<>> /\ Taken(c)
      /\ Head(inbox[c]).kind = "D"
      /\ UNCHANGED <<nodes, members, shrinking, started, alive, status_, killing>>
  BY DEF ReadDelete, Reads, Gets, master, ringVars, servers
<1>2. PICK list \in Erased(cache_list[c], who) :
          cache_list' = [cache_list EXCEPT ![c] = list]
  BY DEF ReadDelete
<1>3. /\ who \in ToSet(cache_list[c])
      /\ Replays(c, Tail(inbox[c]), Without(cache_list[c], who), Ring)
  BY <1>1, FindsErased
<1>4. list = Without(cache_list[c], who)
  BY <1>2, <1>3 DEF Erased
<1>5. /\ cache_list'[c] = list
      /\ \A d \in Cache \ {c} : cache_list'[d] = cache_list[d]
  BY <1>2, BaseParts DEF ViewType
<1> QED
  BY <1>1, <1>3, <1>4, <1>5, ReadViewed

\* K is read, up to the end of update_cache.
LEMMA ReadKillViewed ==
    ASSUME BaseInv, Viewed, NEW c \in Cache, ReadKill(c)
    PROVE  Viewed'
<1> DEFINE who == Head(inbox[c]).who
<1>1. /\ c \in alive /\ c \notin killing /\ inbox[c] # <<>> /\ Taken(c)
      /\ Head(inbox[c]).kind = "K"
      /\ killing' = IF who = c THEN killing \cup {c} ELSE killing
      /\ UNCHANGED <<nodes, members, shrinking, started, alive, status_>>
  BY DEF ReadKill, Reads, Gets, master, ringVars, servers
<1>2. PICK list \in Erased(cache_list[c], who) :
          cache_list' = [cache_list EXCEPT ![c] = list]
  BY DEF ReadKill
<1>3. /\ who \in ToSet(cache_list[c])
      /\ Replays(c, Tail(inbox[c]), Without(cache_list[c], who), Ring)
  BY <1>1, FindsErased
<1>4. list = Without(cache_list[c], who)
  BY <1>2, <1>3 DEF Erased
<1>5. /\ cache_list'[c] = list
      /\ \A d \in Cache \ {c} : cache_list'[d] = cache_list[d]
  BY <1>2, BaseParts DEF ViewType
<1>6. /\ killing' \subseteq killing \cup {c}
      /\ c \in killing' => who = c
  BY <1>1
<1> QED
  BY <1>1, <1>3, <1>4, <1>5, <1>6, ReadViewed

\* K is done with: status_ becomes K.
LEMMA KillEndViewed ==
    ASSUME BaseInv, Viewed, NEW c \in Cache, KillEnd(c)
    PROVE  Viewed'
<1>1. /\ c \in alive /\ c \in killing /\ killing' = killing \ {c}
      /\ status_' = [status_ EXCEPT ![c] = "K"]
      /\ UNCHANGED <<nodes, members, shrinking, started, alive, inbox, cache_list>>
  BY DEF KillEnd, master, ringVars, servers
<1>2. /\ shrinking = c /\ inbox[c] = <<>> /\ c \notin RCache
      /\ \A d \in Cache \ {c} : status_'[d] = status_[d]
  BY <1>1, BaseParts DEF Viewed, Dying, Backups, ViewType
<1>3. Ring' = Ring /\ alive \subseteq Cache
  BY <1>1, BaseParts DEF Ring, LifeType
<1>4. Listed' /\ Running' /\ Retiring' /\ Counted' /\ Told'
  BY <1>1, <1>3 DEF Viewed, Listed, Running, Retiring, Counted, Told
<1>5. Backups' /\ Dying'
  BY <1>1, <1>2, <1>3 DEF Viewed, Backups, Dying
<1>6. Views'
  BY <1>1, <1>3, Zenon DEF Viewed, Views
<1> QED
  BY <1>4, <1>5, <1>6 DEF Viewed

\* What the master sends while it is calm.
LEMMA NoOtherMessages ==
    ASSUME BaseInv, Viewed, NEW c \in Cache
    PROVE  ~Ignore(c) /\ ~ReadPrimary(c) /\ ~ReadChange(c) /\ ~EraseFails(c)
           /\ ~AnswerPrimary(c)
<1>1. ASSUME c \in alive, inbox[c] # <<>>
      PROVE  status_[c] # "K" /\ Head(inbox[c]).kind \in {"list", "N", "K", "D"}
  BY <1>1, NextMessage DEF Follows
<1>2. ~Ignore(c)
  BY <1>1 DEF Ignore, Gets
<1>3. ~ReadPrimary(c) /\ ~ReadChange(c)
  BY <1>1 DEF ReadPrimary, ReadChange, Reads, Gets
<1>4. ~EraseFails(c)
  BY FindsErased DEF EraseFails, Reads, Gets
<1>5. ~AnswerPrimary(c)
  BY ServerAssumption DEF AnswerPrimary, Viewed, Listed
<1> QED
  BY <1>2, <1>3, <1>4, <1>5

\* A sender is the server that is retired, and has read all.
LEMMA SenderRetires ==
    ASSUME BaseInv, Viewed, NEW c \in Cache, c \in alive, status_[c] = "K"
    PROVE  /\ shrinking = c /\ c \in PCache /\ c \in ToSet(members)
           /\ cache_list[c] = Ring /\ Ring = Front(members)
<1>1. shrinking = c /\ inbox[c] = <<>> /\ c \in PCache
  BY DEF Viewed, Dying, Backups, Cache
<1>2. c \in ToSet(members) /\ shrinking # NoCache
  BY <1>1, ServerAssumption DEF Viewed, Running
<1>3. Replays(c, <<>>, cache_list[c], Ring)
  BY <1>1 DEF Viewed, Views
<1>4. cache_list[c] = Ring
  BY <1>3, BaseParts, ReplayNone DEF ViewType
<1> QED
  BY <1>1, <1>2, <1>4 DEF Ring

\* History never turns back.
LEMMA CalmBefore ==
    ASSUME BaseInv, Next, Calm'
    PROVE  /\ Calm /\ \A p, r \in Cache : ~Failover(p, r)
           /\ \A c \in Cache : Join(c) \/ Lost(c) \/ Fail(c) => shrinking = NoCache
           /\ ShrinkBegin => ToSet(members) \subseteq alive
<1>1. ASSUME NEW c \in Cache, Join(c) \/ Lost(c) \/ Fail(c)
      PROVE  Calm /\ shrinking = NoCache
  <2>1. disturbed' = (disturbed \/ shrinking # NoCache) /\ replaced' = replaced
    BY <1>1, Zenon DEF Join, Lost, Fail, Disturb
  <2> QED
    BY <2>1, Zenon DEF Calm
<1>2. ASSUME NEW c \in Cache, StandBy(c) \/ AnswerPrimary(c) \/ Tick(c) \/ Pass(c)
      PROVE  Calm
  <2>1. UNCHANGED <<replaced, disturbed>>
    BY <1>2, Zenon DEF StandBy, AnswerPrimary, Tick, Pass, Initial, Ignore, ReadNew, ReadPrimary,
     ReadChange, EraseFails, ReadDelete, ReadKill, KillEnd, PassListen, PassPlan, PassSend,
     PassReceive, PassRefused, PassExit, history
  <2> QED
    BY <2>1, Zenon DEF Calm
<1>3. ASSUME NEW p \in Cache, NEW r \in Cache
      PROVE  ~Failover(p, r)
  BY Zenon DEF Failover, Calm
<1>4. ASSUME ShrinkBegin
      PROVE  Calm /\ ToSet(members) \subseteq alive
  BY <1>4, Zenon DEF ShrinkBegin, Calm
<1>5. ASSUME ShrinkEnd
      PROVE  Calm
  <2>1. UNCHANGED <<replaced, disturbed>>
    BY <1>5, Zenon DEF ShrinkEnd, history
  <2> QED
    BY <2>1, Zenon DEF Calm
<1>6. ASSUME NEW c \in Cache, NEW k \in Key, ClientPut(c, k)
      PROVE  Calm
  <2>1. UNCHANGED <<replaced, disturbed>>
    BY <1>6, Zenon DEF ClientPut
  <2> QED
    BY <2>1, Zenon DEF Calm
<1>7. Calm
  BY <1>1, <1>2, <1>3, <1>4, <1>5, <1>6 DEF Next
<1> QED
  BY <1>1, <1>3, <1>4, <1>7

\* Every step keeps the views, as long as it disturbs nothing.
LEMMA NextView ==
    ASSUME BaseInv, ViewInv, [Next]_vars
    PROVE  ViewInv'
<1> SUFFICES ASSUME Calm'
             PROVE  Viewed'
  BY Zenon DEF ViewInv
<1>1. CASE UNCHANGED vars
  <2>1. UNCHANGED <<nodes, members, shrinking, started, alive, inbox, status_,
                    cache_list, killing, replaced, disturbed>>
    BY <1>1 DEF vars, master, ringVars, servers, view, history
  <2>2. Calm
    BY <2>1, Zenon DEF Calm
  <2> QED
    BY <2>1, <2>2, ViewedFrame DEF ViewInv
<1>2. CASE Next
  <2>1. /\ Calm /\ \A p, r \in Cache : ~Failover(p, r)
        /\ \A c \in Cache : Join(c) \/ Lost(c) \/ Fail(c) => shrinking = NoCache
        /\ ShrinkBegin => ToSet(members) \subseteq alive
    BY <1>2, CalmBefore
  <2>2. Viewed
    BY <2>1 DEF ViewInv
  <2>3. ASSUME NEW c \in Cache, Tick(c)
        PROVE  Viewed'
    BY <2>2, <2>3, InitialViewed, ReadNewViewed, ReadDeleteViewed, ReadKillViewed,
       KillEndViewed, NoOtherMessages DEF Tick
  <2>4. ASSUME NEW c \in Cache, Pass(c)
        PROVE  Viewed'
    <3>1. CASE PassRefused(c) \/ PassExit(c)
      <4>1. Dies(c) /\ UNCHANGED <<master, started>> /\ c \in alive /\ thread[c] = "send"
        BY <3>1 DEF PassRefused, PassExit, At, servers
      <4>2. status_[c] = "K"
        BY <4>1, BaseParts DEF Sending
      <4> QED
        BY <2>2, <4>1, <4>2, SenderRetires, DiesViewed
    <3>2. CASE PassListen(c) \/ PassPlan(c) \/ PassSend(c) \/ PassReceive(c)
      <4>1. UNCHANGED <<nodes, members, shrinking, started, alive, inbox, status_,
                        cache_list, killing>>
        BY <3>2 DEF PassListen, PassPlan, PassSend, PassReceive, master, ringVars, servers,
           view
      <4> QED
        BY <2>2, <4>1, ViewedFrame
    <3> QED
      BY <2>4, <3>1, <3>2 DEF Pass
  <2>5. ASSUME NEW c \in Cache, Join(c) \/ StandBy(c) \/ Lost(c)
        PROVE  Viewed'
    BY <2>1, <2>2, <2>5, JoinViewed, StandByViewed, LostViewed
  <2>6. ASSUME NEW c \in Cache, Fail(c)
        PROVE  Viewed'
    BY <2>1, <2>2, <2>6, DiesViewed DEF Fail
  <2>7. ASSUME NEW c \in Cache, NEW k \in Key, ClientPut(c, k)
        PROVE  Viewed'
    <3>1. UNCHANGED <<nodes, members, shrinking, started, alive, inbox, status_,
                      cache_list, killing>>
      BY <2>7 DEF ClientPut, master, ringVars, servers, view
    <3> QED
      BY <2>2, <3>1, ViewedFrame
  <2> QED
    BY <1>2, <2>1, <2>2, <2>3, <2>4, <2>5, <2>6, <2>7, NoOtherMessages,
       ShrinkBeginViewed, ShrinkEndViewed DEF Next
<1> QED
  BY <1>1, <1>2

\* At the start there are no views.
LEMMA InitView == Init => ViewInv
<1> SUFFICES ASSUME Init
             PROVE  Viewed
  BY DEF ViewInv
<1>1. /\ nodes = 0 /\ members = <<>> /\ shrinking = NoCache /\ alive = {}
  BY DEF Init, RingInit
<1>2. ToSet(members) = {} /\ NoRepeat(members) /\ Len(members) = 0
  BY <1>1 DEF ToSet, NoRepeat
<1>3. Ring = <<>>
  BY <1>1 DEF Ring
<1> QED
  BY <1>1, <1>2, <1>3 DEF Viewed, Listed, Running, Retiring, Counted, Backups, Views, Dying, Told

\* Base and views hold in every state.
LEMMA AlwaysView == Spec => [](BaseInv /\ ViewInv)
<1>1. BaseInv /\ ViewInv /\ [Next]_vars => BaseInv' /\ ViewInv'
  BY NextBase, NextView
<1> QED
  BY <1>1, InitBase, InitView, PTL DEF Spec

\* A primary that has read its messages has the master's list in the master's
\* order, however many servers join, are lost and are retired in between and
\* however late each one reads.
THEOREM ServersViewsAgree == Spec => []ViewsAgree
<1>1. BaseInv /\ ViewInv => ViewsAgree
  <2> SUFFICES ASSUME BaseInv, Viewed, NEW c \in alive \cap ToSet(members), inbox[c] = <<>>
               PROVE  cache_list[c] = Ring
    BY DEF ViewsAgree, ViewInv, Calm
  <2>1. c \in alive \cap PCache /\ c \in Cache
    BY DEF Viewed, Listed, Cache
  <2>2. Replays(c, <<>>, cache_list[c], Ring)
    BY <2>1 DEF Viewed, Views
  <2> QED
    BY <2>1, <2>2, BaseParts, ReplayNone DEF ViewType
<1> QED
  BY <1>1, AlwaysView, PTL

\* No server runs into erase(end()) in update_cache, under the same conditions.
THEOREM ServersEraseFinds == Spec => []EraseFinds
<1>1. BaseInv /\ ViewInv => EraseFinds
  <2> SUFFICES ASSUME BaseInv, Viewed, NEW c \in alive, Reads(c, "K") \/ Reads(c, "D")
               PROVE  Head(inbox[c]).who \in ToSet(cache_list[c])
    BY DEF EraseFinds, ViewInv, Calm
  <2>1. c \in Cache /\ inbox[c] # <<>> /\ Head(inbox[c]).kind \in {"K", "D"}
    BY BaseParts DEF LifeType, Reads, Gets
  <2> QED
    BY <2>1, FindsErased
<1> QED
  BY <1>1, AlwaysView, PTL

-----------------------------------------------------------------------------
(***************************************************************************)
(* What is planned goes where the master routes.                           *)
(***************************************************************************)

\* The servers of the ring, and the one that is retired.
LEMMA RingPlaces ==
    ASSUME BaseInv, Viewed
    PROVE  /\ Ring \in Seq(Cache) /\ Len(Ring) \in Nat /\ nodes = Len(Ring)
           /\ members \in Seq(Cache) /\ Len(Ring) <= Len(members)
           /\ \A i \in 1 .. Len(Ring) : Ring[i] = members[i] /\ Ring[i] \in Cache
           /\ \A i, j \in 1 .. Len(Ring) : Ring[i] = Ring[j] => i = j
           /\ shrinking = NoCache => Ring = members
           /\ shrinking # NoCache =>
                 /\ shrinking \in Cache /\ Ring = Front(members)
                 /\ \A i \in 1 .. Len(Ring) : Ring[i] # shrinking /\ Ring[i] \in alive
<1>1. Ring \in Seq(Cache) /\ members \in Seq(Cache) /\ nodes = Len(Ring)
  BY RingSequence DEF Viewed, Counted
<1>2. CASE shrinking = NoCache
  <2>1. Ring = members
    BY <1>2 DEF Ring
  <2> QED
    BY <1>1, <1>2, <2>1 DEF Viewed, Listed, NoRepeat
<1>3. CASE shrinking # NoCache
  <2>1. /\ Ring = Front(members) /\ members # <<>> /\ shrinking = Last(members)
        /\ ToSet(Front(members)) \subseteq alive
    BY <1>3 DEF Ring, Viewed, Retiring
  <2>2. /\ Len(Ring) = Len(members) - 1 /\ Last(members) \in Cache
        /\ Len(members) \in Nat \ {0}
    BY <1>1, <2>1, FrontLast
  <2>3. ToSet(Ring) = ToSet(members) \ {shrinking} /\ NoRepeat(Ring)
    BY <1>1, <2>1, FrontElements DEF Viewed, Listed
  <2>4. \A i \in 1 .. Len(Ring) : Ring[i] = members[i]
    BY <1>1, <2>1, <2>2 DEF Front
  <2>5. \A i \in 1 .. Len(Ring) : Ring[i] \in ToSet(Ring)
    BY <1>1, Elements
  <2> QED
    BY <1>1, <1>3, <2>1, <2>2, <2>3, <2>4, <2>5 DEF NoRepeat
<1> QED
  BY <1>2, <1>3

\* The place in the ring of the server the master names for k.
Place(k) == Owner(key2Index, Hash[k]) + 1

\* A ring with a server in it names one for every key, the same as a ring
\* built from nothing.
LEMMA PlaceInRing ==
    ASSUME BaseInv, Viewed, HistoryIndependent, Ring # <<>>, NEW k \in Key
    PROVE  /\ Place(k) \in 1 .. Len(Ring)
           /\ Owner(RingOf(Len(Ring)), Hash[k]) = Place(k) - 1
           /\ Routed(k) /\ Route(k) = Ring[Place(k)]
<1>1. /\ Ring \in Seq(Cache) /\ nodes = Len(Ring) /\ Len(Ring) <= Len(members)
      /\ members \in Seq(Cache)
      /\ \A i \in 1 .. Len(Ring) : Ring[i] = members[i]
  BY RingPlaces
<1>2. Len(Ring) \in Nat /\ Len(Ring) # 0 /\ Hash[k] \in HashSpace
  BY <1>1, EmptySeq, ServerAssumption
<1>3. key2Index = RingOf(Len(Ring))
  BY <1>1 DEF HistoryIndependent
<1>4. Owner(key2Index, Hash[k]) \in 0 .. (Len(Ring) - 1) /\ key2Index # EmptyRing
  BY <1>2, <1>3, RingOfRange
<1>5. Place(k) \in 1 .. Len(Ring) /\ Owner(key2Index, Hash[k]) = Place(k) - 1
  BY <1>2, <1>4 DEF Place
<1>6. Place(k) \in 1 .. Len(members)
  BY <1>1, <1>2, <1>5
<1> QED
  BY <1>1, <1>3, <1>4, <1>5, <1>6 DEF Routed, Route, Place

\* The master's ring has no history, and what is planned goes where it routes.
Owned ==
    /\ HistoryIndependent
    /\ \A c \in alive : \A e \in out_key[c] : Routed(e.key) /\ e.to = Route(e.key)

OwnerInv == Calm => Owned

\* Only the server that is retired has something to send.
LEMMA OnlySender ==
    ASSUME BaseInv, Viewed, NEW c \in Cache, out_key[c] # {}
    PROVE  c \in alive /\ shrinking = c /\ Ring # <<>>
<1>1. c \in alive
  BY BaseParts DEF Idle
<1>2. status_[c] = "K" /\ cache_list[c] # <<>>
  BY BaseParts DEF Planned, Sending
<1> QED
  BY <1>1, <1>2, SenderRetires

\* A step that plans nothing new and keeps the ring and its servers.
LEMMA OwnedFrame ==
    ASSUME Owned, UNCHANGED <<nodes, key2Index, members>>,
           \A c \in alive' : \A e \in out_key'[c] : c \in alive /\ e \in out_key[c]
    PROVE  Owned'
<1>1. \A k : (Routed(k) <=> Routed(k)') /\ Route(k)' = Route(k)
  BY DEF Routed, Route
<1>2. \A c \in alive' : \A e \in out_key'[c] : Routed(e.key)' /\ e.to = Route(e.key)'
  BY <1>1, Zenon DEF Owned
<1>3. HistoryIndependent'
  BY DEF Owned, HistoryIndependent
<1> QED
  BY <1>2, <1>3, Zenon DEF Owned

\* A step of the master while nobody sends.
LEMMA OwnedMaster ==
    ASSUME HistoryIndependent', \A c \in alive' : out_key'[c] = {}
    PROVE  Owned'
<1>1. \A c \in alive' : \A e \in out_key'[c] : Routed(e.key)' /\ e.to = Route(e.key)'
  OBVIOUS
<1> QED
  BY <1>1, Zenon DEF Owned

\* A primary joins: addNode() gives the ring of one more.
LEMMA JoinOwned ==
    ASSUME NoCollision, BaseInv, Viewed, Owned, NEW c \in Cache, Join(c), shrinking = NoCache
    PROVE  Owned'
<1>1. /\ addNode(Len(members)) /\ alive' = alive \cup {c} /\ out_key' = out_key
  BY DEF Join, passing
<1>2. nodes = Len(members) /\ nodes \in Nat
  BY RingPlaces
<1>3. HistoryIndependent'
  BY <1>1, <1>2, AddNodeRing DEF Owned
<1>4. \A d \in Cache : out_key[d] = {}
  BY OnlySender, ServerAssumption
<1>5. alive \subseteq Cache
  BY BaseParts DEF LifeType
<1> QED
  BY <1>1, <1>3, <1>4, <1>5, OwnedMaster

\* A primary is lost: deleteNode() gives the ring of one less.
LEMMA LostOwned ==
    ASSUME NoCollision, BaseInv, Viewed, Owned, NEW p \in Cache, Lost(p), shrinking = NoCache
    PROVE  Owned'
<1> DEFINE place == CHOOSE i \in 1 .. Len(members) : members[i] = p
<1>1. /\ p \in ToSet(members) /\ deleteNode(place - 1) /\ UNCHANGED <<alive, out_key>>
  BY DEF Lost, passing
<1>2. nodes = Len(members) /\ nodes \in Nat /\ members \in Seq(Cache)
  BY RingPlaces
<1>3. place \in 1 .. Len(members)
  BY <1>1, <1>2, MemberPlace
<1>4. HistoryIndependent'
  <2> HIDE DEF place
  <2>1. place - 1 \in 0 .. (nodes - 1)
    BY <1>2, <1>3
  <2> QED
    BY <1>1, <1>2, <2>1, DeleteNodeRing DEF Owned
<1>5. \A d \in Cache : out_key[d] = {}
  BY OnlySender, ServerAssumption
<1>6. alive \subseteq Cache
  BY BaseParts DEF LifeType
<1> QED
  BY <1>1, <1>4, <1>5, <1>6, OwnedMaster

\* A shrink begins: the same, before anybody has planned anything.
LEMMA ShrinkBeginOwned ==
    ASSUME NoCollision, BaseInv, Viewed, Owned, ShrinkBegin
    PROVE  Owned'
<1>1. /\ shrinking = NoCache /\ members # <<>> /\ deleteNode(Len(members) - 1)
      /\ UNCHANGED <<alive, out_key>>
  BY DEF ShrinkBegin, passing
<1>2. nodes = Len(members) /\ nodes \in Nat /\ members \in Seq(Cache)
  BY <1>1, RingPlaces
<1>3. HistoryIndependent'
  <2>1. Len(members) # 0
    BY <1>1, <1>2, EmptySeq
  <2>2. Len(members) - 1 \in 0 .. (nodes - 1)
    BY <1>2, <2>1
  <2> QED
    BY <1>1, <1>2, <2>2, DeleteNodeRing DEF Owned
<1>4. \A d \in Cache : out_key[d] = {}
  BY <1>1, OnlySender, ServerAssumption
<1>5. alive \subseteq Cache
  BY BaseParts DEF LifeType
<1> QED
  BY <1>1, <1>3, <1>4, <1>5, OwnedMaster

\* A shrink ends, with nobody left who sends.
LEMMA ShrinkEndOwned ==
    ASSUME BaseInv, Viewed, Owned, ShrinkEnd
    PROVE  Owned'
<1>1. shrinking \notin alive /\ UNCHANGED <<nodes, key2Index, alive, out_key>>
  BY DEF ShrinkEnd, passing, ringVars
<1>2. HistoryIndependent'
  BY <1>1 DEF Owned, HistoryIndependent
<1>3. \A d \in Cache : out_key[d] = {}
  BY <1>1, OnlySender
<1>4. alive \subseteq Cache
  BY BaseParts DEF LifeType
<1> QED
  BY <1>1, <1>2, <1>3, <1>4, OwnedMaster

\* What a dying server plans is what the master would say.
LEMMA TargetIsRoute ==
    ASSUME BaseInv, Viewed, HistoryIndependent, NEW c \in alive, status_[c] = "K",
           cache_list[c] # <<>>, NEW k \in Key
    PROVE  Routed(k) /\ Target(c, k) = Route(k)
<1>1. c \in Cache
  BY BaseParts DEF LifeType
<1>2. cache_list[c] = Ring
  BY <1>1, SenderRetires
<1> QED
  BY <1>2, PlaceInRing DEF Target, idx, cache_hash

\* cache_pass plans.
LEMMA PassPlanOwned ==
    ASSUME BaseInv, Viewed, Owned, NEW c \in Cache, PassPlan(c)
    PROVE  Owned'
<1> DEFINE plan == {[key |-> k, to |-> Target(c, k)] : k \in Stored(c)}
<1>1. /\ c \in alive /\ status_[c] = "K"
      /\ UNCHANGED <<nodes, key2Index, members, alive>>
  BY DEF PassPlan, At, master, ringVars
<1>2. CASE cache_list[c] = <<>>
  <2>1. UNCHANGED out_key
    BY <1>2 DEF PassPlan
  <2> QED
    BY <1>1, <2>1, OwnedFrame
<1>3. CASE cache_list[c] # <<>>
  <2>1. out_key' = [out_key EXCEPT ![c] = plan]
    BY <1>3 DEF PassPlan
  <2>2. /\ out_key'[c] = plan
        /\ \A d \in Cache \ {c} : out_key'[d] = out_key[d]
    BY <2>1, BaseParts DEF PassType
  <2>3. \A k : (Routed(k) <=> Routed(k)') /\ Route(k)' = Route(k)
    BY <1>1 DEF Routed, Route
  <2>4. ASSUME NEW e \in plan
        PROVE  Routed(e.key) /\ e.to = Route(e.key)
    <3>1. PICK k \in Key : e = [key |-> k, to |-> Target(c, k)]
      BY <2>4 DEF Stored
    <3> QED
      BY <1>1, <1>3, <3>1, TargetIsRoute DEF Owned
  <2>5. HistoryIndependent'
    BY <1>1 DEF Owned, HistoryIndependent
  <2>6. ASSUME NEW d \in alive', NEW e \in out_key'[d]
        PROVE  Routed(e.key)' /\ e.to = Route(e.key)'
    <3>1. d \in alive /\ d \in Cache
      BY <1>1, BaseParts DEF LifeType
    <3>2. Routed(e.key) /\ e.to = Route(e.key)
      <4> HIDE DEF plan
      <4>1. CASE d = c
        BY <2>2, <2>4, <2>6, <4>1
      <4>2. CASE d # c
        <5>1. e \in out_key[d]
          BY <2>2, <2>6, <3>1, <4>2
        <5> QED
          BY <3>1, <5>1, Zenon DEF Owned
      <4> QED
        BY <4>1, <4>2
    <3> QED
      BY <2>3, <3>2, Zenon
  <2> QED
    BY <2>5, <2>6, Zenon DEF Owned
<1> QED
  BY <1>2, <1>3

\* A process ends, and its plans with it.
LEMMA DiesOwned ==
    ASSUME BaseInv, Owned, NEW c \in Cache, Dies(c), UNCHANGED master
    PROVE  Owned'
<1>1. /\ alive' = alive \ {c} /\ out_key' = [out_key EXCEPT ![c] = {}]
      /\ UNCHANGED <<nodes, key2Index, members>>
  BY DEF Dies, master, ringVars
<1>2. alive \subseteq Cache /\ \A d \in Cache \ {c} : out_key'[d] = out_key[d]
  BY <1>1, BaseParts DEF LifeType, PassType
<1> QED
  BY <1>1, <1>2, OwnedFrame

\* A backup joins, with no plans.
LEMMA StandByOwned ==
    ASSUME BaseInv, Owned, NEW c \in Cache, StandBy(c)
    PROVE  Owned'
<1>1. /\ c \notin started /\ alive' = alive \cup {c}
      /\ UNCHANGED <<nodes, key2Index, members, out_key>>
  BY DEF StandBy, master, ringVars, passing
<1>2. out_key[c] = {}
  BY <1>1, BaseParts DEF Idle, LifeType
<1> QED
  BY <1>1, <1>2, OwnedFrame

\* cache_pass sends one of the keys it planned.
LEMMA PassSendOwned ==
    ASSUME BaseInv, Owned, NEW c \in Cache, PassSend(c)
    PROVE  Owned'
<1>1. PICK e \in out_key[c] : out_key' = [out_key EXCEPT ![c] = @ \ {e}]
  BY DEF PassSend
<1>2. UNCHANGED <<nodes, key2Index, members, alive>>
  BY DEF PassSend, master, ringVars
<1>3. \A d \in Cache : out_key'[d] \subseteq out_key[d]
  BY <1>1, BaseParts DEF PassType
<1>4. alive \subseteq Cache
  BY BaseParts DEF LifeType
<1> QED
  BY <1>2, <1>3, <1>4, OwnedFrame

\* Every step keeps the plans right, as long as it disturbs nothing.
LEMMA NextOwner ==
    ASSUME NoCollision, BaseInv, ViewInv, OwnerInv, [Next]_vars
    PROVE  OwnerInv'
<1> SUFFICES ASSUME Calm'
             PROVE  Owned'
  BY Zenon DEF OwnerInv
<1>1. CASE UNCHANGED vars
  <2>1. UNCHANGED <<nodes, key2Index, members, alive, out_key, replaced, disturbed>>
    BY <1>1 DEF vars, master, ringVars, passing, history
  <2>2. Calm
    BY <2>1, Zenon DEF Calm
  <2> QED
    BY <2>1, <2>2, OwnedFrame DEF OwnerInv
<1>2. CASE Next
  <2>1. /\ Calm /\ \A p, r \in Cache : ~Failover(p, r)
        /\ \A c \in Cache : Join(c) \/ Lost(c) \/ Fail(c) => shrinking = NoCache
        /\ ShrinkBegin => ToSet(members) \subseteq alive
    BY <1>2, CalmBefore
  <2>2. Viewed /\ Owned
    BY <2>1 DEF ViewInv, OwnerInv
  <2>3. ASSUME NEW c \in Cache, Tick(c)
        PROVE  Owned'
    <3>1. Initial(c) \/ ReadNew(c) \/ ReadDelete(c) \/ ReadKill(c) \/ KillEnd(c)
      BY <2>2, <2>3, NoOtherMessages DEF Tick
    <3>2. UNCHANGED <<nodes, key2Index, members, alive, out_key>>
      BY <3>1 DEF Initial, ReadNew, ReadDelete, ReadKill, KillEnd, master, ringVars, passing
    <3> QED
      BY <2>2, <3>2, OwnedFrame
  <2>4. ASSUME NEW c \in Cache, Pass(c)
        PROVE  Owned'
    <3>1. CASE PassRefused(c) \/ PassExit(c)
      BY <2>2, <3>1, DiesOwned DEF PassRefused, PassExit
    <3>2. CASE PassListen(c) \/ PassReceive(c)
      <4>1. UNCHANGED <<nodes, key2Index, members, alive, out_key>>
        BY <3>2 DEF PassListen, PassReceive, master, ringVars
      <4> QED
        BY <2>2, <4>1, OwnedFrame
    <3> QED
      BY <2>2, <2>4, <3>1, <3>2, PassPlanOwned, PassSendOwned DEF Pass
  <2>5. ASSUME NEW c \in Cache, Join(c) \/ StandBy(c) \/ Lost(c)
        PROVE  Owned'
    BY <2>1, <2>2, <2>5, JoinOwned, StandByOwned, LostOwned
  <2>6. ASSUME NEW c \in Cache, Fail(c)
        PROVE  Owned'
    BY <2>2, <2>6, DiesOwned DEF Fail
  <2>7. ASSUME NEW c \in Cache, NEW k \in Key, ClientPut(c, k)
        PROVE  Owned'
    <3>1. UNCHANGED <<nodes, key2Index, members, alive, out_key>>
      BY <2>7 DEF ClientPut, master, ringVars
    <3> QED
      BY <2>2, <3>1, OwnedFrame
  <2> QED
    BY <1>2, <2>1, <2>2, <2>3, <2>4, <2>5, <2>6, <2>7, NoOtherMessages,
       ShrinkBeginOwned, ShrinkEndOwned DEF Next
<1> QED
  BY <1>1, <1>2

\* At the start the ring is empty and nothing is planned.
LEMMA InitOwner == Init => OwnerInv
<1> SUFFICES ASSUME Init
             PROVE  Owned
  BY DEF OwnerInv
<1>1. alive = {} /\ HistoryIndependent
  BY DEF Init, RingInit, HistoryIndependent
<1> QED
  BY <1>1 DEF Owned

\* A dying server, which builds its ring from nothing and for the list it has
\* read (cal_hash_key), sends every key to the server the master now names for
\* it, for every hash function under which no two shards share a point.
THEOREM ServersSendsToOwner ==
    ASSUME NoCollision
    PROVE  Spec => []SendsToOwner
<1>1. BaseInv /\ ViewInv /\ OwnerInv /\ [Next]_vars => OwnerInv'
  BY NextOwner
<1>2. OwnerInv => SendsToOwner
  BY Zenon DEF OwnerInv, Owned, SendsToOwner, Calm
<1> QED
  BY <1>1, <1>2, AlwaysView, InitOwner, PTL DEF Spec

-----------------------------------------------------------------------------
(***************************************************************************)
(* The newest value of every key.                                          *)
(***************************************************************************)

\* Server d has the value v of k, or will get it.
Has(d, k, v) == (v # 0 /\ store[d][k] = v) \/ [key |-> k, val |-> v] \in conn[d]

\* It has, or will get, one.
HasOne(d, k) == store[d][k] # 0 \/ Awaits(d, k)

\* A server that is retired and gone has left its keys to others.
Successor == shrinking \in Cache \ alive => Ring # <<>>

\* Of the servers that have k, the one that joined last has the newest value:
\* it was the owner later.
Stacked ==
    \A k \in Key \ (orphaned \cup evicted) : \A i, j \in 1 .. Len(Ring) : \A u, w \in Value :
        i < j /\ Has(Ring[i], k, u) /\ Has(Ring[j], k, w) => u <= w

\* A server that has k was its owner when it was the last of the ring.
Placed ==
    \A k \in Key \ (orphaned \cup evicted) : \A j \in 1 .. Len(Ring) : \A w \in Value :
        Has(Ring[j], k, w) => Owner(RingOf(j), Hash[k]) = j - 1

\* What the server that is retired has is newer than what anyone but the
\* owner has.
Newer ==
    shrinking # NoCache =>
        \A k \in Key \ (orphaned \cup evicted) : \A i \in 1 .. Len(Ring) : \A u, w \in Value :
            Has(shrinking, k, w) /\ i # Place(k) /\ Has(Ring[i], k, u) => u <= w

\* Where the newest value of a key is: a key that the dying server has is with it
\* or, once sent, with the owner; any other key is in the ring.
InRing(k) == newest[k] # 0 => \E j \in 1 .. Len(Ring) : Holds(Ring[j], k)
HandedOver(k) == IF Sent(shrinking, k) THEN Holds(Route(k), k) ELSE Holds(shrinking, k)
Found(k) ==
    IF shrinking = NoCache THEN InRing(k)
    ELSE IF HasOne(shrinking, k) THEN HandedOver(k) ELSE InRing(k)

\* The keys whose newest value is lost, or hidden.
Lossy == late \cup early \cup orphaned \cup evicted \cup unsent

Latest == \A k \in Key \ Lossy : Found(k)

\* What holds of the keys as long as nothing disturbed the servers.
Kept == Successor /\ Stacked /\ Placed /\ Newer /\ Latest

KeepInv == Calm => Kept

\* The values that a server has are no newer than the newest one; it has none that
\* is empty, unless the key was dropped; and if all it has is the newest one, that
\* is what it holds.
LEMMA HeldValues ==
    ASSUME BaseInv, NEW d \in Cache, NEW k \in Key
    PROVE  /\ newest[k] \in Nat /\ newest[k] \in Value
           /\ \A v \in Value : Has(d, k, v) => v <= newest[k] /\ (k \notin evicted => v \in Nat \ {0})
           /\ HasOne(d, k) <=> \E v \in Value : Has(d, k, v)
           /\ newest[k] # 0 /\ Holds(d, k) => Has(d, k, newest[k])
           /\ HasOne(d, k) /\ (\A v \in Value : Has(d, k, v) => v = newest[k]) => Holds(d, k)
<1>1. /\ store[d][k] \in Value /\ store[d][k] <= newest[k]
      /\ store[d][k] = Blank => k \in evicted
      /\ newest[k] \in 0 .. MaxPuts /\ MaxPuts \in Nat
  BY BaseParts, ServerAssumption DEF PassType, HistoryType, Numbered
<1>2. newest[k] \in Nat /\ newest[k] \in Value
  BY <1>1 DEF Value, Blank
<1>3. ASSUME NEW m \in conn[d]
      PROVE  /\ m.val \in Value /\ m.val <= newest[m.key] /\ m.val # 0
             /\ m.val = Blank => m.key \in evicted
             /\ m = [key |-> m.key, val |-> m.val]
  BY BaseParts DEF PassType, Numbered
<1>4. ASSUME NEW v \in Value, Has(d, k, v)
      PROVE  v <= newest[k] /\ v # 0 /\ (v = Blank => k \in evicted)
  <2>1. CASE v # 0 /\ store[d][k] = v
    BY <1>1, <2>1
  <2>2. CASE [key |-> k, val |-> v] \in conn[d]
    <3>1. PICK m \in conn[d] : m = [key |-> k, val |-> v]
      BY <2>2
    <3>2. m.key = k /\ m.val = v
      BY <3>1
    <3> QED
      BY <1>3, <3>2
  <2> QED
    BY <1>4, <2>1, <2>2 DEF Has
<1>5. \A v \in Value : Has(d, k, v) => v <= newest[k] /\ (k \notin evicted => v \in Nat \ {0})
  BY <1>1, <1>4 DEF Value, Blank
<1>6. ASSUME NEW m \in conn[d], m.key = k
      PROVE  Has(d, k, m.val) /\ m.val \in Value
  BY <1>3, <1>6 DEF Has
<1>7. HasOne(d, k) <=> \E v \in Value : Has(d, k, v)
  <2>1. CASE store[d][k] # 0
    BY <1>1, <2>1 DEF HasOne, Has
  <2>2. CASE store[d][k] = 0
    <3>1. Awaits(d, k) => \E v \in Value : Has(d, k, v)
      BY <1>6 DEF Awaits
    <3>2. ASSUME NEW v \in Value, Has(d, k, v)
          PROVE  Awaits(d, k)
      <4>1. [key |-> k, val |-> v] \in conn[d] /\ [key |-> k, val |-> v].key = k
        BY <2>2, <3>2 DEF Has
      <4> QED
        BY <4>1, Zenon DEF Awaits
    <3> QED
      BY <2>2, <3>1, <3>2 DEF HasOne
  <2> QED
    BY <2>1, <2>2
<1>8. newest[k] # 0 /\ Holds(d, k) => Has(d, k, newest[k])
  BY DEF Holds, Has
<1>9. ASSUME HasOne(d, k), \A v \in Value : Has(d, k, v) => v = newest[k]
      PROVE  Holds(d, k)
  <2>1. CASE Awaits(d, k)
    <3>1. PICK m \in conn[d] : m.key = k
      BY <2>1 DEF Awaits
    <3>2. m = [key |-> k, val |-> newest[k]]
      BY <1>3, <1>6, <1>9, <3>1
    <3> QED
      BY <2>1, <3>1, <3>2 DEF Holds
  <2>2. CASE ~Awaits(d, k)
    BY <1>1, <1>9, <2>2 DEF Holds, HasOne, Has
  <2> QED
    BY <2>1, <2>2
<1> QED
  BY <1>2, <1>5, <1>7, <1>8, <1>9

\* The server to which a dying one has sent a key is there.
LEMMA SuccessorRoutes ==
    ASSUME BaseInv, Viewed, HistoryIndependent, Successor, shrinking # NoCache,
           NEW k \in Key, Sent(shrinking, k)
    PROVE  /\ Ring # <<>> /\ Route(k) \in Cache
           /\ Place(k) \in 1 .. Len(Ring) /\ Route(k) = Ring[Place(k)]
<1>1. shrinking \in Cache
  BY RingPlaces
<1>2. Ring # <<>>
  <2>1. CASE shrinking \in alive
    <3>1. thread[shrinking] = "send"
      BY <2>1 DEF Sent
    <3>2. status_[shrinking] = "K" /\ cache_list[shrinking] # <<>>
      BY <1>1, <3>1, BaseParts DEF Sending
    <3> QED
      BY <1>1, <2>1, <3>2, SenderRetires
  <2>2. CASE shrinking \notin alive
    BY <1>1, <2>2 DEF Successor
  <2> QED
    BY <2>1, <2>2
<1> QED
  BY <1>2, PlaceInRing, RingPlaces

\* A step after which no server has a value it did not have before.
LEMMA OrderFrame ==
    ASSUME BaseInv, Viewed, Stacked, Placed, Newer,
           UNCHANGED <<members, shrinking, key2Index>>,
           orphaned \subseteq orphaned', evicted \subseteq evicted',
           \A d \in Cache : \A l \in Key \ (orphaned' \cup evicted') : \A v \in Value :
               Has(d, l, v)' => Has(d, l, v)
    PROVE  Stacked' /\ Placed' /\ Newer'
<1>1. Ring' = Ring /\ \A l : Place(l)' = Place(l)
  BY DEF Ring, Place
<1>2. /\ \A i \in 1 .. Len(Ring) : Ring[i] \in Cache
      /\ shrinking # NoCache => shrinking \in Cache
  BY RingPlaces
<1>3. ASSUME NEW i \in 1 .. Len(Ring), NEW l \in Key \ (orphaned' \cup evicted'),
             NEW v \in Value, Has(Ring[i], l, v)'
      PROVE  Has(Ring[i], l, v)
  BY <1>1, <1>2, <1>3
<1>4. Stacked'
  <2> SUFFICES ASSUME NEW l \in Key \ (orphaned' \cup evicted'), NEW i \in 1 .. Len(Ring),
                      NEW j \in 1 .. Len(Ring), NEW u \in Value, NEW w \in Value,
                      i < j, Has(Ring[i], l, u)', Has(Ring[j], l, w)'
               PROVE  u <= w
    BY <1>1 DEF Stacked
  <2>1. Has(Ring[i], l, u) /\ Has(Ring[j], l, w)
    BY <1>3
  <2> QED
    BY <2>1 DEF Stacked
<1>5. Placed'
  <2> SUFFICES ASSUME NEW l \in Key \ (orphaned' \cup evicted'), NEW j \in 1 .. Len(Ring),
                      NEW w \in Value, Has(Ring[j], l, w)'
               PROVE  Owner(RingOf(j), Hash[l]) = j - 1
    BY <1>1 DEF Placed
  <2>1. Has(Ring[j], l, w)
    BY <1>3
  <2> QED
    BY <2>1 DEF Placed
<1>6. Newer'
  <2> SUFFICES ASSUME shrinking # NoCache, NEW l \in Key \ (orphaned' \cup evicted'),
                      NEW i \in 1 .. Len(Ring), NEW u \in Value, NEW w \in Value,
                      Has(shrinking, l, w)', i # Place(l), Has(Ring[i], l, u)'
               PROVE  u <= w
    BY <1>1 DEF Newer
  <2>1. Has(shrinking, l, w) /\ Has(Ring[i], l, u)
    BY <1>2, <1>3
  <2> QED
    BY <2>1 DEF Newer
<1> QED
  BY <1>4, <1>5, <1>6

\* A step that leaves a key with all who hold it, and what has been sent of it.
LEMMA FoundFrame ==
    ASSUME BaseInv, Viewed, HistoryIndependent, Successor, NEW k \in Key, Found(k),
           UNCHANGED <<members, shrinking, key2Index>>, newest'[k] = newest[k],
           \A d \in Cache : Holds(d, k) => Holds(d, k)',
           shrinking # NoCache =>
               /\ HasOne(shrinking, k)' <=> HasOne(shrinking, k)
               /\ HasOne(shrinking, k) => (Sent(shrinking, k)' <=> Sent(shrinking, k))
    PROVE  Found(k)'
<1>1. /\ Ring' = Ring /\ Route(k)' = Route(k)
      /\ \A i \in 1 .. Len(Ring) : Ring[i] \in Cache
      /\ shrinking # NoCache => shrinking \in Cache
  BY RingPlaces DEF Ring, Route
<1>2. InRing(k) => InRing(k)'
  <2> SUFFICES ASSUME newest[k] # 0, InRing(k)
               PROVE  \E j \in 1 .. Len(Ring) : Holds(Ring[j], k)'
    BY <1>1 DEF InRing
  <2>1. PICK j \in 1 .. Len(Ring) : Holds(Ring[j], k)
    BY DEF InRing
  <2>2. Holds(Ring[j], k)'
    BY <1>1, <2>1
  <2> QED
    BY <2>2
<1>3. ASSUME shrinking # NoCache, HasOne(shrinking, k), HandedOver(k)
      PROVE  HandedOver(k)'
  <2>1. CASE Sent(shrinking, k)
    <3>1. Route(k) \in Cache /\ Holds(Route(k), k)
      BY <1>3, <2>1, SuccessorRoutes DEF HandedOver
    <3>2. Holds(Route(k), k)'
      BY <1>1, <3>1
    <3> QED
      BY <1>3, <2>1, <3>2 DEF HandedOver
  <2>2. CASE ~Sent(shrinking, k)
    <3>1. Holds(shrinking, k)'
      BY <1>1, <1>3, <2>2 DEF HandedOver
    <3> QED
      BY <1>3, <2>2, <3>1 DEF HandedOver
  <2> QED
    BY <2>1, <2>2
<1> QED
  BY <1>1, <1>2, <1>3 DEF Found


\* A step that moves no key that is not lost: no server gets a value, all that is
\* held stays, and so does what has been sent.
LEMMA KeptStep ==
    ASSUME BaseInv, Viewed, HistoryIndependent, Kept, Successor',
           UNCHANGED <<members, shrinking, key2Index, newest>>,
           orphaned \subseteq orphaned', evicted \subseteq evicted', Lossy \subseteq Lossy',
           \A d \in Cache : \A l \in Key \ (orphaned' \cup evicted') : \A v \in Value :
               Has(d, l, v)' => Has(d, l, v),
           \A l \in Key \ Lossy' :
               /\ \A d \in Cache : Holds(d, l) => Holds(d, l)'
               /\ shrinking # NoCache =>
                     /\ HasOne(shrinking, l)' <=> HasOne(shrinking, l)
                     /\ HasOne(shrinking, l) => (Sent(shrinking, l)' <=> Sent(shrinking, l))
    PROVE  Kept'
<1>1. Stacked' /\ Placed' /\ Newer'
  BY OrderFrame DEF Kept
<1>2. Latest'
  <2> SUFFICES ASSUME NEW k \in Key, k \notin Lossy'
               PROVE  Found(k)'
    BY DEF Latest
  <2>1. Found(k)
    BY DEF Kept, Latest
  <2> QED
    BY <2>1, FoundFrame DEF Kept
<1> QED
  BY <1>1, <1>2 DEF Kept

\* A step that changes no key and no list.
LEMMA KeptFrame ==
    ASSUME BaseInv, Viewed, HistoryIndependent, Kept, Successor',
           UNCHANGED <<members, shrinking, key2Index, store, conn, newest, late, early,
                       orphaned, evicted, unsent>>,
           shrinking # NoCache => \A k \in Key : HasOne(shrinking, k) =>
               (Sent(shrinking, k)' <=> Sent(shrinking, k))
    PROVE  Kept'
<1>1. \A d \in Cache, l \in Key, v \in Value : Has(d, l, v)' <=> Has(d, l, v)
  BY DEF Has
<1>2. \A d \in Cache, l \in Key : Holds(d, l)' <=> Holds(d, l)
  BY DEF Holds, Awaits
<1>3. \A d, l : HasOne(d, l)' <=> HasOne(d, l)
  BY DEF HasOne, Awaits
<1>4. Lossy' = Lossy
  BY DEF Lossy
<1> QED
  BY <1>1, <1>2, <1>3, <1>4, KeptStep

\* Above the owner of a key nobody has it, and the owner may have it.
LEMMA AboveOwner ==
    ASSUME NoCollision, BaseInv, Viewed, HistoryIndependent, Placed, Ring # <<>>,
           NEW k \in Key \ (orphaned \cup evicted)
    PROVE  /\ \A j \in 1 .. Len(Ring) : \A w \in Value : Has(Ring[j], k, w) => j <= Place(k)
           /\ Owner(RingOf(Place(k)), Hash[k]) = Place(k) - 1
<1>1. /\ Place(k) \in 1 .. Len(Ring) /\ Owner(RingOf(Len(Ring)), Hash[k]) = Place(k) - 1
      /\ Len(Ring) \in Nat /\ Hash[k] \in HashSpace
  BY PlaceInRing, RingPlaces, ServerAssumption
<1> DEFINE p == Place(k)
           n == Len(Ring)
<1>2. ASSUME NEW j \in 1 .. n, p - 1 < j
      PROVE  Owner(RingOf(j), Hash[k]) = p - 1
  <2> HIDE DEF p, n
  <2>1. Owner(RingOf(n), Hash[k]) = p - 1
    BY <1>1 DEF p, n
  <2>2. Owner(RingOf(n), Hash[k]) < j
    BY <1>2, <2>1
  <2>3. n \in Nat
    BY <1>1 DEF n
  <2> QED
    BY <1>1, <2>1, <2>2, <2>3, OwnerStays
<1>3. ASSUME NEW j \in 1 .. n, NEW w \in Value, Has(Ring[j], k, w), j > p
      PROVE  FALSE
  <2>1. Owner(RingOf(j), Hash[k]) = p - 1
    BY <1>1, <1>2, <1>3
  <2>2. Owner(RingOf(j), Hash[k]) = j - 1
    BY <1>3 DEF Placed
  <2> QED
    BY <1>1, <1>3, <2>1, <2>2
<1>4. p - 1 < p
  BY <1>1
<1> QED
  BY <1>1, <1>2, <1>3, <1>4

\* The owner of k gets a value that is at least as new as all others.
LEMMA OwnerGets ==
    ASSUME NoCollision, BaseInv, Viewed, HistoryIndependent, Stacked, Placed, Newer,
           NEW k \in Key, Ring # <<>>, NEW v \in Value,
           UNCHANGED <<members, shrinking, key2Index>>,
           orphaned \subseteq orphaned', evicted \subseteq evicted',
           \A d \in Cache : \A l \in Key \ (orphaned' \cup evicted') : \A w \in Value :
               Has(d, l, w)' => Has(d, l, w) \/ (d = Route(k) /\ l = k /\ w = v),
           k \notin orphaned \cup evicted =>
               \A i \in 1 .. Len(Ring) : \A u \in Value :
                   i # Place(k) /\ Has(Ring[i], k, u) => u <= v
    PROVE  Stacked' /\ Placed' /\ Newer' /\ Ring' = Ring
<1>1. /\ Place(k) \in 1 .. Len(Ring) /\ Route(k) = Ring[Place(k)]
      /\ Len(Ring) \in Nat
      /\ \A i \in 1 .. Len(Ring) : Ring[i] \in Cache
      /\ \A i, j \in 1 .. Len(Ring) : Ring[i] = Ring[j] => i = j
      /\ shrinking # NoCache => /\ shrinking \in Cache
                                /\ \A i \in 1 .. Len(Ring) : Ring[i] # shrinking
  BY PlaceInRing, RingPlaces
<1>2. Ring' = Ring /\ \A l : Place(l)' = Place(l)
  BY DEF Ring, Place
<1>3. ASSUME NEW i \in 1 .. Len(Ring), NEW l \in Key \ (orphaned' \cup evicted'),
             NEW w \in Value, Has(Ring[i], l, w)'
      PROVE  Has(Ring[i], l, w) \/ (i = Place(k) /\ l = k /\ w = v)
  <2>1. PICK d \in Cache : d = Ring[i] /\ d = Ring'[i]
    BY <1>1, <1>2
  <2>2. Has(d, l, w)'
    BY <1>3, <2>1 DEF Has
  <2>3. Has(d, l, w) \/ (d = Route(k) /\ l = k /\ w = v)
    BY <2>2
  <2> QED
    BY <1>1, <2>1, <2>3
<1>4. k \notin orphaned \cup evicted =>
         /\ \A j \in 1 .. Len(Ring) : \A w \in Value : Has(Ring[j], k, w) => j <= Place(k)
         /\ Owner(RingOf(Place(k)), Hash[k]) = Place(k) - 1
  BY AboveOwner
<1>5. Stacked'
  <2> SUFFICES ASSUME NEW l \in Key \ (orphaned' \cup evicted'), NEW i \in 1 .. Len(Ring),
                      NEW j \in 1 .. Len(Ring), NEW u \in Value, NEW w \in Value,
                      i < j, Has(Ring[i], l, u)', Has(Ring[j], l, w)'
               PROVE  u <= w
    BY <1>2 DEF Stacked
  <2>1. l \in Key \ (orphaned \cup evicted)
    OBVIOUS
  <2>2. /\ Has(Ring[i], l, u) \/ (i = Place(k) /\ l = k /\ u = v)
        /\ Has(Ring[j], l, w) \/ (j = Place(k) /\ l = k /\ w = v)
    BY <1>3
  <2>3. CASE Has(Ring[i], l, u) /\ Has(Ring[j], l, w)
    BY <2>1, <2>3 DEF Stacked
  <2>4. CASE Has(Ring[i], l, u) /\ j = Place(k) /\ l = k /\ w = v
    <3>1. i # Place(k)
      BY <1>1, <2>4
    <3> QED
      BY <2>1, <2>4, <3>1
  <2>5. CASE i = Place(k) /\ l = k /\ u = v
    <3>1. j # Place(k)
      BY <1>1, <2>5
    <3>2. j <= Place(k)
      BY <1>4, <2>1, <2>2, <2>5, <3>1
    <3> QED
      BY <1>1, <2>5, <3>1, <3>2
  <2> QED
    BY <2>2, <2>3, <2>4, <2>5
<1>6. Placed'
  <2> SUFFICES ASSUME NEW l \in Key \ (orphaned' \cup evicted'), NEW j \in 1 .. Len(Ring),
                      NEW w \in Value, Has(Ring[j], l, w)'
               PROVE  Owner(RingOf(j), Hash[l]) = j - 1
    BY <1>2 DEF Placed
  <2>1. l \in Key \ (orphaned \cup evicted)
    OBVIOUS
  <2>2. CASE Has(Ring[j], l, w)
    BY <2>1, <2>2 DEF Placed
  <2>3. CASE j = Place(k) /\ l = k
    BY <1>4, <2>1, <2>3
  <2> QED
    BY <1>3, <2>2, <2>3
<1>7. Newer'
  <2> SUFFICES ASSUME shrinking # NoCache, NEW l \in Key \ (orphaned' \cup evicted'),
                      NEW i \in 1 .. Len(Ring), NEW u \in Value, NEW w \in Value,
                      Has(shrinking, l, w)', i # Place(l), Has(Ring[i], l, u)'
               PROVE  u <= w
    BY <1>2 DEF Newer
  <2>1. Has(shrinking, l, w)
    BY <1>1
  <2>2. Has(Ring[i], l, u)
    BY <1>3
  <2> QED
    BY <2>1, <2>2 DEF Newer
<1> QED
  BY <1>2, <1>5, <1>6, <1>7

\* A primary joins, and has no keys.
LEMMA JoinKept ==
    ASSUME BaseInv, Viewed, Kept, NEW c \in Cache, Join(c), shrinking = NoCache
    PROVE  Kept'
<1>1. /\ members' = Append(members, c) /\ c \notin started
      /\ UNCHANGED <<shrinking, store, conn, newest, late, early, orphaned, evicted, unsent>>
  BY DEF Join, passing, puts
<1>2. Ring = members /\ Ring' = Append(members, c) /\ members \in Seq(Cache)
  BY <1>1, RingPlaces DEF Ring
<1> PICK n \in Nat : n = Len(members)
  BY <1>2
<1>3. /\ Len(Ring) = n /\ Len(Ring') = n + 1
      /\ \A i \in 1 .. n : Ring'[i] = Ring[i]
      /\ Ring'[n + 1] = c
  BY <1>2
<1>4. conn[c] = {} /\ \A k \in Key : store[c][k] = 0
  BY <1>1, BaseParts DEF Idle, LifeType, Unstarted
<1>5. ASSUME NEW i \in 1 .. (n + 1), NEW k \in Key, NEW v \in Value, Has(Ring[i], k, v)'
      PROVE  i \in 1 .. n /\ Has(Ring[i], k, v)
  <2>1. (v # 0 /\ store[Ring'[i]][k] = v) \/ [key |-> k, val |-> v] \in conn[Ring'[i]]
    BY <1>1, <1>5 DEF Has
  <2>2. i # n + 1
    BY <1>3, <1>4, <2>1
  <2>3. i \in 1 .. n
    BY <2>2
  <2> QED
    BY <1>3, <2>1, <2>3 DEF Has
<1>6. Successor' /\ Newer'
  BY <1>1, ServerAssumption DEF Successor, Newer
<1>7. Stacked'
  <2> SUFFICES ASSUME NEW k \in Key \ (orphaned \cup evicted), NEW i \in 1 .. (n + 1),
                      NEW j \in 1 .. (n + 1), NEW u \in Value, NEW w \in Value,
                      i < j, Has(Ring[i], k, u)', Has(Ring[j], k, w)'
               PROVE  u <= w
    BY <1>1, <1>3 DEF Stacked
  <2>1. /\ i \in 1 .. Len(Ring) /\ Has(Ring[i], k, u)
        /\ j \in 1 .. Len(Ring) /\ Has(Ring[j], k, w)
    BY <1>3, <1>5
  <2> QED
    BY <2>1 DEF Kept, Stacked
<1>8. Placed'
  <2> SUFFICES ASSUME NEW k \in Key \ (orphaned \cup evicted), NEW j \in 1 .. (n + 1),
                      NEW w \in Value, Has(Ring[j], k, w)'
               PROVE  Owner(RingOf(j), Hash[k]) = j - 1
    BY <1>1, <1>3 DEF Placed
  <2>1. j \in 1 .. Len(Ring) /\ Has(Ring[j], k, w)
    BY <1>3, <1>5
  <2> QED
    BY <2>1 DEF Kept, Placed
<1>9. Latest'
  <2> SUFFICES ASSUME NEW k \in Key \ Lossy, newest[k] # 0
               PROVE  \E j \in 1 .. (n + 1) : Holds(Ring[j], k)'
    BY <1>1, <1>3 DEF Latest, Lossy, Found, InRing
  <2>1. PICK j \in 1 .. n : Holds(Ring[j], k)
    BY <1>1, <1>3 DEF Kept, Latest, Found, InRing
  <2>2. j \in 1 .. (n + 1) /\ Holds(Ring[j], k)'
    BY <1>1, <1>3, <2>1 DEF Holds, Awaits
  <2> QED
    BY <2>2
<1> QED
  BY <1>6, <1>7, <1>8, <1>9 DEF Kept

\* A shrink begins: of the servers that have a key the last has its newest
\* value, so what the last one has is what is to be sent.
LEMMA ShrinkBeginKept ==
    ASSUME BaseInv, Viewed, Kept, ShrinkBegin, ToSet(members) \subseteq alive
    PROVE  Kept'
<1> PICK s : s = Last(members)
  OBVIOUS
<1> PICK n : n = Len(members)
  OBVIOUS
<1>1. /\ shrinking = NoCache /\ members # <<>> /\ shrinking' = s
      /\ UNCHANGED <<members, alive, store, conn, thread, out_key, newest, late, early,
                     orphaned, evicted, unsent>>
  BY DEF ShrinkBegin, passing, puts
<1>2. Ring = members /\ members \in Seq(Cache) /\ \A i \in 1 .. n : Ring[i] \in Cache
  BY <1>1, RingPlaces
<1>3. /\ n \in Nat \ {0} /\ s \in Cache /\ s = Ring[n] /\ s \in alive
  <2>1. s \in ToSet(members)
    BY <1>1, <1>2, FrontElements
  <2>2. n \in Nat \ {0} /\ s \in Cache
    BY <1>1, <1>2, FrontLast
  <2> QED
    BY <1>2, <2>1, <2>2 DEF Last
<1>4. s # NoCache /\ Ring' = Front(members)
  BY <1>1, <1>3, ServerAssumption DEF Ring
<1>5. Len(Ring') = n - 1 /\ \A i \in 1 .. (n - 1) : Ring'[i] = Ring[i]
  BY <1>1, <1>2, <1>4, FrontLast DEF Front
<1>6. \A i \in 1 .. (n - 1), k \in Key, v \in Value : Has(Ring[i], k, v)' => Has(Ring[i], k, v)
  BY <1>1, <1>5 DEF Has
<1>7. \A k \in Key, v \in Value : Has(s, k, v)' <=> Has(s, k, v)
  BY <1>1 DEF Has
<1>8. Len(Ring) = n
  BY <1>2
<1>9. Successor'
  BY <1>1, <1>3, <1>4 DEF Successor
<1>10. Stacked'
  <2> SUFFICES ASSUME NEW k \in Key \ (orphaned \cup evicted), NEW i \in 1 .. (n - 1),
                      NEW j \in 1 .. (n - 1), NEW u \in Value, NEW w \in Value,
                      i < j, Has(Ring[i], k, u)', Has(Ring[j], k, w)'
               PROVE  u <= w
    BY <1>1, <1>5 DEF Stacked
  <2>1. /\ i \in 1 .. Len(Ring) /\ Has(Ring[i], k, u)
        /\ j \in 1 .. Len(Ring) /\ Has(Ring[j], k, w)
    BY <1>3, <1>6, <1>8
  <2> QED
    BY <2>1 DEF Kept, Stacked
<1>11. Placed'
  <2> SUFFICES ASSUME NEW k \in Key \ (orphaned \cup evicted), NEW j \in 1 .. (n - 1),
                      NEW w \in Value, Has(Ring[j], k, w)'
               PROVE  Owner(RingOf(j), Hash[k]) = j - 1
    BY <1>1, <1>5 DEF Placed
  <2>1. j \in 1 .. Len(Ring) /\ Has(Ring[j], k, w)
    BY <1>3, <1>6, <1>8
  <2> QED
    BY <2>1 DEF Kept, Placed
<1>12. Newer'
  <2> SUFFICES ASSUME NEW k \in Key \ (orphaned \cup evicted), NEW i \in 1 .. (n - 1),
                      NEW u \in Value, NEW w \in Value,
                      Has(s, k, w)', Has(Ring[i], k, u)'
               PROVE  u <= w
    BY <1>1, <1>5, Zenon DEF Newer
  <2>1. /\ i \in 1 .. Len(Ring) /\ Has(Ring[i], k, u)
        /\ n \in 1 .. Len(Ring) /\ Has(Ring[n], k, w) /\ i < n
    BY <1>3, <1>6, <1>7, <1>8
  <2> QED
    BY <2>1 DEF Kept, Stacked
<1>13. Latest'
  <2> SUFFICES ASSUME NEW k \in Key \ Lossy
               PROVE  Found(k)'
    BY <1>1 DEF Latest, Lossy
  <2>1. InRing(k)
    BY <1>1 DEF Kept, Latest, Found
  <2>2. /\ HasOne(s, k)' <=> HasOne(s, k)
        /\ \A d : Holds(d, k)' <=> Holds(d, k)
    BY <1>1 DEF HasOne, Holds, Awaits
  <2>3. CASE ~HasOne(s, k)
    <3>1. ASSUME newest[k] # 0
          PROVE  \E j \in 1 .. (n - 1) : Holds(Ring[j], k)'
      <4>1. PICK j \in 1 .. n : Holds(Ring[j], k)
        BY <1>8, <2>1, <3>1 DEF InRing
      <4>2. j # n
        <5>1. Holds(Ring[j], k) => Has(Ring[j], k, newest[k])
          BY <1>2, <3>1, HeldValues
        <5>2. newest[k] \in Value
          BY <1>3, HeldValues
        <5>3. ASSUME j = n
              PROVE  FALSE
          <6>1. Has(s, k, newest[k])
            BY <1>3, <4>1, <5>1, <5>3
          <6> QED
            BY <1>3, <2>3, <5>2, <6>1, HeldValues
        <5> QED
          BY <5>3
      <4>3. j \in 1 .. (n - 1)
        BY <1>3, <4>2
      <4>4. Holds(Ring[j], k)'
        BY <1>1, <1>5, <4>1, <4>3 DEF Holds, Awaits
      <4> QED
        BY <4>3, <4>4
    <3>2. InRing(k)'
      BY <1>1, <1>5, <3>1 DEF InRing
    <3> QED
      BY <1>1, <1>4, <2>2, <2>3, <3>2 DEF Found
  <2>4. CASE HasOne(s, k)
    <3>1. Holds(s, k)
      <4>1. k \notin orphaned \cup evicted
        BY DEF Lossy
      <4>2. newest[k] \in Nat /\ newest[k] \in Value /\ Value \subseteq Int
        BY <1>3, HeldValues, ServerAssumption DEF Value, Blank
      <4>3. \A v \in Value : Has(s, k, v) => v <= newest[k] /\ v # 0 /\ v \in Nat
        BY <1>3, <4>1, HeldValues
      <4>4. PICK v \in Value : Has(s, k, v)
        BY <1>3, <2>4, HeldValues
      <4>5. newest[k] # 0
        BY <4>2, <4>3, <4>4
      <4>6. PICK j \in 1 .. n : Holds(Ring[j], k)
        BY <1>8, <2>1, <4>5 DEF InRing
      <4>7. CASE j = n
        BY <1>3, <4>6, <4>7
      <4>8. CASE j # n
        <5>1. Has(Ring[j], k, newest[k])
          BY <1>2, <4>5, <4>6, HeldValues
        <5>2. \A w \in Value : Has(s, k, w) => newest[k] <= w
          BY <1>3, <1>8, <4>1, <4>2, <4>8, <5>1 DEF Kept, Stacked
        <5>3. \A w \in Value : Has(s, k, w) => w = newest[k]
          BY <4>2, <4>3, <5>2
        <5> QED
          BY <1>3, <2>4, <5>3, HeldValues
      <4> QED
        BY <4>7, <4>8
    <3>2. thread[s] # "send"
      <4>1. status_[s] # "K"
        BY <1>1, <1>3, NoShrink, NobodyDies
      <4> QED
        BY <1>3, <4>1, BaseParts DEF Sending
    <3>3. ~Sent(s, k)'
      BY <1>1, <1>3, <3>2 DEF Sent
    <3>4. Holds(s, k)'
      BY <2>2, <3>1
    <3>5. ~Sent(shrinking, k)' /\ Holds(shrinking, k)'
      BY <1>1, <3>3, <3>4 DEF Sent, Unsent, Holds, Awaits
    <3>6. HandedOver(k)'
      BY <3>5 DEF HandedOver
    <3>7. HasOne(shrinking, k)'
      BY <1>1, <2>2, <2>4 DEF HasOne, Awaits
    <3> QED
      BY <1>1, <1>4, <3>6, <3>7 DEF Found
  <2> QED
    BY <2>3, <2>4
<1> QED
  BY <1>9, <1>10, <1>11, <1>12, <1>13 DEF Kept

\* A shrink ends: what the dying server had is with the owners.
LEMMA ShrinkEndKept ==
    ASSUME BaseInv, Viewed, Owned, Kept, ShrinkEnd
    PROVE  Kept'
<1>1. /\ shrinking \in Cache \ alive /\ members' = Front(members) /\ shrinking' = NoCache
      /\ UNCHANGED <<alive, store, conn, newest, late, early, orphaned, evicted, unsent>>
  BY DEF ShrinkEnd, passing, history, puts
<1>2. shrinking # NoCache
  BY <1>1, ServerAssumption
<1>3. Ring = Front(members) /\ Ring' = Ring
  BY <1>1, <1>2 DEF Ring
<1>4. Successor' /\ Newer'
  BY <1>1, ServerAssumption DEF Successor, Newer
<1>5. Stacked' /\ Placed'
  BY <1>1, <1>3 DEF Kept, Stacked, Placed, Has
<1>6. Latest'
  <2> SUFFICES ASSUME NEW k \in Key \ Lossy, newest[k] # 0
               PROVE  \E j \in 1 .. Len(Ring) : Holds(Ring[j], k)
    BY <1>1, <1>3 DEF Latest, Lossy, Found, InRing, Holds, Awaits
  <2>1. Found(k)
    BY DEF Kept, Latest
  <2>2. CASE ~HasOne(shrinking, k)
    BY <1>2, <2>1, <2>2 DEF Found, InRing
  <2>3. CASE HasOne(shrinking, k)
    <3>1. Sent(shrinking, k) /\ Holds(Route(k), k)
      BY <1>1, <1>2, <2>1, <2>3 DEF Found, HandedOver, Sent
    <3>2. Place(k) \in 1 .. Len(Ring) /\ Route(k) = Ring[Place(k)]
      BY <1>2, <3>1, SuccessorRoutes DEF Kept, Owned
    <3> QED
      BY <3>1, <3>2
  <2> QED
    BY <2>2, <2>3
<1> QED
  BY <1>4, <1>5, <1>6 DEF Kept

\* A server that is retired is a primary that was started.
LEMMA RetiredStarted ==
    ASSUME BaseInv, Viewed, shrinking # NoCache
    PROVE  shrinking \in Cache /\ shrinking \in started /\ shrinking \in PCache
<1>1. members \in Seq(Cache) /\ members # <<>> /\ shrinking = Last(members)
  BY RingSequence DEF Viewed, Retiring
<1>2. shrinking \in ToSet(members)
  BY <1>1, FrontElements
<1> QED
  BY <1>2 DEF Viewed, Listed, Cache

\* A backup joins; it is not the one that is retired.
LEMMA StandByKept ==
    ASSUME BaseInv, Viewed, Owned, Kept, NEW c \in Cache, StandBy(c)
    PROVE  Kept'
<1>1. /\ c \notin started /\ alive' = alive \cup {c}
      /\ UNCHANGED <<members, shrinking, key2Index, store, conn, newest, late, early, orphaned,
                     evicted, unsent, thread, out_key>>
  BY DEF StandBy, master, ringVars, passing, history, puts
<1>2. Ring' = Ring
  BY <1>1 DEF Ring
<1>3. Successor'
  BY <1>1, <1>2 DEF Kept, Successor
<1>4. shrinking # NoCache => \A k \in Key : Sent(shrinking, k)' <=> Sent(shrinking, k)
  BY <1>1, RetiredStarted DEF Sent, Unsent
<1> QED
  BY <1>1, <1>3, <1>4, KeptFrame DEF Owned

\* A step that changes only what a server knows or whether it listens.
LEMMA KnowingKept ==
    ASSUME BaseInv, Viewed, Owned, Kept,
           UNCHANGED <<members, shrinking, key2Index, store, conn, newest, late, early,
                       orphaned, evicted, unsent, alive, out_key>>,
           shrinking # NoCache => (thread'[shrinking] = "send" <=> thread[shrinking] = "send")
    PROVE  Kept'
<1>1. Ring' = Ring
  BY DEF Ring
<1>2. Successor'
  BY <1>1 DEF Kept, Successor
<1>3. shrinking # NoCache => \A k \in Key : Sent(shrinking, k)' <=> Sent(shrinking, k)
  BY DEF Sent, Unsent
<1> QED
  BY <1>2, <1>3, KeptFrame DEF Owned

\* cache_pass opens its port, which sends nothing.
LEMMA PassListenKept ==
    ASSUME BaseInv, Viewed, Owned, Kept, NEW c \in Cache, PassListen(c)
    PROVE  Kept'
<1>1. /\ thread[c] = "loop" /\ thread' = [thread EXCEPT ![c] = "accept"]
      /\ UNCHANGED <<members, shrinking, key2Index, store, conn, newest, late, early, orphaned,
                     evicted, unsent, alive, out_key>>
  BY DEF PassListen, At, master, ringVars, history, puts
<1>2. \A d \in Cache : thread'[d] = "send" <=> thread[d] = "send"
  BY <1>1, BaseParts DEF PassType
<1> QED
  BY <1>1, <1>2, RetiredStarted, KnowingKept

\* A plan has every key of the server in it, and none is on its way to it.
LEMMA PassPlanKept ==
    ASSUME BaseInv, Viewed, Owned, Kept, NEW c \in Cache, PassPlan(c)
    PROVE  Kept'
<1> DEFINE plan == {[key |-> k, to |-> Target(c, k)] : k \in Stored(c)}
<1>1. /\ c \in alive /\ thread[c] = "loop" /\ status_[c] = "K"
      /\ UNCHANGED <<members, shrinking, key2Index, store, conn, newest, late, early, orphaned,
                     evicted, unsent, alive>>
  BY DEF PassPlan, At, master, ringVars, history, puts
<1>2. shrinking = c /\ c # NoCache
  BY <1>1, SenderRetires, ServerAssumption
<1>3. CASE cache_list[c] = <<>>
  <2>1. thread' = [thread EXCEPT ![c] = "ended"] /\ UNCHANGED out_key
    BY <1>3 DEF PassPlan
  <2>2. thread'[c] = "ended"
    BY <2>1, BaseParts DEF PassType
  <2> QED
    BY <1>1, <1>2, <2>1, <2>2, KnowingKept
<1>4. CASE cache_list[c] # <<>>
  <2>1. out_key' = [out_key EXCEPT ![c] = plan]
    BY <1>4 DEF PassPlan
  <2>2. out_key'[c] = plan
    BY <2>1, BaseParts DEF PassType
  <2>3. Ring' = Ring
    BY <1>1 DEF Ring
  <2>4. Successor'
    BY <1>1, <2>3 DEF Kept, Successor
  <2>5. ASSUME NEW k \in Key, HasOne(c, k)
        PROVE  Sent(c, k)' <=> Sent(c, k)
    <3>1. ~Sent(c, k)
      BY <1>1 DEF Sent
    <3> DEFINE e == [key |-> k, to |-> Target(c, k)]
    <3>2. ~Awaits(c, k)
      BY <1>1, BaseParts DEF Planned, Awaits
    <3>3. e \in plan /\ e.key = k
      BY <2>5, <3>2 DEF HasOne, Stored
    <3>4. \E x \in out_key'[c] : x.key = k
      <4> HIDE DEF e, plan
      <4> QED
        BY <2>2, <3>3
    <3>5. ~Sent(c, k)'
      BY <1>1, <3>4 DEF Sent, Unsent
    <3> QED
      BY <3>1, <3>5
  <2>6. \A k \in Key : HasOne(shrinking, k) => (Sent(shrinking, k)' <=> Sent(shrinking, k))
    BY <1>1, <1>2, <2>5
  <2> QED
    BY <1>1, <2>4, <2>6, KeptFrame DEF Owned
<1> QED
  BY <1>3, <1>4

\* A server goes: for nobody to lose a value but that is named, it must not be
\* waited for, or be the one that is retired and is sending.
LEMMA DiesKept ==
    ASSUME BaseInv, Viewed, Owned, Kept, NEW c \in Cache, Dies(c),
           shrinking = NoCache \/ (c \in alive /\ thread[c] = "send"),
           UNCHANGED <<members, shrinking, key2Index, newest, late, early, orphaned, evicted>>
    PROVE  Kept'
<1>1. /\ alive' = alive \ {c} /\ conn' = [conn EXCEPT ![c] = {}]
      /\ thread' = [thread EXCEPT ![c] = "ended"] /\ out_key' = [out_key EXCEPT ![c] = {}]
      /\ unsent' = unsent \cup {e.key : e \in out_key[c]} \cup {m.key : m \in conn[c]}
      /\ store' = store
  BY DEF Dies
<1>2. /\ conn'[c] = {} /\ \A d \in Cache \ {c} : conn'[d] = conn[d]
  BY <1>1, BaseParts DEF PassType
<1>3. shrinking # NoCache => shrinking = c /\ Ring # <<>>
  BY SenderRetires, BaseParts DEF Sending
<1>4. Successor'
  <2>1. Ring' = Ring
    BY DEF Ring
  <2> QED
    BY <1>3, <2>1, ServerAssumption DEF Successor
<1>5. \A d \in Cache, l \in Key, v \in Value : Has(d, l, v)' => Has(d, l, v)
  BY <1>1, <1>2 DEF Has
<1>6. ASSUME NEW l \in Key, l \notin Lossy'
      PROVE  /\ \A d \in Cache : Holds(d, l) => Holds(d, l)'
             /\ shrinking # NoCache =>
                   /\ HasOne(shrinking, l)' <=> HasOne(shrinking, l)
                   /\ HasOne(shrinking, l) => (Sent(shrinking, l)' <=> Sent(shrinking, l))
  <2>1. l \notin unsent'
    BY <1>6 DEF Lossy
  <2>2. ~Awaits(c, l) /\ ~Unsent(c, l)
    BY <1>1, <2>1 DEF Awaits, Unsent
  <2>3. \A d \in Cache : Awaits(d, l)' <=> Awaits(d, l)
    BY <1>2, <2>2 DEF Awaits
  <2>4. ASSUME NEW d \in Cache, Holds(d, l)
        PROVE  Holds(d, l)'
    <3>1. CASE d = c
      BY <1>1, <2>2, <2>3, <2>4, <3>1 DEF Holds
    <3>2. CASE d # c
      BY <1>1, <1>2, <2>3, <2>4, <3>2 DEF Holds
    <3> QED
      BY <3>1, <3>2
  <2>5. \A d \in Cache : HasOne(d, l)' <=> HasOne(d, l)
    BY <1>1, <2>3 DEF HasOne
  <2>6. ASSUME shrinking # NoCache
        PROVE  Sent(shrinking, l)' /\ Sent(shrinking, l)
    <3>1. Sent(c, l)
      BY <1>3, <2>2, <2>6 DEF Sent
    <3>2. c \notin alive'
      BY <1>1
    <3>3. Sent(shrinking, l)'
      BY <1>3, <2>6, <3>2 DEF Sent
    <3> QED
      BY <1>3, <2>6, <3>1, <3>3
  <2>7. shrinking # NoCache => (HasOne(shrinking, l)' <=> HasOne(shrinking, l))
    <3> SUFFICES ASSUME shrinking # NoCache
                 PROVE  HasOne(shrinking, l)' <=> HasOne(shrinking, l)
      OBVIOUS
    <3>1. HasOne(shrinking, l)' <=> HasOne(c, l)'
      BY <1>3 DEF HasOne, Awaits
    <3> QED
      BY <1>3, <2>5, <3>1
  <2> QED
    BY <2>4, <2>6, <2>7
<1>7. Lossy \subseteq Lossy'
  BY <1>1 DEF Lossy
<1> QED
  BY <1>4, <1>5, <1>6, <1>7, KeptStep DEF Owned

\* A server puts the key it has accepted; it had it already, on its way.
LEMMA PassReceiveKept ==
    ASSUME BaseInv, Viewed, Owned, Kept, NEW c \in Cache, PassReceive(c)
    PROVE  Kept'
<1>1. /\ c \in alive /\ thread[c] = "accept"
      /\ conn' = [conn EXCEPT ![c] = {}] /\ thread' = [thread EXCEPT ![c] = "loop"]
      /\ UNCHANGED <<members, shrinking, key2Index, newest, late, early, orphaned, unsent,
                     alive, out_key>>
  BY DEF PassReceive, Listens, At, master, ringVars
<1>2. PICK m \in conn[c] : Put(c, m.key, m.val)
  BY DEF PassReceive
<1>3. /\ m \in [key : Key, val : Value] /\ conn[c] = {m} /\ m.val # 0
  BY <1>2, BaseParts DEF PassType, Planned, Numbered
<1> PICK k \in Key, v \in Value : m = [key |-> k, val |-> v] /\ m.key = k /\ m.val = v
  BY <1>3
<1>4. /\ store' \in [Cache -> [Key -> Value]] /\ store'[c][k] = v
      /\ \A d \in Cache \ {c} : store'[d] = store[d]
      /\ \A l \in Key \ {k} : store'[c][l] = store[c][l] \/ (store'[c][l] = 0 /\ l \in evicted')
      /\ evicted \subseteq evicted'
  BY <1>2, PutParts
<1>5. /\ conn'[c] = {} /\ \A d \in Cache \ {c} : conn'[d] = conn[d]
      /\ \A d \in Cache : thread'[d] = "send" <=> thread[d] = "send"
  BY <1>1, BaseParts DEF PassType
<1>6. Successor'
  BY <1>1 DEF Kept, Successor, Ring
<1>7. ASSUME NEW d \in Cache, NEW l \in Key \ (orphaned' \cup evicted'), NEW w \in Value,
             Has(d, l, w)'
      PROVE  Has(d, l, w)
  <2>1. CASE d # c
    BY <1>4, <1>5, <1>7, <2>1 DEF Has
  <2>2. CASE d = c
    <3>1. w # 0 /\ store'[c][l] = w
      BY <1>5, <1>7, <2>2 DEF Has
    <3>2. CASE l = k
      BY <1>3, <1>4, <2>2, <3>1, <3>2 DEF Has
    <3>3. CASE l # k
      BY <1>4, <2>2, <3>1, <3>3 DEF Has
    <3> QED
      BY <3>2, <3>3
  <2> QED
    BY <2>1, <2>2
<1>8. /\ Awaits(c, k) /\ \A l : l # k => ~Awaits(c, l)
      /\ \A l : ~Awaits(c, l)'
      /\ \A d \in Cache \ {c} : \A l : Awaits(d, l)' <=> Awaits(d, l)
  BY <1>3, <1>5 DEF Awaits
<1>9. ASSUME NEW l \in Key, l \notin Lossy'
      PROVE  /\ \A d \in Cache : Holds(d, l) => Holds(d, l)'
             /\ \A d \in Cache : HasOne(d, l)' <=> HasOne(d, l)
  <2>1. l \notin evicted'
    BY <1>9 DEF Lossy
  <2>2. ASSUME NEW d \in Cache, d # c
        PROVE  (Holds(d, l)' <=> Holds(d, l)) /\ (HasOne(d, l)' <=> HasOne(d, l))
    BY <1>1, <1>4, <1>5, <1>8, <2>2 DEF Holds, HasOne
  <2>3. CASE l = k
    <3>1. Holds(c, l) => v = newest[k]
      BY <1>3, <1>8, <2>3 DEF Holds
    <3>2. Holds(c, l) => Holds(c, l)'
      BY <1>1, <1>4, <1>8, <2>3, <3>1 DEF Holds
    <3>3. HasOne(c, l) /\ HasOne(c, l)'
      BY <1>3, <1>4, <1>8, <2>3 DEF HasOne
    <3> QED
      BY <2>2, <3>2, <3>3
  <2>4. CASE l # k
    <3>1. store'[c][l] = store[c][l]
      BY <1>4, <2>1, <2>4
    <3>2. (Holds(c, l)' <=> Holds(c, l)) /\ (HasOne(c, l)' <=> HasOne(c, l))
      BY <1>1, <1>8, <2>4, <3>1 DEF Holds, HasOne
    <3> QED
      BY <2>2, <3>2
  <2> QED
    BY <2>3, <2>4
<1>10. ASSUME shrinking # NoCache, NEW l \in Key, l \notin Lossy'
       PROVE  /\ HasOne(shrinking, l)' <=> HasOne(shrinking, l)
              /\ Sent(shrinking, l)' <=> Sent(shrinking, l)
  <2>1. PICK s \in Cache : s = shrinking
    BY <1>10, RetiredStarted
  <2>2. HasOne(s, l)' <=> HasOne(s, l)
    BY <1>9, <1>10
  <2>3. HasOne(shrinking, l)' <=> HasOne(s, l)'
    BY <1>1, <2>1 DEF HasOne, Awaits
  <2>4. Sent(shrinking, l)' <=> Sent(shrinking, l)
    BY <1>1, <1>5, <2>1 DEF Sent, Unsent
  <2> QED
    BY <2>1, <2>2, <2>3, <2>4
<1>11. Lossy \subseteq Lossy' /\ orphaned \subseteq orphaned'
  BY <1>1, <1>4 DEF Lossy
<1> QED
  BY <1>1, <1>4, <1>6, <1>7, <1>9, <1>10, <1>11, KeptStep DEF Owned

\* A key is sent: its owner will then have the newest value.
LEMMA PassSendKept ==
    ASSUME NoCollision, BaseInv, Viewed, Owned, Kept, NEW c \in Cache, PassSend(c)
    PROVE  Kept'
<1>1. /\ c \in alive /\ thread[c] = "send"
      /\ UNCHANGED <<members, shrinking, key2Index, newest, late, early, orphaned, evicted,
                     alive, store, thread>>
  BY DEF PassSend, At, master, ringVars, history, puts
<1> DEFINE val(e) == IF store[c][e.key] = 0 THEN Blank ELSE store[c][e.key]
<1>2. PICK e \in out_key[c] :
        /\ out_key' = [out_key EXCEPT ![c] = @ \ {e}]
        /\ IF conn[e.to] = {}
           THEN /\ conn' = [conn EXCEPT ![e.to] = {[key |-> e.key, val |-> val(e)]}]
                /\ UNCHANGED unsent
           ELSE unsent' = unsent \cup {e.key} /\ UNCHANGED conn
  BY DEF PassSend
<1>3. shrinking = c /\ Ring # <<>> /\ c # NoCache
  BY <1>2, OnlySender, ServerAssumption
<1>4. e \in [key : Key, to : Cache] /\ out_key[c] \subseteq [key : Key, to : Cache]
  BY <1>2, BaseParts DEF PassType
<1>5. PICK k \in Key, o \in Cache : e.key = k /\ e.to = o
  BY <1>4
<1>6. o = Route(k) /\ \A x \in out_key[c] : x.key = k => x = e
  <2>1. \A x \in out_key[c] : x.to = Route(x.key)
    BY <1>1 DEF Owned
  <2> QED
    BY <1>2, <1>4, <1>5, <2>1
<1>7. PICK v \in Value : v = val(e)
  BY <1>5, BaseParts, ServerAssumption DEF PassType, Value, Blank
<1>8. k \notin evicted => store[c][k] # 0 /\ v = store[c][k]
  BY <1>2, <1>5, <1>7, BaseParts DEF Planned
<1>9. out_key'[c] = out_key[c] \ {e}
  BY <1>2, BaseParts DEF PassType
<1>10. /\ Sent(c, k)' /\ ~Sent(c, k)
       /\ \A l \in Key : l # k => (Sent(c, l)' <=> Sent(c, l))
  BY <1>1, <1>2, <1>5, <1>6, <1>9 DEF Sent, Unsent
<1>11. Successor'
  BY <1>1 DEF Kept, Successor, Ring
<1>12. CASE conn[o] = {}
  <2>1. /\ conn' = [conn EXCEPT ![o] = {[key |-> k, val |-> v]}] /\ unsent' = unsent
    BY <1>2, <1>5, <1>7, <1>12
  <2>2. /\ conn'[o] = {[key |-> k, val |-> v]} /\ \A d \in Cache \ {o} : conn'[d] = conn[d]
    BY <2>1, BaseParts DEF PassType
  <2> HIDE DEF val
  <2>3. \A d \in Cache, l \in Key, w \in Value :
            Has(d, l, w)' => Has(d, l, w) \/ (d = Route(k) /\ l = k /\ w = v)
    <3> SUFFICES ASSUME NEW d \in Cache, NEW l \in Key, NEW w \in Value, Has(d, l, w)'
                 PROVE  Has(d, l, w) \/ (d = o /\ l = k /\ w = v)
      BY <1>6
    <3>1. (w # 0 /\ store[d][l] = w) \/ [key |-> l, val |-> w] \in conn'[d]
      BY <1>1 DEF Has
    <3>2. CASE [key |-> l, val |-> w] \in conn'[d] /\ d = o
      BY <2>2, <3>2
    <3>3. CASE [key |-> l, val |-> w] \in conn'[d] /\ d # o
      BY <2>2, <3>3 DEF Has
    <3> QED
      BY <3>1, <3>2, <3>3 DEF Has
  <2>4. k \notin orphaned \cup evicted =>
          \A i \in 1 .. Len(Ring) : \A u \in Value :
              i # Place(k) /\ Has(Ring[i], k, u) => u <= v
    <3> SUFFICES ASSUME k \notin orphaned \cup evicted, NEW i \in 1 .. Len(Ring), NEW u \in Value,
                        i # Place(k), Has(Ring[i], k, u)
                 PROVE  u <= v
      OBVIOUS
    <3>1. Has(shrinking, k, v)
      BY <1>3, <1>8 DEF Has
    <3> QED
      BY <1>3, <3>1 DEF Kept, Newer
  <2>5. Stacked' /\ Placed' /\ Newer' /\ Ring' = Ring
    BY <1>1, <1>3, <2>3, <2>4, OwnerGets DEF Owned, Kept
  <2>6. Latest'
    <3> SUFFICES ASSUME NEW l \in Key, l \notin Lossy'
                 PROVE  Found(l)'
      BY DEF Latest
    <3>1. l \notin Lossy /\ l \notin evicted
      BY <1>1, <2>1 DEF Lossy
    <3>2. Found(l)
      BY <3>1 DEF Kept, Latest
    <3>3. CASE l = k
      <4>1. HasOne(c, k) /\ store[c][k] # 0 /\ v = store[c][k]
        BY <1>8, <3>1, <3>3 DEF HasOne
      <4>2. ~Awaits(c, k)
        BY <1>1, BaseParts DEF Planned, Awaits
      <4>3. v = newest[k]
        BY <1>3, <1>10, <3>2, <3>3, <4>1, <4>2 DEF Found, HandedOver, Holds
      <4>4. Route(k)' = o
        BY <1>1, <1>6 DEF Route
      <4>5. [key |-> k, val |-> newest[k]] \in conn'[o]
        BY <2>2, <4>3
      <4>6. Holds(o, k)'
        <5>1. [key |-> k, val |-> newest'[k]] \in conn'[o] /\ [key |-> k, val |-> newest'[k]].key = k
          BY <1>1, <4>5
        <5>2. Awaits(o, k)'
          BY <5>1, Zenon DEF Awaits
        <5> QED
          BY <5>1, <5>2 DEF Holds
      <4>7. Holds(Route(k), k)'
        BY <4>4, <4>6 DEF Holds, Awaits
      <4>8. Sent(shrinking, k)' /\ HasOne(shrinking, k)' /\ shrinking' # NoCache
        BY <1>1, <1>3, <1>10, <4>1 DEF Sent, Unsent, HasOne
      <4> QED
        BY <3>3, <4>7, <4>8 DEF Found, HandedOver
    <3>4. CASE l # k
      <4>1. \A d \in Cache : Awaits(d, l) => Awaits(d, l)' /\ conn'[d] = conn[d]
        BY <1>12, <2>2 DEF Awaits
      <4>2. \A d \in Cache : ~Awaits(d, l) => ~Awaits(d, l)'
        BY <2>2, <3>4 DEF Awaits
      <4>3. \A d \in Cache : Holds(d, l) => Holds(d, l)'
        BY <1>1, <4>1, <4>2 DEF Holds
      <4>4. HasOne(shrinking, l)' <=> HasOne(shrinking, l)
        BY <1>1, <1>3, <4>1, <4>2 DEF HasOne, Awaits
      <4>5. Sent(shrinking, l)' <=> Sent(shrinking, l)
        BY <1>1, <1>3, <1>10, <3>4 DEF Sent, Unsent
      <4> QED
        BY <1>1, <3>2, <4>3, <4>4, <4>5, FoundFrame DEF Owned, Kept
    <3> QED
      BY <3>3, <3>4
  <2> QED
    BY <1>11, <2>5, <2>6 DEF Kept
<1>13. CASE conn[o] # {}
  <2>1. /\ conn' = conn /\ unsent' = unsent \cup {k}
    BY <1>2, <1>5, <1>13
  <2>2. Lossy \subseteq Lossy' /\ k \in Lossy'
    BY <1>1, <2>1 DEF Lossy
  <2>3. \A d \in Cache, l \in Key : \A w \in Value : Has(d, l, w)' => Has(d, l, w)
    BY <1>1, <2>1 DEF Has
  <2>4. ASSUME NEW l \in Key, l \notin Lossy'
        PROVE  /\ \A d \in Cache : Holds(d, l) => Holds(d, l)'
               /\ HasOne(shrinking, l)' <=> HasOne(shrinking, l)
               /\ Sent(shrinking, l)' <=> Sent(shrinking, l)
    <3>1. l # k
      BY <2>2, <2>4
    <3>2. Sent(shrinking, l)' <=> Sent(shrinking, l)
      BY <1>1, <1>3, <1>10, <3>1 DEF Sent, Unsent
    <3> QED
      BY <1>1, <2>1, <3>2 DEF Holds, HasOne, Awaits
  <2> QED
    BY <1>1, <1>11, <2>2, <2>3, <2>4, KeptStep DEF Owned
<1> QED
  BY <1>12, <1>13

\* The master routes by a ring that has a server in it.
LEMMA RoutedRing ==
    ASSUME BaseInv, Viewed, HistoryIndependent, NEW k \in Key, Routed(k)
    PROVE  Ring # <<>>
<1> SUFFICES ASSUME Ring = <<>>
             PROVE  key2Index = EmptyRing
  BY DEF Routed
<1>1. nodes = 0
  BY RingPlaces
<1>2. key2Index = RingOf(0)
  BY <1>1 DEF HistoryIndependent
<1>3. 0 .. (0 - 1) = {}
  OBVIOUS
<1>4. UNION {Points(i) : i \in 0 .. (0 - 1)} = {}
  BY <1>3
<1> QED
  BY <1>2, <1>4 DEF RingOf, EmptyRing

\* What a put does to what the servers have.
LEMMA PutHas ==
    ASSUME BaseInv, NEW c \in Cache, NEW k \in Key, NEW v \in Value, v = newest[k] + 1,
           ClientPut(c, k)
    PROVE  /\ newest'[k] = v /\ store'[c][k] = v /\ v # 0
           /\ evicted \subseteq evicted' /\ Lossy \subseteq Lossy'
           /\ \A d \in Cache : \A l \in Key \ (orphaned' \cup evicted') : \A w \in Value :
                 Has(d, l, w)' => Has(d, l, w) \/ (d = c /\ l = k /\ w = v)
           /\ \A d \in Cache, l \in Key : l \notin evicted' /\ (l # k \/ d # c) =>
                 store'[d][l] = store[d][l]
           /\ UNCHANGED <<members, shrinking, key2Index, alive, thread, out_key, conn,
                          orphaned, unsent>>
<1>1. /\ newest'[k] = v /\ Put(c, k, v) /\ v # 0
      /\ late \subseteq late' /\ early \subseteq early'
      /\ UNCHANGED <<members, shrinking, key2Index, alive, thread, out_key, conn,
                     orphaned, unsent>>
  BY PutEffect DEF master, ringVars
<1>2. /\ store'[c][k] = v /\ \A d \in Cache \ {c} : store'[d] = store[d]
      /\ \A l \in Key \ {k} : store'[c][l] = store[c][l] \/ (store'[c][l] = 0 /\ l \in evicted')
      /\ evicted \subseteq evicted'
  BY <1>1, PutParts
<1>3. \A d \in Cache, l \in Key : l \notin evicted' /\ (l # k \/ d # c) =>
          store'[d][l] = store[d][l]
  BY <1>2
<1>4. ASSUME NEW d \in Cache, NEW l \in Key \ (orphaned' \cup evicted'), NEW w \in Value,
             Has(d, l, w)'
      PROVE  Has(d, l, w) \/ (d = c /\ l = k /\ w = v)
  <2>1. CASE d = c /\ l = k
    BY <1>1, <1>2, <1>4, <2>1 DEF Has
  <2>2. CASE d # c \/ l # k
    BY <1>1, <1>3, <1>4, <2>2 DEF Has
  <2> QED
    BY <2>1, <2>2
<1>5. Lossy \subseteq Lossy'
  BY <1>1, <1>2 DEF Lossy
<1> QED
  BY <1>1, <1>2, <1>3, <1>4, <1>5

\* Keys that no put is about stay where they are.
LEMMA OtherKeys ==
    ASSUME BaseInv, Viewed, Owned, Kept, NEW c \in Cache, NEW k \in Key, ClientPut(c, k),
           NEW l \in Key, l \notin Lossy', l # k
    PROVE  Found(l)'
<1>1. PICK v \in Value : v = newest[k] + 1
  BY PutEffect
<1>2. /\ \A d \in Cache : store'[d][l] = store[d][l]
      /\ l \notin Lossy
      /\ UNCHANGED <<members, shrinking, key2Index, alive, thread, out_key, conn>>
  BY <1>1, PutHas DEF Lossy
<1>3. newest'[l] = newest[l]
  BY PutEffect
<1>4. Found(l)
  BY <1>2 DEF Kept, Latest
<1>5. \A d \in Cache : (Holds(d, l)' <=> Holds(d, l)) /\ (HasOne(d, l)' <=> HasOne(d, l))
  BY <1>2, <1>3 DEF Holds, HasOne, Awaits
<1>6. ASSUME shrinking # NoCache
      PROVE  /\ HasOne(shrinking, l)' <=> HasOne(shrinking, l)
             /\ Sent(shrinking, l)' <=> Sent(shrinking, l)
  <2>1. PICK s \in Cache : s = shrinking
    BY <1>6, RetiredStarted
  <2> QED
    BY <1>2, <2>1 DEF HasOne, Awaits, Sent, Unsent
<1> QED
  BY <1>2, <1>3, <1>4, <1>5, <1>6, FoundFrame DEF Owned, Kept

\* A put on the server that the master names.
LEMMA PutRouted ==
    ASSUME NoCollision, BaseInv, Viewed, Owned, Kept, NEW c \in Cache, NEW k \in Key,
           ClientPut(c, k), Routed(k), c = Route(k)
    PROVE  Kept'
<1>1. PICK v \in Value : v = newest[k] + 1
  BY PutEffect
<1>2. /\ newest'[k] = v /\ store'[c][k] = v /\ v # 0
      /\ evicted \subseteq evicted'
      /\ \A d \in Cache : \A l \in Key \ (orphaned' \cup evicted') : \A w \in Value :
            Has(d, l, w)' => Has(d, l, w) \/ (d = c /\ l = k /\ w = v)
      /\ \A d \in Cache, l \in Key : l \notin evicted' /\ (l # k \/ d # c) =>
            store'[d][l] = store[d][l]
      /\ UNCHANGED <<members, shrinking, key2Index, alive, thread, out_key, conn,
                     orphaned, unsent>>
  BY <1>1, PutHas
<1>3. Ring # <<>>
  BY RoutedRing DEF Owned
<1>4. /\ Place(k) \in 1 .. Len(Ring) /\ Route(k) = Ring[Place(k)]
      /\ \A i \in 1 .. Len(Ring) : Ring[i] \in Cache
      /\ shrinking # NoCache => shrinking \in Cache /\ c # shrinking
  BY <1>3, PlaceInRing, RingPlaces DEF Owned
<1>5. k \notin orphaned \cup evicted =>
         \A i \in 1 .. Len(Ring) : \A u \in Value : i # Place(k) /\ Has(Ring[i], k, u) => u <= v
  <2> SUFFICES ASSUME NEW i \in 1 .. Len(Ring), NEW u \in Value, Has(Ring[i], k, u)
               PROVE  u <= v
    OBVIOUS
  <2>1. u <= newest[k] /\ newest[k] \in Nat
    BY <1>4, HeldValues
  <2>2. Value \subseteq Int
    BY ServerAssumption DEF Value, Blank
  <2> QED
    BY <1>1, <2>1, <2>2
<1>6. Stacked' /\ Placed' /\ Newer' /\ Ring' = Ring
  BY <1>2, <1>3, <1>5, OwnerGets DEF Owned, Kept
<1>7. Successor'
  BY <1>2, <1>6 DEF Kept, Successor
<1>8. ASSUME k \notin Lossy'
      PROVE  Found(k)'
  <2>1. /\ ~Awaits(c, k)
        /\ shrinking \in Cache \ {c} /\ ~Sent(shrinking, k) =>
              ~(k \in Stored(shrinking) \/ Awaits(shrinking, k))
    BY <1>8 DEF ClientPut, Lossy
  <2>2. Holds(c, k)'
    BY <1>2, <2>1 DEF Holds, Awaits
  <2>3. c = Route(k)' /\ c = Ring'[Place(k)]
    BY <1>2, <1>4, <1>6 DEF Route
  <2>4. InRing(k)'
    <3>1. PICK p \in 1 .. Len(Ring) : p = Place(k)
      BY <1>4
    <3>2. p \in 1 .. Len(Ring') /\ Holds(Ring[p], k)'
      BY <1>6, <2>2, <2>3, <3>1 DEF Holds, Awaits
    <3> QED
      BY <3>2 DEF InRing
  <2>5. ASSUME shrinking # NoCache, HasOne(shrinking, k)'
        PROVE  HandedOver(k)'
    <3>1. shrinking \in Cache \ {c}
      BY <1>4, <2>5
    <3>2. k \notin evicted'
      BY <1>8 DEF Lossy
    <3>3. HasOne(shrinking, k)
      BY <1>2, <2>5, <3>1, <3>2 DEF HasOne, Awaits
    <3>4. Sent(shrinking, k)
      BY <2>1, <3>1, <3>3 DEF HasOne, Stored
    <3>5. Sent(shrinking, k)'
      BY <1>2, <3>4 DEF Sent, Unsent
    <3>6. Holds(Route(k), k)'
      BY <2>2, <2>3 DEF Holds, Awaits
    <3> QED
      BY <3>5, <3>6 DEF HandedOver
  <2> QED
    BY <1>2, <2>4, <2>5 DEF Found
<1>9. Latest'
  <2> SUFFICES ASSUME NEW l \in Key, l \notin Lossy'
               PROVE  Found(l)'
    BY DEF Latest
  <2> QED
    BY <1>8, OtherKeys
<1> QED
  BY <1>6, <1>7, <1>9 DEF Kept

\* A put on the server that is retired.
LEMMA PutRetired ==
    ASSUME BaseInv, Viewed, Owned, Kept, NEW c \in Cache, NEW k \in Key,
           ClientPut(c, k), c = shrinking
    PROVE  Kept'
<1>1. PICK v \in Value : v = newest[k] + 1
  BY PutEffect
<1>2. /\ newest'[k] = v /\ store'[c][k] = v /\ v # 0
      /\ evicted \subseteq evicted'
      /\ \A d \in Cache : \A l \in Key \ (orphaned' \cup evicted') : \A w \in Value :
            Has(d, l, w)' => Has(d, l, w) \/ (d = c /\ l = k /\ w = v)
      /\ UNCHANGED <<members, shrinking, key2Index, alive, thread, out_key, conn,
                     orphaned, unsent>>
  BY <1>1, PutHas
<1>3. /\ c # NoCache /\ Ring' = Ring /\ \A l : Place(l)' = Place(l)
      /\ \A i \in 1 .. Len(Ring) : Ring[i] \in Cache /\ Ring[i] # c
  BY <1>2, RingPlaces, ServerAssumption DEF Ring, Place
<1>4. ASSUME NEW i \in 1 .. Len(Ring), NEW l \in Key \ (orphaned' \cup evicted'),
             NEW w \in Value, Has(Ring[i], l, w)'
      PROVE  Has(Ring[i], l, w)
  <2>1. PICK d \in Cache : d = Ring[i] /\ d = Ring'[i] /\ d # c
    BY <1>3
  <2>2. Has(d, l, w)'
    BY <1>4, <2>1 DEF Has
  <2>3. Has(d, l, w)
    BY <1>2, <2>1, <2>2
  <2> QED
    BY <2>1, <2>3
<1>5. Successor'
  BY <1>2, <1>3 DEF Kept, Successor
<1>6. Stacked'
  <2> SUFFICES ASSUME NEW l \in Key \ (orphaned' \cup evicted'), NEW i \in 1 .. Len(Ring),
                      NEW j \in 1 .. Len(Ring), NEW u \in Value, NEW w \in Value,
                      i < j, Has(Ring[i], l, u)', Has(Ring[j], l, w)'
               PROVE  u <= w
    BY <1>3 DEF Stacked
  <2>1. Has(Ring[i], l, u) /\ Has(Ring[j], l, w)
    BY <1>4
  <2> QED
    BY <1>2, <2>1 DEF Kept, Stacked
<1>7. Placed'
  <2> SUFFICES ASSUME NEW l \in Key \ (orphaned' \cup evicted'), NEW j \in 1 .. Len(Ring),
                      NEW w \in Value, Has(Ring[j], l, w)'
               PROVE  Owner(RingOf(j), Hash[l]) = j - 1
    BY <1>3 DEF Placed
  <2>1. Has(Ring[j], l, w)
    BY <1>4
  <2> QED
    BY <1>2, <2>1 DEF Kept, Placed
<1>8. Newer'
  <2> SUFFICES ASSUME NEW l \in Key \ (orphaned' \cup evicted'), NEW i \in 1 .. Len(Ring),
                      NEW u \in Value, NEW w \in Value,
                      Has(c, l, w)', i # Place(l), Has(Ring[i], l, u)'
               PROVE  u <= w
    BY <1>2, <1>3 DEF Newer, Has
  <2>1. Has(Ring[i], l, u) /\ (Has(c, l, w) \/ (l = k /\ w = v))
    BY <1>2, <1>4
  <2>2. CASE Has(c, l, w)
    BY <1>2, <1>3, <2>1, <2>2 DEF Kept, Newer
  <2>3. CASE l = k /\ w = v
    <3>1. u <= newest[k] /\ newest[k] \in Nat
      BY <1>3, <2>1, <2>3, HeldValues
    <3>2. Value \subseteq Int
      BY ServerAssumption DEF Value, Blank
    <3> QED
      BY <1>1, <2>3, <3>1, <3>2
  <2> QED
    BY <2>1, <2>2, <2>3
<1>9. ASSUME k \notin Lossy'
      PROVE  Found(k)'
  <2>1. ~Sent(c, k) /\ ~Awaits(c, k)
    BY <1>9 DEF ClientPut, Lossy
  <2>2. ~Sent(shrinking, k)'
    BY <1>2, <2>1 DEF Sent, Unsent
  <2>3. Holds(shrinking, k)' /\ HasOne(shrinking, k)'
    BY <1>2, <2>1 DEF Holds, HasOne, Awaits
  <2> QED
    BY <1>2, <1>3, <2>2, <2>3 DEF Found, HandedOver
<1>10. Latest'
  <2> SUFFICES ASSUME NEW l \in Key, l \notin Lossy'
               PROVE  Found(l)'
    BY DEF Latest
  <2> QED
    BY <1>9, OtherKeys
<1> QED
  BY <1>5, <1>6, <1>7, <1>8, <1>10 DEF Kept

\* A primary is lost: nothing more is said of the keys that were put so far,
\* and nobody has another one.
LEMMA LostKept ==
    ASSUME BaseInv, BaseInv', NEW p \in Cache, Lost(p), shrinking = NoCache
    PROVE  Kept'
<1>1. /\ orphaned' = orphaned \cup {k \in Key : newest[k] # 0}
      /\ UNCHANGED <<shrinking, store, conn, newest, evicted>>
  BY DEF Lost, passing
<1>2. \A i \in 1 .. Len(Ring') : Ring'[i] \in Cache
  <2>1. members' \in Seq(Cache)
    BY BasePartsNext DEF MasterType
  <2>2. Ring' = members'
    BY <1>1 DEF Ring
  <2> QED
    BY <2>1, <2>2
<1>3. ASSUME NEW k \in Key \ (orphaned' \cup evicted'), NEW i \in 1 .. Len(Ring'),
             NEW w \in Value, Has(Ring[i], k, w)'
      PROVE  FALSE
  <2>1. PICK d \in Cache : d = Ring'[i]
    BY <1>2
  <2>2. Has(d, k, w)
    BY <1>1, <1>3, <2>1 DEF Has
  <2>3. newest[k] = 0
    BY <1>1
  <2>4. w <= newest[k] /\ w \in Nat \ {0}
    BY <1>1, <2>2, HeldValues
  <2> QED
    BY <2>3, <2>4
<1>4. Successor' /\ Newer'
  BY <1>1, ServerAssumption DEF Successor, Newer
<1>5. Stacked'
  BY <1>3 DEF Stacked
<1>6. Placed'
  BY <1>3 DEF Placed
<1>7. Latest'
  BY <1>1 DEF Latest, Lossy, Found, InRing
<1> QED
  BY <1>4, <1>5, <1>6, <1>7 DEF Kept

\* Every step keeps the newest values, as long as it disturbs nothing.
LEMMA NextKeep ==
    ASSUME NoCollision, BaseInv, ViewInv, OwnerInv, KeepInv, [Next]_vars
    PROVE  KeepInv'
<1> SUFFICES ASSUME Calm'
             PROVE  Kept'
  BY Zenon DEF KeepInv
<1>1. CASE UNCHANGED vars
  <2>1. UNCHANGED <<members, shrinking, key2Index, store, conn, newest, late, early, orphaned,
                    evicted, unsent, alive, thread, out_key, replaced, disturbed>>
    BY <1>1 DEF vars, master, servers, ringVars, passing, history, puts
  <2>2. Calm
    BY <2>1, Zenon DEF Calm
  <2> QED
    BY <2>1, <2>2, KnowingKept DEF KeepInv, ViewInv, OwnerInv
<1>2. CASE Next
  <2>1. /\ Calm /\ \A p, r \in Cache : ~Failover(p, r)
        /\ \A c \in Cache : Join(c) \/ Lost(c) \/ Fail(c) => shrinking = NoCache
        /\ ShrinkBegin => ToSet(members) \subseteq alive
    BY <1>2, CalmBefore
  <2>2. Viewed /\ Owned /\ Kept
    BY <2>1 DEF ViewInv, OwnerInv, KeepInv
  <2>3. BaseInv'
    BY NextBase
  <2>4. ASSUME NEW c \in Cache, Tick(c)
        PROVE  Kept'
    <3>1. Initial(c) \/ ReadNew(c) \/ ReadDelete(c) \/ ReadKill(c) \/ KillEnd(c)
      BY <2>2, <2>4, NoOtherMessages DEF Tick
    <3>2. UNCHANGED <<members, shrinking, key2Index, store, conn, newest, late, early, orphaned,
                      evicted, unsent, alive, thread, out_key>>
      BY <3>1 DEF Initial, ReadNew, ReadDelete, ReadKill, KillEnd, master, ringVars, passing,
         history, puts
    <3> QED
      BY <2>2, <3>2, KnowingKept
  <2>5. ASSUME NEW c \in Cache, PassRefused(c) \/ PassExit(c)
        PROVE  Kept'
    <3>1. /\ c \in alive /\ thread[c] = "send" /\ Dies(c)
          /\ UNCHANGED <<members, shrinking, key2Index, newest, late, early, orphaned, evicted>>
      BY <2>5 DEF PassRefused, PassExit, At, master, ringVars, puts
    <3> QED
      BY <2>2, <3>1, DiesKept
  <2>6. ASSUME NEW c \in Cache, Pass(c)
        PROVE  Kept'
    BY <2>2, <2>5, <2>6, PassListenKept, PassPlanKept, PassSendKept, PassReceiveKept DEF Pass
  <2>7. ASSUME NEW c \in Cache, Fail(c)
        PROVE  Kept'
    <3>1. /\ shrinking = NoCache /\ Dies(c)
          /\ UNCHANGED <<members, shrinking, key2Index, newest, late, early, orphaned, evicted>>
      BY <2>1, <2>7 DEF Fail, master, ringVars, puts
    <3> QED
      BY <2>2, <3>1, DiesKept
  <2>8. ASSUME NEW c \in Cache, Join(c) \/ StandBy(c) \/ Lost(c)
        PROVE  Kept'
    BY <2>1, <2>2, <2>3, <2>8, JoinKept, StandByKept, LostKept
  <2>9. ASSUME NEW c \in Cache, NEW k \in Key, ClientPut(c, k)
        PROVE  Kept'
    <3>1. (Routed(k) /\ c = Route(k)) \/ c = shrinking
      BY <2>9 DEF ClientPut
    <3> QED
      BY <2>2, <2>9, <3>1, PutRouted, PutRetired
  <2> QED
    BY <1>2, <2>1, <2>2, <2>4, <2>6, <2>7, <2>8, <2>9, NoOtherMessages,
       ShrinkBeginKept, ShrinkEndKept DEF Next
<1> QED
  BY <1>1, <1>2

\* At the start there are no keys.
LEMMA InitKeep == Init => KeepInv
<1> SUFFICES ASSUME Init
             PROVE  Kept
  BY DEF KeepInv
<1>1. members = <<>> /\ shrinking = NoCache /\ newest = [k \in Key |-> 0]
  BY DEF Init
<1>2. Ring = <<>> /\ ToSet(members) = {} /\ NoCache \notin Cache
  BY <1>1, ServerAssumption DEF Ring, ToSet
<1>3. Successor /\ Stacked /\ Placed /\ Newer
  BY <1>1, <1>2 DEF Successor, Stacked, Placed, Newer
<1>4. Latest
  BY <1>1 DEF Latest, Found, InRing
<1> QED
  BY <1>3, <1>4 DEF Kept

\* A shrink loses the puts it is said to lose and no others: when the dying
\* server has exited, each of its keys is where the master routes it, or about
\* to be put there, with the value that was put last, unless
\*  - it was not sent: a connection was refused, was the second one to a socket,
\*    or broke with the receiver;
\*  - it was put on the dying server after its turn or on the new owner before it;
\*  - a full cache dropped it;
\*  - it was put before a primary was lost.
THEOREM ServersShrinkKeepsKeys ==
    ASSUME NoCollision
    PROVE  Spec => []ShrinkKeepsKeys
<1>1. BaseInv /\ ViewInv /\ OwnerInv /\ [Next]_vars => OwnerInv'
  BY NextOwner
<1>2. BaseInv /\ ViewInv /\ OwnerInv /\ KeepInv /\ [Next]_vars => KeepInv'
  BY NextKeep
<1>3. BaseInv /\ KeepInv => ShrinkKeepsKeys
  <2> SUFFICES ASSUME BaseInv, Kept, shrinking \in Cache \ alive,
                      NEW k \in Stored(shrinking)
                                  \ (unsent \cup late \cup early \cup evicted \cup orphaned)
               PROVE  Holds(Route(k), k)
    BY DEF ShrinkKeepsKeys, KeepInv, Calm
  <2>1. /\ shrinking # NoCache /\ k \in Key /\ k \notin Lossy
        /\ HasOne(shrinking, k) /\ Sent(shrinking, k)
    BY ServerAssumption DEF Stored, Sent, HasOne, Lossy
  <2>2. HandedOver(k)
    BY <2>1 DEF Kept, Latest, Found
  <2> QED
    BY <2>1, <2>2 DEF HandedOver
<1> QED
  BY <1>1, <1>2, <1>3, AlwaysView, InitOwner, InitKeep, PTL DEF Spec
=============================================================================
