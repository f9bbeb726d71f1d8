---------------------------- MODULE ClientProofs ----------------------------
(***************************************************************************)
(* Proofs about the client, for any keys, servers, waiting time and limit  *)
(* of lost requests, and any number of connections: no key is forgotten, a *)
(* timer resends what is booked, what is booked is outstanding, and every  *)
(* answer finds a timer.                                                   *)
(***************************************************************************)
EXTENDS Client, SequenceLemmas

(***************************************************************************)
(* The timers and what they will resend.                                   *)
(***************************************************************************)

\* The timers T, with the messages M of those that run.  All have the same
\* timeout and fire once; one that runs has time left.
Timed(T, M) ==
    /\ Master \in DOMAIN T /\ DOMAIN T \subseteq Server \cup {Master}
    /\ T \in [DOMAIN T -> TimerType]
    /\ M \in [{t \in DOMAIN T : T[t].running} -> Key]
    /\ \A t \in DOMAIN T :
          /\ T[t].timeout = WAITING_TIME /\ T[t].periodic = FALSE
          /\ T[t].running => T[t].current > 0

\* The timer of t after it is created or reset, and started.
Armed(T, t) ==
    start(IF t \in DOMAIN T THEN reset(T[t]) ELSE NewTimer(WAITING_TIME, FALSE))

\* What the operations do to the fields of a timer.
LEMMA TimerFields ==
    ASSUME NEW x \in TimerType
    PROVE  /\ start(x) \in TimerType /\ start(x).timeout = x.timeout
           /\ start(x).current = x.current /\ start(x).periodic = x.periodic
           /\ start(x).running = TRUE
           /\ reset(x) \in TimerType /\ reset(x).timeout = x.timeout
           /\ reset(x).current = x.timeout /\ reset(x).periodic = x.periodic
           /\ stop(x) \in TimerType /\ stop(x).timeout = x.timeout
           /\ stop(x).periodic = x.periodic /\ stop(x).running = FALSE
<1>1. x.timeout \in Nat /\ x.timeout \in Int
  BY DEF TimerType
<1>2. /\ start(x) \in TimerType /\ start(x).timeout = x.timeout
      /\ start(x).current = x.current /\ start(x).periodic = x.periodic
      /\ start(x).running = TRUE
  BY DEF TimerType, start
<1>3. /\ reset(x) \in TimerType /\ reset(x).timeout = x.timeout
      /\ reset(x).current = x.timeout /\ reset(x).periodic = x.periodic
  BY <1>1 DEF TimerType, reset
<1>4. /\ stop(x) \in TimerType /\ stop(x).timeout = x.timeout
      /\ stop(x).periodic = x.periodic /\ stop(x).running = FALSE
  BY <1>1 DEF TimerType, stop
<1> QED
  BY <1>2, <1>3, <1>4

\* A timer that is armed runs, with all its time and the new message.
LEMMA ArmTimed ==
    ASSUME NEW T, NEW M, Timed(T, M), NEW t \in Server \cup {Master}, NEW k \in Key
    PROVE  Timed(Local!With(T, t, Armed(T, t)), Local!With(M, t, k))
<1> DEFINE r == Armed(T, t)
           U == Local!With(T, t, r)
           N == Local!With(M, t, k)
<1>1. WAITING_TIME \in Nat /\ WAITING_TIME > 0
  BY ClientAssumption
<1>2. /\ r \in TimerType /\ r.timeout = WAITING_TIME /\ r.periodic = FALSE
      /\ r.running = TRUE /\ r.current = WAITING_TIME
  <2>1. CASE t \in DOMAIN T
    <3>1. T[t] \in TimerType /\ T[t].timeout = WAITING_TIME /\ T[t].periodic = FALSE
      BY <2>1 DEF Timed
    <3>2. r = start(reset(T[t]))
      BY <2>1 DEF Armed
    <3> HIDE DEF r
    <3>3. /\ reset(T[t]) \in TimerType /\ reset(T[t]).timeout = WAITING_TIME
          /\ reset(T[t]).current = WAITING_TIME /\ reset(T[t]).periodic = FALSE
      BY <3>1, TimerFields
    <3> QED
      BY <3>2, <3>3, TimerFields
  <2>2. CASE t \notin DOMAIN T
    <3> DEFINE x == NewTimer(WAITING_TIME, FALSE)
    <3>1. /\ x \in TimerType /\ x.timeout = WAITING_TIME
          /\ x.current = WAITING_TIME /\ x.periodic = FALSE
      BY <1>1 DEF NewTimer, TimerType
    <3>2. r = start(x)
      BY <2>2 DEF Armed
    <3> HIDE DEF r, x
    <3> QED
      BY <3>1, <3>2, TimerFields
  <2> QED
    BY <2>1, <2>2
<1>3. U = [u \in DOMAIN T \cup {t} |-> IF u = t THEN r ELSE T[u]]
  BY DEF Local!With
<1>4. N = [u \in DOMAIN M \cup {t} |-> IF u = t THEN k ELSE M[u]]
  BY DEF Local!With
<1> HIDE DEF r, U, N
<1>5. /\ DOMAIN U = DOMAIN T \cup {t} /\ U[t] = r
      /\ \A u \in DOMAIN T : u # t => U[u] = T[u]
  BY <1>3
<1>6. /\ DOMAIN N = DOMAIN M \cup {t} /\ N[t] = k
      /\ \A u \in DOMAIN M : u # t => N[u] = M[u]
  BY <1>4
<1>7. DOMAIN M = {u \in DOMAIN T : T[u].running} /\ \A u \in DOMAIN M : M[u] \in Key
  BY DEF Timed
<1>8. DOMAIN N = {u \in DOMAIN U : U[u].running}
  BY <1>2, <1>5, <1>6, <1>7
<1>9. N \in [{u \in DOMAIN U : U[u].running} -> Key]
  BY <1>4, <1>6, <1>7, <1>8
<1>10. U \in [DOMAIN U -> TimerType]
  BY <1>2, <1>3, <1>5 DEF Timed
<1>11. \A u \in DOMAIN U :
          /\ U[u].timeout = WAITING_TIME /\ U[u].periodic = FALSE
          /\ U[u].running => U[u].current > 0
  BY <1>1, <1>2, <1>5 DEF Timed
<1>12. Timed(U, N)
  BY <1>5, <1>9, <1>10, <1>11 DEF Timed
<1> QED
  BY <1>12 DEF U, N, r

\* A timer that is stopped has its time back and no message.
LEMMA StopTimed ==
    ASSUME NEW T, NEW M, Timed(T, M), NEW t \in DOMAIN T
    PROVE  Timed([T EXCEPT ![t] = stop(@)], Local!Without(M, t))
<1> DEFINE r == stop(T[t])
           U == [T EXCEPT ![t] = stop(@)]
           N == Local!Without(M, t)
<1>1. /\ r \in TimerType /\ r.timeout = WAITING_TIME /\ r.periodic = FALSE
      /\ r.running = FALSE
  <2>1. T[t] \in TimerType /\ T[t].timeout = WAITING_TIME /\ T[t].periodic = FALSE
    BY DEF Timed
  <2> QED
    BY <2>1, TimerFields
<1>2. U = [u \in DOMAIN T |-> IF u = t THEN r ELSE T[u]]
  BY DEF Timed
<1>3. N = [u \in DOMAIN M \ {t} |-> M[u]]
  BY DEF Local!Without, Local!Restrict
<1> HIDE DEF r, U, N
<1>4. /\ DOMAIN U = DOMAIN T /\ U[t] = r
      /\ \A u \in DOMAIN T : u # t => U[u] = T[u]
  BY <1>2
<1>5. DOMAIN M = {u \in DOMAIN T : T[u].running} /\ \A u \in DOMAIN M : M[u] \in Key
  BY DEF Timed
<1>6. DOMAIN N = {u \in DOMAIN U : U[u].running}
  BY <1>1, <1>4, <1>3, <1>5
<1>7. N \in [{u \in DOMAIN U : U[u].running} -> Key]
  BY <1>3, <1>5, <1>6
<1>8. U \in [DOMAIN U -> TimerType]
  BY <1>1, <1>2, <1>4 DEF Timed
<1>9. Timed(U, N)
  BY <1>1, <1>4, <1>7, <1>8 DEF Timed
<1> QED
  BY <1>9 DEF U, N

\* The timers of T that fire at the next signal, and all of them after it.
Firing(T) == {t \in DOMAIN T : Due(Counted(T[t]))}

Ticked(T) == [t \in DOMAIN T |-> Settled(Counted(T[t]))]

\* A signal: timers that run count down, those that reach zero stop.
LEMMA TickTimed ==
    ASSUME NEW T, NEW M, Timed(T, M)
    PROVE  /\ Timed(Ticked(T), Restrict(M, DOMAIN M \ Firing(T)))
           /\ Firing(T) \subseteq DOMAIN M
           /\ \A t \in DOMAIN T :
                 Ticked(T)[t].running <=> T[t].running /\ t \notin Firing(T)
<1> DEFINE C == [t \in DOMAIN T |-> Counted(T[t])]
           due == Firing(T)
           U == Ticked(T)
           N == Restrict(M, DOMAIN M \ due)
<1>1. /\ due = {t \in DOMAIN T : Due(C[t])}
      /\ U = [t \in DOMAIN T |-> Settled(C[t])]
      /\ N = [t \in DOMAIN M \ due |-> M[t]]
      /\ \A t \in DOMAIN T : C[t] = Counted(T[t])
  BY DEF Firing, Ticked, Restrict
<1> HIDE DEF C, due, U, N
<1>2. WAITING_TIME \in Nat /\ WAITING_TIME > 0
  BY ClientAssumption
<1>3. DOMAIN M = {u \in DOMAIN T : T[u].running} /\ \A u \in DOMAIN M : M[u] \in Key
  BY DEF Timed
<1>4. ASSUME NEW t \in DOMAIN T
      PROVE  /\ U[t] \in TimerType /\ U[t].timeout = WAITING_TIME /\ U[t].periodic = FALSE
             /\ U[t].running => U[t].current > 0
             /\ U[t].running <=> T[t].running /\ t \notin due
             /\ t \in due => T[t].running
  <2>1. /\ T[t] \in TimerType /\ T[t].timeout = WAITING_TIME /\ T[t].periodic = FALSE
        /\ T[t].running => T[t].current > 0
    BY DEF Timed
  <2>2. T[t].running \in BOOLEAN /\ T[t].current \in Int
    BY <2>1 DEF TimerType
  <2>3. CASE T[t].running
    <3>1. C[t] = [T[t] EXCEPT !.current = @ - 1]
      BY <1>1, <2>3 DEF Counted
    <3>2. /\ C[t] \in TimerType /\ C[t].timeout = WAITING_TIME /\ C[t].periodic = FALSE
          /\ C[t].running /\ C[t].current >= 0
      BY <2>1, <2>2, <2>3, <3>1 DEF TimerType
    <3>3. CASE C[t].current = 0
      <4>1. U[t] = [C[t] EXCEPT !.running = FALSE] /\ t \in due
        BY <1>1, <3>2, <3>3 DEF Settled, Due
      <4> QED
        BY <2>3, <3>2, <4>1 DEF TimerType
    <3>4. CASE C[t].current # 0
      <4>1. U[t] = C[t] /\ t \notin due
        BY <1>1, <3>2, <3>4 DEF Settled, Due
      <4>2. C[t].current > 0
        <5>1. C[t].current \in Int
          BY <3>2 DEF TimerType
        <5> QED
          BY <3>2, <3>4, <5>1
      <4> QED
        BY <2>3, <3>2, <4>1, <4>2
    <3> QED
      BY <3>3, <3>4
  <2>4. CASE ~T[t].running
    <3>1. C[t] = T[t] /\ U[t] = T[t] /\ t \notin due
      BY <1>1, <2>4 DEF Counted, Settled, Due
    <3> QED
      BY <2>1, <2>4, <3>1
  <2> QED
    BY <2>3, <2>4
<1>5. DOMAIN U = DOMAIN T /\ due \subseteq DOMAIN T
  BY <1>1
<1>6. due \subseteq DOMAIN M
  BY <1>3, <1>4, <1>5
<1>7. DOMAIN N = {u \in DOMAIN U : U[u].running}
  BY <1>3, <1>4, <1>5, <1>1
<1>8. N \in [{u \in DOMAIN U : U[u].running} -> Key]
  BY <1>3, <1>1, <1>7
<1>9. U \in [DOMAIN U -> TimerType]
  BY <1>1, <1>4, <1>5
<1>10. Timed(U, N)
  BY <1>4, <1>5, <1>8, <1>9 DEF Timed
<1> QED
  BY <1>4, <1>6, <1>10 DEF U, N, due

-----------------------------------------------------------------------------
(***************************************************************************)
(* Connections, booked requests and the place of the main loop.            *)
(***************************************************************************)

\* Connections that are opened.
LEMMA OpenConns ==
    ASSUME NEW B, IsABag(B), NEW S
    PROVE  /\ IsABag(B (+) SetToBag(S))
           /\ BagToSet(B (+) SetToBag(S)) = BagToSet(B) \cup S
<1> DEFINE C == B (+) SetToBag(S)
<1>1. C = [e \in DOMAIN B \cup S |->
             (IF e \in DOMAIN B THEN B[e] ELSE 0) + (IF e \in S THEN 1 ELSE 0)]
  BY DEF (+), SetToBag
<1>2. \A e \in DOMAIN B : B[e] \in Nat /\ B[e] > 0
  BY DEF IsABag
<1> HIDE DEF C
<1>3. DOMAIN C = DOMAIN B \cup S /\ \A e \in DOMAIN C : C[e] \in Nat /\ C[e] > 0
  BY <1>1, <1>2
<1>4. C \in [DOMAIN C -> {n \in Nat : n > 0}]
  BY <1>1, <1>3
<1> QED
  BY <1>3, <1>4 DEF IsABag, BagToSet, C

\* A connection that is closed; another one like it may be open.
LEMMA CloseConn ==
    ASSUME NEW B, IsABag(B), NEW c \in BagToSet(B)
    PROVE  /\ IsABag(B (-) SetToBag({c}))
           /\ BagToSet(B (-) SetToBag({c})) \subseteq BagToSet(B)
           /\ BagToSet(B) \subseteq BagToSet(B (-) SetToBag({c})) \cup {c}
<1> DEFINE C == B (-) SetToBag({c})
           D == [e \in DOMAIN B |-> IF e \in {c} THEN B[e] - 1 ELSE B[e]]
<1>1. C = [e \in {d \in DOMAIN D : D[d] > 0} |-> D[e]]
  BY DEF (-), SetToBag
<1>2. \A e \in DOMAIN B : B[e] \in Nat /\ B[e] > 0
  BY DEF IsABag
<1>3. DOMAIN D = DOMAIN B /\ \A e \in DOMAIN B : D[e] \in Nat /\ (e # c => D[e] > 0)
  BY <1>2
<1> HIDE DEF C, D
<1>4. DOMAIN C = {d \in DOMAIN D : D[d] > 0} /\ \A e \in DOMAIN C : C[e] = D[e]
  BY <1>1
<1>5. C \in [DOMAIN C -> {n \in Nat : n > 0}]
  BY <1>1, <1>3, <1>4
<1> QED
  BY <1>3, <1>4, <1>5 DEF IsABag, BagToSet, C

\* The requests R booked for each server, none twice.
Booked(R) == R \in [Server -> Seq(Key)] /\ \A a \in Server : NoRepeat(R[a])

\* add_item_to_request_map
Added(R, a, k) == [R EXCEPT ![a] = IF k \in ToSet(@) THEN @ ELSE Append(@, k)]

\* A request that is booked adds its key to those of the server and no other.
LEMMA AddItem ==
    ASSUME NEW R, Booked(R), NEW a \in Server, NEW k \in Key
    PROVE  /\ Booked(Added(R, a, k))
           /\ ToSet(Added(R, a, k)[a]) = ToSet(R[a]) \cup {k}
           /\ \A b \in Server : b # a => Added(R, a, k)[b] = R[b]
<1> DEFINE Q == Added(R, a, k)
<1> DEFINE q == IF k \in ToSet(R[a]) THEN R[a] ELSE Append(R[a], k)
<1>1. R[a] \in Seq(Key) /\ NoRepeat(R[a])
  BY DEF Booked
<1>2. q \in Seq(Key) /\ NoRepeat(q) /\ ToSet(q) = ToSet(R[a]) \cup {k}
  <2>1. CASE k \in ToSet(R[a])
    BY <1>1, <2>1
  <2>2. CASE k \notin ToSet(R[a])
    <3>1. q = Append(R[a], k)
      BY <2>2
    <3> HIDE DEF q
    <3> QED
      BY <1>1, <2>2, <3>1, AppendProps, AppendElements
  <2> QED
    BY <2>1, <2>2
<1>3. Q = [b \in Server |-> IF b = a THEN q ELSE R[b]]
  BY DEF Booked, Added
<1> HIDE DEF q, Q
<1>4. Q[a] = q /\ \A b \in Server : b # a => Q[b] = R[b]
  BY <1>3
<1>5. Q \in [Server -> Seq(Key)] /\ \A b \in Server : NoRepeat(Q[b])
  BY <1>2, <1>3, <1>4 DEF Booked
<1> QED
  BY <1>2, <1>4, <1>5 DEF Booked, Q

\* Where the main loop may be, and what it holds there.
LEMMA PlaceFields ==
    ASSUME NEW m \in Place
    PROVE  /\ m.at \in {"wait", "check", "port", "connect", "stop"}
           /\ m.at \in {"port", "connect"} =>
                 m.key \in Key /\ m.addr \in Server /\ m.then \in {Wait, Check}
           /\ m.at = "port" => m.host \in Host
           /\ m.at = "connect" => m.cache_sever_addr_ \in Address
           /\ m.at = "stop" => m.addr \in Server /\ m = [at |-> "stop", addr |-> m.addr]
BY DEF Place, Wait, Check

\* The places other than "port" and "connect".
LEMMA Places ==
    /\ Wait \in Place /\ Check \in Place
    /\ Wait.at = "wait" /\ Check.at = "check"
    /\ \A a \in Server : [at |-> "stop", addr |-> a] \in Place
BY DEF Place, Wait, Check

\* The address s has the host of one server of D and the port of another.
Crossing(D, s) == \E a, b \in Server \cap D : s = [host |-> a.host, port |-> b.port]

\* So has it in a larger set; and so has a server of D itself.
LEMMA CrossingGrows ==
    ASSUME NEW D, NEW E, D \subseteq E, NEW s, Crossing(D, s)
    PROVE  Crossing(E, s)
BY DEF Crossing

LEMMA CrossingSelf ==
    ASSUME NEW D, NEW a \in Server \cap D
    PROVE  Crossing(D, a)
<1>1. a \in [host : Host, port : Port]
  BY ClientAssumption
<1>2. a = [host |-> a.host, port |-> a.port]
  BY <1>1
<1> QED
  BY <1>2 DEF Crossing

\* While it connects, the request it is about is booked; and the host and the
\* port it connects to are those of the request, or of servers whose timers a
\* signal has met.
Connecting ==
    /\ main.at \in {"port", "connect"} => main.key \in ToSet(request_map_[main.addr])
    /\ main.at = "port" =>
          \E a \in Server \cap (DOMAIN timers \cup {main.addr}) : main.host = a.host
    /\ main.at = "connect" =>
          Crossing(DOMAIN timers \cup {main.addr}, main.cache_sever_addr_)

AnswerHasTimer == \A conn \in BagToSet(conns) : Crossing(DOMAIN timers, conn.to)

\* The inductive invariant.
ClientInv ==
    /\ TypeOK
    /\ Timed(timers, massage)
    /\ Booked(request_map_)
    /\ Connecting
    /\ NoKeyForgotten
    /\ ResendIsPending
    /\ EntryIsOutstanding
    /\ AnswerHasTimer

\* The type of the state, without the parts that Timed and Booked repeat.
Rest ==
    /\ running \in BOOLEAN /\ main \in Place
    /\ DOMAIN known \subseteq Key /\ known \in [DOMAIN known -> Server]
    /\ toMaster \subseteq Key /\ masterUp \in BOOLEAN
    /\ IsABag(conns) /\ BagToSet(conns) \subseteq Conn
    /\ asked \subseteq Key /\ astray \in BOOLEAN /\ gaveUp \subseteq Server

\* Timed and Booked are the rest of the type.
LEMMA TypeFromParts ==
    ASSUME Rest', Timed(timers', massage'), Booked(request_map_')
    PROVE  TypeOK'
BY DEF TypeOK, Rest, Timed, Booked

\* The parts of the invariant that a step may rely on.
LEMMA InvParts ==
    ASSUME ClientInv
    PROVE  /\ Rest /\ Timed(timers, massage) /\ Booked(request_map_)
           /\ DOMAIN massage = {t \in DOMAIN timers : timers[t].running}
           /\ Connecting /\ NoKeyForgotten /\ ResendIsPending
           /\ EntryIsOutstanding /\ AnswerHasTimer
           /\ Master \in DOMAIN timers /\ Master \notin Server
<1>1. /\ Timed(timers, massage) /\ Booked(request_map_)
      /\ Connecting /\ NoKeyForgotten /\ ResendIsPending
      /\ EntryIsOutstanding /\ AnswerHasTimer
  BY DEF ClientInv
<1>2. Rest
  BY DEF ClientInv, TypeOK, Rest
<1>3. DOMAIN massage = {t \in DOMAIN timers : timers[t].running} /\ Master \in DOMAIN timers
  BY <1>1 DEF Timed
<1> QED
  BY <1>1, <1>2, <1>3, ClientAssumption

-----------------------------------------------------------------------------
(***************************************************************************)
(* Each action preserves the invariant.                                    *)
(***************************************************************************)

\* The timer of the request runs from now on, and the connection is either to
\* the server of the request or counts as astray.
LEMMA SendEndPreserves ==
    ASSUME ClientInv, SendEnd
    PROVE  ClientInv'
<1> DEFINE a == main.addr
           k == main.key
           to == main.cache_sever_addr_
<1>1. /\ Rest /\ Timed(timers, massage) /\ Booked(request_map_)
      /\ DOMAIN massage = {t \in DOMAIN timers : timers[t].running}
      /\ Connecting /\ NoKeyForgotten /\ ResendIsPending
      /\ EntryIsOutstanding /\ AnswerHasTimer
  BY InvParts
<1>2. /\ running /\ main.at = "connect" /\ main' = main.then
      /\ \/ /\ to \in Server /\ conns' = conns (+) SetToBag({Opened(to, k)})
            /\ astray' = (astray \/ to # a)
         \/ conns' = conns /\ astray' = TRUE
      /\ timers' = Local!With(timers, a, Armed(timers, a))
      /\ massage' = Local!With(massage, a, k)
      /\ gaveUp' = gaveUp \ {a}
      /\ running' = running /\ known' = known /\ request_map_' = request_map_
      /\ toMaster' = toMaster /\ masterUp' = masterUp /\ asked' = asked
  BY DEF SendEnd, At, Arm, Armed, master
<1>3. a \in Server /\ k \in Key /\ main.then \in {Wait, Check}
  BY <1>1, <1>2, PlaceFields DEF Rest
<1>4. main' \in Place /\ main'.at \notin {"port", "connect", "stop"}
  BY <1>2, <1>3, Places
<1>5. k \in ToSet(request_map_[a]) /\ Crossing(DOMAIN timers \cup {a}, to)
  BY <1>1, <1>2 DEF Connecting
<1> HIDE DEF a, k, to
<1>6. /\ Timed(timers', massage') /\ DOMAIN timers' = DOMAIN timers \cup {a}
      /\ massage'[a] = k
      /\ \A u \in DOMAIN timers : u # a => timers'[u] = timers[u]
      /\ \A u \in DOMAIN massage : u # a => massage'[u] = massage[u]
  <2>1. Timed(Local!With(timers, a, Armed(timers, a)), Local!With(massage, a, k))
    BY <1>1, <1>3, ArmTimed
  <2>2. /\ timers' = [u \in DOMAIN timers \cup {a} |-> IF u = a THEN Armed(timers, a) ELSE timers[u]]
        /\ massage' = [u \in DOMAIN massage \cup {a} |-> IF u = a THEN k ELSE massage[u]]
    BY <1>2 DEF Local!With
  <2> QED
    BY <1>2, <2>1, <2>2
<1>7. /\ IsABag(conns') /\ BagToSet(conns) \subseteq BagToSet(conns')
      /\ \A c \in BagToSet(conns') \ BagToSet(conns) : c = Opened(to, k) /\ to \in Server
      /\ ~astray' => ~astray /\ to = a /\ Opened(to, k) \in BagToSet(conns')
  <2> DEFINE C == conns (+) SetToBag({Opened(to, k)})
  <2>1. IsABag(C) /\ BagToSet(C) = BagToSet(conns) \cup {Opened(to, k)}
    BY <1>1, OpenConns DEF Rest
  <2>2. \/ to \in Server /\ conns' = C /\ astray' = (astray \/ to # a)
        \/ conns' = conns /\ astray' = TRUE
    BY <1>2 DEF a, k, to
  <2> HIDE DEF C
  <2>3. CASE to \in Server /\ conns' = C /\ astray' = (astray \/ to # a)
    BY <2>1, <2>3
  <2>4. CASE conns' = conns /\ astray' = TRUE
    BY <1>1, <2>4 DEF Rest
  <2> QED
    BY <2>2, <2>3, <2>4
<1>8. Rest'
  <2>1. to \in Server => Opened(to, k) \in Conn
    BY <1>3 DEF Opened, Conn
  <2>2. astray' \in BOOLEAN
    BY <1>1, <1>2 DEF Rest
  <2> QED
    BY <1>1, <1>2, <1>4, <1>7, <2>1, <2>2 DEF Rest
<1>9. Booked(request_map_') /\ Connecting'
  BY <1>1, <1>2, <1>4 DEF Connecting
<1>10. NoKeyForgotten'
  BY <1>1, <1>2 DEF NoKeyForgotten, Pending
<1>11. ResendIsPending'
  <2> SUFFICES ASSUME NEW b \in Server, b \in DOMAIN timers', timers'[b].running
               PROVE  \/ massage'[b] \in ToSet(request_map_'[b])
                      \/ b \in gaveUp'
    BY DEF ResendIsPending
  <2>1. CASE b = a
    BY <1>2, <1>5, <1>6, <2>1
  <2>2. CASE b # a
    <3>1. b \in DOMAIN timers /\ timers[b].running /\ b \in DOMAIN massage
      BY <1>1, <1>6, <2>2
    <3>2. massage[b] \in ToSet(request_map_[b]) \/ b \in gaveUp
      BY <1>1, <1>2, <3>1 DEF ResendIsPending
    <3> QED
      BY <1>2, <1>6, <2>2, <3>1, <3>2
  <2> QED
    BY <2>1, <2>2
<1>12. EntryIsOutstanding'
  <2> SUFFICES ASSUME running', ~astray', NEW b \in Server, NEW j \in ToSet(request_map_'[b])
               PROVE  Opened(b, j) \in BagToSet(conns')
    BY DEF EntryIsOutstanding
  <2>1. Opened(b, j) \in BagToSet(conns) \/ (a = b /\ k = j)
    BY <1>1, <1>2, <1>7 DEF EntryIsOutstanding, a, k
  <2> QED
    BY <1>7, <2>1
<1>13. AnswerHasTimer'
  <2>1. Opened(to, k).to = to
    BY DEF Opened
  <2>2. \A c \in BagToSet(conns) : Crossing(DOMAIN timers', c.to)
    BY <1>1, <1>6, CrossingGrows DEF AnswerHasTimer
  <2> QED
    BY <1>5, <1>6, <1>7, <2>1, <2>2 DEF AnswerHasTimer
<1> QED
  BY <1>6, <1>8, <1>9, <1>10, <1>11, <1>12, <1>13, TypeFromParts DEF ClientInv

\* The port of the request follows whatever host is there.
LEMMA SendPortPreserves ==
    ASSUME ClientInv, SendPort
    PROVE  ClientInv'
<1> DEFINE a == main.addr
           addr == [host |-> main.host, port |-> a.port]
<1>1. /\ Rest /\ Timed(timers, massage) /\ Booked(request_map_)
      /\ Connecting /\ NoKeyForgotten /\ ResendIsPending
      /\ EntryIsOutstanding /\ AnswerHasTimer
  BY InvParts
<1>2. /\ main.at = "port"
      /\ main' = [at |-> "connect", key |-> main.key, addr |-> a,
                  cache_sever_addr_ |-> addr, then |-> main.then]
      /\ running' = running /\ timers' = timers /\ massage' = massage /\ gaveUp' = gaveUp
      /\ known' = known /\ request_map_' = request_map_ /\ toMaster' = toMaster
      /\ masterUp' = masterUp /\ conns' = conns /\ asked' = asked /\ astray' = astray
  BY DEF SendPort, At, master, history
<1>3. /\ main.key \in Key /\ a \in Server /\ main.then \in {Wait, Check}
      /\ main.host \in Host /\ a.port \in Port
  BY <1>1, <1>2, PlaceFields, ClientAssumption DEF Rest
<1>4. /\ main' \in Place /\ main'.at = "connect" /\ main'.key = main.key
      /\ main'.addr = a /\ main'.cache_sever_addr_ = addr
  BY <1>2, <1>3 DEF Place, Address
<1>5. Connecting'
  <2>1. Crossing(DOMAIN timers \cup {a}, addr)
    BY <1>1, <1>2, <1>3 DEF Connecting, Crossing
  <2>2. main.key \in ToSet(request_map_[a])
    BY <1>1, <1>2 DEF Connecting
  <2> QED
    BY <1>2, <1>4, <2>1, <2>2 DEF Connecting
<1>6. Rest' /\ Timed(timers', massage') /\ Booked(request_map_')
  BY <1>1, <1>2, <1>4 DEF Rest
<1>7. NoKeyForgotten' /\ AnswerHasTimer'
  BY <1>1, <1>2 DEF NoKeyForgotten, Pending, AnswerHasTimer
<1>8. ResendIsPending'
  BY <1>1, <1>2 DEF ResendIsPending
<1>9. EntryIsOutstanding'
  BY <1>1, <1>2, <1>4 DEF EntryIsOutstanding
<1> QED
  BY <1>5, <1>6, <1>7, <1>8, <1>9, TypeFromParts DEF ClientInv

\* The answered server's timer stops, or the client does.
LEMMA StopTimerPreserves ==
    ASSUME ClientInv, StopTimer
    PROVE  ClientInv'
<1> DEFINE a == main.addr
<1>1. /\ Rest /\ Timed(timers, massage) /\ Booked(request_map_)
      /\ DOMAIN massage = {t \in DOMAIN timers : timers[t].running}
      /\ NoKeyForgotten /\ ResendIsPending
      /\ EntryIsOutstanding /\ AnswerHasTimer
  BY InvParts
<1>2. /\ running /\ main.at = "stop" /\ main' = Wait
      /\ a \in DOMAIN timers =>
            timers' = [timers EXCEPT ![a] = stop(@)] /\ running' = running
      /\ a \notin DOMAIN timers => running' = FALSE /\ timers' = timers
      /\ massage' = Local!Without(massage, a)
      /\ gaveUp' = gaveUp \ {a}
      /\ known' = known /\ request_map_' = request_map_ /\ toMaster' = toMaster
      /\ masterUp' = masterUp /\ conns' = conns /\ asked' = asked /\ astray' = astray
  BY DEF StopTimer, At, master
<1>3. a \in Server /\ main = [at |-> "stop", addr |-> a]
  BY <1>1, <1>2, PlaceFields DEF Rest
<1>4. main' \in Place /\ main'.at = "wait"
  BY <1>2, Places
<1> HIDE DEF a
<1>5. /\ Timed(timers', massage') /\ DOMAIN timers' = DOMAIN timers
      /\ a \in DOMAIN timers => timers'[a].running = FALSE
      /\ \A u \in DOMAIN timers : u # a => timers'[u] = timers[u]
      /\ \A u \in DOMAIN massage : u # a => massage'[u] = massage[u]
  <2>1. CASE a \in DOMAIN timers
    <3>1. timers' = [timers EXCEPT ![a] = stop(@)]
      BY <1>2, <2>1
    <3>2. Timed(timers', massage')
      BY <1>1, <1>2, <2>1, <3>1, StopTimed
    <3>3. timers' = [u \in DOMAIN timers |-> IF u = a THEN stop(timers[a]) ELSE timers[u]]
      BY <1>1, <3>1 DEF Timed
    <3>4. massage' = [u \in DOMAIN massage \ {a} |-> massage[u]]
      BY <1>2 DEF Local!Without, Local!Restrict
    <3>5. stop(timers[a]).running = FALSE
      BY <1>1, <2>1, TimerFields DEF Timed
    <3> QED
      BY <2>1, <3>2, <3>3, <3>4, <3>5
  <2>2. CASE a \notin DOMAIN timers
    <3>1. massage' = [u \in DOMAIN massage \ {a} |-> massage[u]]
      BY <1>2 DEF Local!Without, Local!Restrict
    <3>2. a \notin DOMAIN massage
      BY <1>1, <2>2
    <3>3. massage' = massage
      BY <1>1, <3>1, <3>2 DEF Timed
    <3> QED
      BY <1>1, <1>2, <2>2, <3>3
  <2> QED
    BY <2>1, <2>2
<1>6. Rest'
  BY <1>1, <1>2, <1>4 DEF Rest
<1>7. Booked(request_map_') /\ Connecting'
  BY <1>1, <1>2, <1>4 DEF Connecting
<1>8. NoKeyForgotten'
  BY <1>1, <1>2 DEF NoKeyForgotten, Pending
<1>9. ResendIsPending'
  <2> SUFFICES ASSUME NEW b \in Server, b \in DOMAIN timers', timers'[b].running
               PROVE  \/ massage'[b] \in ToSet(request_map_'[b])
                      \/ b \in gaveUp'
    BY DEF ResendIsPending
  <2>1. b # a /\ b \in DOMAIN timers /\ timers[b].running /\ b \in DOMAIN massage
    BY <1>1, <1>5
  <2>2. main # [at |-> "stop", addr |-> b]
    BY <1>3, <2>1
  <2>3. massage[b] \in ToSet(request_map_[b]) \/ b \in gaveUp
    BY <1>1, <2>1, <2>2 DEF ResendIsPending
  <2> QED
    BY <1>2, <1>5, <2>1, <2>3
<1>10. EntryIsOutstanding'
  BY <1>1, <1>2 DEF EntryIsOutstanding
<1>11. AnswerHasTimer'
  BY <1>1, <1>2, <1>5 DEF AnswerHasTimer
<1> QED
  BY <1>5, <1>6, <1>7, <1>8, <1>9, <1>10, <1>11, TypeFromParts DEF ClientInv

\* The main loop waits again.
LEMMA CheckEndPreserves ==
    ASSUME ClientInv, CheckEnd
    PROVE  ClientInv'
<1>1. /\ Rest /\ Timed(timers, massage) /\ Booked(request_map_)
      /\ NoKeyForgotten /\ ResendIsPending
      /\ EntryIsOutstanding /\ AnswerHasTimer
  BY InvParts
<1>2. /\ main.at = "check" /\ main' = Wait
      /\ running' = running /\ timers' = timers /\ massage' = massage /\ gaveUp' = gaveUp
      /\ known' = known /\ request_map_' = request_map_ /\ toMaster' = toMaster
      /\ masterUp' = masterUp /\ conns' = conns /\ asked' = asked /\ astray' = astray
  BY DEF CheckEnd, At, master, history
<1>3. main' \in Place /\ main'.at = "wait"
  BY <1>2, Places
<1>4. Rest' /\ Timed(timers', massage') /\ Booked(request_map_') /\ Connecting'
  BY <1>1, <1>2, <1>3 DEF Rest, Connecting
<1>5. NoKeyForgotten' /\ AnswerHasTimer'
  BY <1>1, <1>2 DEF NoKeyForgotten, Pending, AnswerHasTimer
<1>6. ResendIsPending'
  BY <1>1, <1>2 DEF ResendIsPending
<1>7. EntryIsOutstanding'
  BY <1>1, <1>2 DEF EntryIsOutstanding
<1> QED
  BY <1>4, <1>5, <1>6, <1>7, TypeFromParts DEF ClientInv

\* send_request_to_master touches the master's timer only.
LEMMA AskMaster ==
    ASSUME ClientInv, NEW K, NEW k \in Key, SendToMaster(K, k)
    PROVE  /\ Timed(timers', massage') /\ DOMAIN timers' = DOMAIN timers
           /\ \A b \in Server : b \in DOMAIN timers => timers'[b] = timers[b]
           /\ \A b \in Server : b \in DOMAIN massage => massage'[b] = massage[b]
           /\ masterUp => toMaster' = toMaster \cup K /\ running' = running
           /\ ~masterUp => toMaster' = toMaster /\ running' \in BOOLEAN
<1>1. /\ Timed(timers, massage) /\ Master \in DOMAIN timers /\ Master \notin Server
  BY InvParts
<1>2. /\ masterUp => toMaster' = toMaster \cup K /\ running' = running
      /\ ~masterUp => toMaster' = toMaster /\ running' \in BOOLEAN
      /\ massage' = Local!With(massage, Master, k)
      /\ timers' = [timers EXCEPT ![Master] = start(reset(@))]
  BY DEF SendToMaster, SendKeys
<1>3. timers' = [u \in DOMAIN timers \cup {Master} |->
                   IF u = Master THEN Armed(timers, Master) ELSE timers[u]]
  BY <1>1, <1>2 DEF Armed, Timed
<1>4. timers' = Local!With(timers, Master, Armed(timers, Master))
  BY <1>3 DEF Local!With
<1>5. Timed(timers', massage')
  <2>1. Timed(Local!With(timers, Master, Armed(timers, Master)), Local!With(massage, Master, k))
    BY <1>1, ArmTimed
  <2> QED
    BY <1>2, <1>4, <2>1
<1>6. massage' = [u \in DOMAIN massage \cup {Master} |-> IF u = Master THEN k ELSE massage[u]]
  BY <1>2 DEF Local!With
<1> QED
  BY <1>1, <1>2, <1>3, <1>5, <1>6

\* An answer of the master stops its timer only.
LEMMA HearMaster ==
    ASSUME ClientInv, timers' = [timers EXCEPT ![Master] = stop(@)],
           massage' = Local!Without(massage, Master)
    PROVE  /\ Timed(timers', massage') /\ DOMAIN timers' = DOMAIN timers
           /\ \A b \in Server : b \in DOMAIN timers => timers'[b] = timers[b]
           /\ \A b \in Server : b \in DOMAIN massage => massage'[b] = massage[b]
<1>1. /\ Timed(timers, massage) /\ Master \in DOMAIN timers /\ Master \notin Server
  BY InvParts
<1>2. Timed(timers', massage')
  BY <1>1, StopTimed
<1>3. timers' = [u \in DOMAIN timers |-> IF u = Master THEN stop(timers[Master]) ELSE timers[u]]
  BY <1>1 DEF Timed
<1>4. massage' = [u \in DOMAIN massage \ {Master} |-> massage[u]]
  BY DEF Local!Without, Local!Restrict
<1> QED
  BY <1>1, <1>2, <1>3, <1>4

\* A server is given up: its keys are with the master, if that is up.
LEMMA GiveUpPreserves ==
    ASSUME ClientInv, NEW a \in Server, GiveUp(a)
    PROVE  ClientInv'
<1> DEFINE r == request_map_[a]
<1>1. /\ Rest /\ Timed(timers, massage) /\ Booked(request_map_)
      /\ DOMAIN massage = {t \in DOMAIN timers : timers[t].running}
      /\ NoKeyForgotten /\ ResendIsPending
      /\ EntryIsOutstanding /\ AnswerHasTimer
  BY InvParts
<1>2. /\ running /\ main.at = "check" /\ Len(r) > LOST_MAX_NUM
      /\ SendToMaster(ToSet(r), Last(r))
      /\ request_map_' = [request_map_ EXCEPT ![a] = <<>>]
      /\ gaveUp' = gaveUp \cup {a}
      /\ main' = main /\ known' = known /\ masterUp' = masterUp /\ conns' = conns
      /\ asked' = asked /\ astray' = astray
  BY DEF GiveUp, At, Lost
<1>3. r \in Seq(Key) /\ r # <<>>
  <2>1. r \in Seq(Key) /\ Len(r) \in Nat /\ LOST_MAX_NUM \in Nat
    BY <1>1, ClientAssumption DEF Booked
  <2> HIDE DEF r
  <2> QED
    BY <1>2, <2>1, EmptySeq
<1>4. Last(r) \in Key /\ ToSet(r) \subseteq Key
  BY <1>3, FrontLast, Elements
<1>5. /\ Timed(timers', massage') /\ DOMAIN timers' = DOMAIN timers
      /\ \A b \in Server : b \in DOMAIN timers => timers'[b] = timers[b]
      /\ \A b \in Server : b \in DOMAIN massage => massage'[b] = massage[b]
      /\ masterUp => toMaster' = toMaster \cup ToSet(r) /\ running' = running
      /\ ~masterUp => toMaster' = toMaster /\ running' \in BOOLEAN
  BY <1>2, <1>4, AskMaster
<1>6. /\ request_map_'[a] = <<>> /\ request_map_' \in [Server -> Seq(Key)]
      /\ \A b \in Server : b # a => request_map_'[b] = request_map_[b]
  BY <1>1, <1>2 DEF Booked
<1>7. ToSet(<<>>) = {} /\ NoRepeat(<<>>)
  BY DEF ToSet, NoRepeat
<1>8. Booked(request_map_')
  BY <1>1, <1>6, <1>7 DEF Booked
<1>9. Rest'
  BY <1>1, <1>2, <1>4, <1>5 DEF Rest
<1>10. Connecting'
  BY <1>2 DEF Connecting
<1>11. NoKeyForgotten'
  <2> SUFFICES ASSUME running', masterUp', NEW j \in asked'
               PROVE  j \in toMaster' \cup Pending'
    BY DEF NoKeyForgotten
  <2>1. toMaster' = toMaster \cup ToSet(r)
    BY <1>2, <1>5
  <2>2. j \in toMaster \/ \E b \in Server : j \in ToSet(request_map_[b])
    BY <1>1, <1>2, <1>5 DEF NoKeyForgotten, Pending
  <2> QED
    BY <1>6, <2>1, <2>2 DEF Pending
<1>12. ResendIsPending'
  <2> SUFFICES ASSUME NEW b \in Server, b \in DOMAIN timers', timers'[b].running
               PROVE  \/ massage'[b] \in ToSet(request_map_'[b])
                      \/ b \in gaveUp'
    BY DEF ResendIsPending
  <2>1. b \in DOMAIN timers /\ timers[b].running /\ b \in DOMAIN massage
    BY <1>1, <1>5
  <2>2. massage[b] \in ToSet(request_map_[b]) \/ b \in gaveUp
    BY <1>1, <1>2, <2>1 DEF ResendIsPending
  <2> QED
    BY <1>2, <1>5, <1>6, <2>1, <2>2
<1>13. EntryIsOutstanding'
  <2> SUFFICES ASSUME running', ~astray', NEW b \in Server, NEW j \in ToSet(request_map_'[b])
               PROVE  Opened(b, j) \in BagToSet(conns')
    BY DEF EntryIsOutstanding
  <2>1. b # a /\ j \in ToSet(request_map_[b])
    BY <1>6, <1>7
  <2> QED
    BY <1>1, <1>2, <2>1 DEF EntryIsOutstanding
<1>14. AnswerHasTimer'
  BY <1>1, <1>2, <1>5 DEF AnswerHasTimer
<1> QED
  BY <1>5, <1>8, <1>9, <1>10, <1>11, <1>12, <1>13, <1>14, TypeFromParts DEF ClientInv

\* The beginning of a request: it is booked, and the host of its server stored.
LEMMA BeginBooks ==
    ASSUME ClientInv, NEW a \in Server, NEW k \in Key, NEW then \in {Wait, Check},
           SendBegin(a, k, then)
    PROVE  /\ Booked(request_map_')
           /\ ToSet(request_map_'[a]) = ToSet(request_map_[a]) \cup {k}
           /\ \A b \in Server : b # a => request_map_'[b] = request_map_[b]
           /\ main' \in Place /\ main'.at = "port" /\ main'.key = k
           /\ main'.addr = a /\ main'.host = a.host
<1>1. Booked(request_map_)
  BY InvParts
<1>2. /\ request_map_' = [request_map_ EXCEPT ![a] =
                              IF k \in ToSet(@) THEN @ ELSE Append(@, k)]
      /\ main' = [at |-> "port", key |-> k, addr |-> a, host |-> a.host,
                  then |-> then]
  BY DEF SendBegin
<1>3. main' \in Place
  <2>1. a.host \in Host
    BY ClientAssumption
  <2> QED
    BY <1>2, <2>1 DEF Place
<1>4. /\ Booked(request_map_')
      /\ ToSet(request_map_'[a]) = ToSet(request_map_[a]) \cup {k}
      /\ \A b \in Server : b # a => request_map_'[b] = request_map_[b]
  <2>1. request_map_' = Added(request_map_, a, k)
    BY <1>2 DEF Added
  <2> QED
    BY <1>1, <2>1, AddItem
<1> QED
  BY <1>2, <1>3, <1>4

\* The child's key is booked for the server the local cache names, or asked of
\* the master.
LEMMA ChildPreserves ==
    ASSUME ClientInv, NEW k \in Key, dealwith_child(k)
    PROVE  ClientInv'
<1>1. /\ Rest /\ Timed(timers, massage) /\ Booked(request_map_)
      /\ DOMAIN massage = {t \in DOMAIN timers : timers[t].running}
      /\ NoKeyForgotten /\ ResendIsPending
      /\ EntryIsOutstanding /\ AnswerHasTimer
  BY InvParts
<1>2. /\ running /\ main.at = "wait" /\ asked' = asked \cup {k}
      /\ known' = known /\ masterUp' = masterUp /\ conns' = conns
      /\ astray' = astray /\ gaveUp' = gaveUp
  BY DEF dealwith_child, At
<1>3. CASE /\ k \in DOMAIN known
           /\ SendBegin(known[k], k, Check)
           /\ UNCHANGED <<running, toMaster, timers, massage>>
  <2> DEFINE a == known[k]
  <2>1. a \in Server
    BY <1>1, <1>3 DEF Rest
  <2>2. /\ Booked(request_map_')
        /\ ToSet(request_map_'[a]) = ToSet(request_map_[a]) \cup {k}
        /\ \A b \in Server : b # a => request_map_'[b] = request_map_[b]
        /\ main' \in Place /\ main'.at = "port" /\ main'.key = k
        /\ main'.addr = a /\ main'.host = a.host
    BY <1>3, <2>1, BeginBooks
  <2>3. running' = running /\ toMaster' = toMaster /\ timers' = timers /\ massage' = massage
    BY <1>3
  <2> HIDE DEF a
  <2>4. \A b \in Server : ToSet(request_map_[b]) \subseteq ToSet(request_map_'[b])
    BY <2>2
  <2>5. Rest'
    BY <1>1, <1>2, <2>2, <2>3 DEF Rest
  <2>6. Timed(timers', massage') /\ Connecting'
    BY <1>1, <2>1, <2>2, <2>3 DEF Connecting
  <2>7. NoKeyForgotten'
    BY <1>1, <1>2, <2>1, <2>2, <2>3, <2>4 DEF NoKeyForgotten, Pending
  <2>8. ResendIsPending'
    BY <1>1, <1>2, <2>3, <2>4 DEF ResendIsPending
  <2>9. EntryIsOutstanding'
    BY <1>1, <1>2, <2>1, <2>2, <2>3 DEF EntryIsOutstanding
  <2>10. AnswerHasTimer'
    BY <1>1, <1>2, <2>3 DEF AnswerHasTimer
  <2> QED
    BY <2>2, <2>5, <2>6, <2>7, <2>8, <2>9, <2>10, TypeFromParts DEF ClientInv
<1>4. CASE /\ SendToMaster({k}, k)
           /\ main' = Check
           /\ UNCHANGED request_map_
  <2>1. /\ Timed(timers', massage') /\ DOMAIN timers' = DOMAIN timers
        /\ \A b \in Server : b \in DOMAIN timers => timers'[b] = timers[b]
        /\ \A b \in Server : b \in DOMAIN massage => massage'[b] = massage[b]
        /\ masterUp => toMaster' = toMaster \cup {k} /\ running' = running
        /\ ~masterUp => toMaster' = toMaster /\ running' \in BOOLEAN
    BY <1>4, AskMaster
  <2>2. main' \in Place /\ main'.at = "check"
    BY <1>4, Places
  <2>3. Booked(request_map_') /\ request_map_' = request_map_
    BY <1>1, <1>4
  <2>4. Rest'
    BY <1>1, <1>2, <2>1, <2>2 DEF Rest
  <2>5. Connecting'
    BY <2>2 DEF Connecting
  <2>6. NoKeyForgotten'
    BY <1>1, <1>2, <2>1, <2>3 DEF NoKeyForgotten, Pending
  <2>7. ResendIsPending'
    <3> SUFFICES ASSUME NEW b \in Server, b \in DOMAIN timers', timers'[b].running
                 PROVE  \/ massage'[b] \in ToSet(request_map_'[b])
                        \/ b \in gaveUp'
      BY DEF ResendIsPending
    <3>1. b \in DOMAIN timers /\ timers[b].running /\ b \in DOMAIN massage
      BY <1>1, <2>1
    <3>2. massage[b] \in ToSet(request_map_[b]) \/ b \in gaveUp
      BY <1>1, <1>2, <3>1 DEF ResendIsPending
    <3> QED
      BY <1>2, <2>1, <2>3, <3>1, <3>2
  <2>8. EntryIsOutstanding'
    BY <1>1, <1>2, <2>3 DEF EntryIsOutstanding
  <2>9. AnswerHasTimer'
    BY <1>1, <1>2, <2>1 DEF AnswerHasTimer
  <2> QED
    BY <2>1, <2>3, <2>4, <2>5, <2>6, <2>7, <2>8, <2>9, TypeFromParts DEF ClientInv
<1> QED
  BY <1>3, <1>4 DEF dealwith_child

\* What a put leaves in the local cache.
LEMMA PutsType ==
    ASSUME NEW f, DOMAIN f \subseteq Key, f \in [DOMAIN f -> Server],
           NEW k \in Key, NEW a \in Server, NEW g \in Local!Puts(f, k, a)
    PROVE  DOMAIN g \subseteq Key /\ g \in [DOMAIN g -> Server]
<1> DEFINE W == [j \in DOMAIN f \cup {k} |-> IF j = k THEN a ELSE f[j]]
<1>1. W \in [DOMAIN f \cup {k} -> Server]
  OBVIOUS
<1>2. g = W \/ \E j \in Key : g = [i \in DOMAIN W \ {j} |-> W[i]]
  BY DEF Local!Puts, Local!With, Local!Without, Local!Restrict
<1> HIDE DEF W
<1>3. DOMAIN W \subseteq Key
  BY <1>1
<1> QED
  BY <1>1, <1>2, <1>3

\* What an erasure leaves in it.
LEMMA WithoutType ==
    ASSUME NEW f, DOMAIN f \subseteq Key, f \in [DOMAIN f -> Server], NEW k
    PROVE  /\ DOMAIN Local!Without(f, k) \subseteq Key
           /\ Local!Without(f, k) \in [DOMAIN Local!Without(f, k) -> Server]
BY DEF Local!Without, Local!Restrict

\* The master's answer moves the key from the master to the server it names.
LEMMA MasterPreserves ==
    ASSUME ClientInv, NEW k \in Key, NEW a \in Server, dealwith_master(k, a)
    PROVE  ClientInv'
<1>1. /\ Rest /\ Timed(timers, massage) /\ Booked(request_map_)
      /\ DOMAIN massage = {t \in DOMAIN timers : timers[t].running}
      /\ NoKeyForgotten /\ ResendIsPending
      /\ EntryIsOutstanding /\ AnswerHasTimer
  BY InvParts
<1>2. /\ running /\ main.at = "wait" /\ toMaster' = toMaster \ {k}
      /\ known' \in Local!Puts(known, k, a)
      /\ SendBegin(a, k, Wait)
      /\ timers' = [timers EXCEPT ![Master] = stop(@)]
      /\ massage' = Local!Without(massage, Master)
      /\ running' = running /\ masterUp' = masterUp /\ conns' = conns
      /\ asked' = asked /\ astray' = astray /\ gaveUp' = gaveUp
  BY DEF dealwith_master, At, history
<1>3. /\ Timed(timers', massage') /\ DOMAIN timers' = DOMAIN timers
      /\ \A b \in Server : b \in DOMAIN timers => timers'[b] = timers[b]
      /\ \A b \in Server : b \in DOMAIN massage => massage'[b] = massage[b]
  BY <1>2, HearMaster
<1>4. /\ Booked(request_map_')
      /\ ToSet(request_map_'[a]) = ToSet(request_map_[a]) \cup {k}
      /\ \A b \in Server : b # a => request_map_'[b] = request_map_[b]
      /\ main' \in Place /\ main'.at = "port" /\ main'.key = k
      /\ main'.addr = a /\ main'.host = a.host
  BY <1>2, BeginBooks
<1>5. \A b \in Server : ToSet(request_map_[b]) \subseteq ToSet(request_map_'[b])
  BY <1>4
<1>6. Rest'
  <2>1. DOMAIN known' \subseteq Key /\ known' \in [DOMAIN known' -> Server]
    BY <1>1, <1>2, PutsType DEF Rest
  <2> QED
    BY <1>1, <1>2, <1>4, <2>1 DEF Rest
<1>7. Connecting'
  BY <1>4 DEF Connecting
<1>8. NoKeyForgotten'
  BY <1>1, <1>2, <1>4, <1>5 DEF NoKeyForgotten, Pending
<1>9. ResendIsPending'
  <2> SUFFICES ASSUME NEW b \in Server, b \in DOMAIN timers', timers'[b].running
               PROVE  \/ massage'[b] \in ToSet(request_map_'[b])
                      \/ b \in gaveUp'
    BY DEF ResendIsPending
  <2>1. b \in DOMAIN timers /\ timers[b].running /\ b \in DOMAIN massage
    BY <1>1, <1>3
  <2>2. massage[b] \in ToSet(request_map_[b]) \/ b \in gaveUp
    BY <1>1, <1>2, <2>1 DEF ResendIsPending
  <2> QED
    BY <1>2, <1>3, <1>5, <2>1, <2>2
<1>10. EntryIsOutstanding'
  BY <1>1, <1>2, <1>4 DEF EntryIsOutstanding
<1>11. AnswerHasTimer'
  BY <1>1, <1>2, <1>3 DEF AnswerHasTimer
<1> QED
  BY <1>3, <1>4, <1>6, <1>7, <1>8, <1>9, <1>10, <1>11, TypeFromParts DEF ClientInv

\* The master closes the connection.
LEMMA MasterEofPreserves ==
    ASSUME ClientInv, MasterEof
    PROVE  ClientInv'
<1>1. /\ Rest /\ Timed(timers, massage) /\ Booked(request_map_)
      /\ DOMAIN massage = {t \in DOMAIN timers : timers[t].running}
      /\ Connecting /\ NoKeyForgotten /\ ResendIsPending
      /\ EntryIsOutstanding /\ AnswerHasTimer
  BY InvParts
<1>2. /\ main.at = "wait"
      /\ timers' = [timers EXCEPT ![Master] = stop(@)]
      /\ massage' = Local!Without(massage, Master)
      /\ running' = running /\ main' = main /\ known' = known /\ toMaster' = toMaster
      /\ request_map_' = request_map_ /\ masterUp' = masterUp /\ conns' = conns
      /\ asked' = asked /\ astray' = astray /\ gaveUp' = gaveUp
  BY DEF MasterEof, At, master, history
<1>3. /\ Timed(timers', massage') /\ DOMAIN timers' = DOMAIN timers
      /\ \A b \in Server : b \in DOMAIN timers => timers'[b] = timers[b]
      /\ \A b \in Server : b \in DOMAIN massage => massage'[b] = massage[b]
  BY <1>2, HearMaster
<1>4. Rest' /\ Booked(request_map_') /\ Connecting'
  BY <1>1, <1>2, <1>3 DEF Rest, Connecting
<1>5. NoKeyForgotten' /\ EntryIsOutstanding'
  BY <1>1, <1>2 DEF NoKeyForgotten, Pending, EntryIsOutstanding
<1>6. ResendIsPending'
  <2> SUFFICES ASSUME NEW b \in Server, b \in DOMAIN timers', timers'[b].running
               PROVE  \/ massage'[b] \in ToSet(request_map_'[b])
                      \/ b \in gaveUp'
    BY DEF ResendIsPending
  <2>1. b \in DOMAIN timers /\ timers[b].running /\ b \in DOMAIN massage
    BY <1>1, <1>3
  <2>2. massage[b] \in ToSet(request_map_[b]) \/ b \in gaveUp
    BY <1>1, <1>2, <2>1 DEF ResendIsPending
  <2> QED
    BY <1>2, <1>3, <2>1, <2>2
<1>7. AnswerHasTimer'
  BY <1>1, <1>2, <1>3 DEF AnswerHasTimer
<1> QED
  BY <1>3, <1>4, <1>5, <1>6, <1>7, TypeFromParts DEF ClientInv

\* A server's answer takes its request out of the map, once and for all: the
\* key was there once at most.
LEMMA AnswerPreserves ==
    ASSUME ClientInv, dealwith_cache_server
    PROVE  ClientInv'
<1>1. /\ Rest /\ Timed(timers, massage) /\ Booked(request_map_)
      /\ NoKeyForgotten /\ ResendIsPending
      /\ EntryIsOutstanding /\ AnswerHasTimer
  BY InvParts
<1>2. PICK conn \in BagToSet(conns), reply \in {"SUCCESS", "FAILED"} :
        /\ conns' = conns (-) SetToBag({conn})
        /\ EraseItem(conn, reply)
        /\ known' = IF reply = "FAILED" THEN Local!Without(known, conn.key) ELSE known
        /\ main' = [at |-> "stop", addr |-> conn.to]
        /\ asked' = asked \ {conn.key}
  BY DEF dealwith_cache_server
<1>3. /\ running /\ main.at = "wait"
      /\ running' = running /\ timers' = timers /\ massage' = massage
      /\ toMaster' = toMaster /\ masterUp' = masterUp
      /\ astray' = astray /\ gaveUp' = gaveUp
  BY DEF dealwith_cache_server, At, master
<1>4. conn \in Conn /\ conn.to \in Server /\ conn.key \in Key
  BY <1>1 DEF Rest, Conn
<1>5. \A b \in Server, j \in Key : Opened(b, j) = conn => b = conn.to /\ j = conn.key
  BY DEF Opened
<1> DEFINE to == conn.to
           key == conn.key
           d == Dropped(request_map_[to], key)
<1>6. /\ request_map_' = [b \in Server |-> IF b = to THEN d ELSE request_map_[b]]
  BY <1>1, <1>2 DEF EraseItem, Booked
<1>7. d \in Seq(Key) /\ NoRepeat(d) /\ ToSet(d) = ToSet(request_map_[to]) \ {key}
  BY <1>1, <1>4, DroppedElements DEF Booked
<1> HIDE DEF d
<1>8. /\ Booked(request_map_')
      /\ ToSet(request_map_'[to]) = ToSet(request_map_[to]) \ {key}
      /\ \A b \in Server : b # to => request_map_'[b] = request_map_[b]
  BY <1>1, <1>4, <1>6, <1>7 DEF Booked
<1>9. /\ IsABag(conns') /\ BagToSet(conns') \subseteq BagToSet(conns)
      /\ BagToSet(conns) \subseteq BagToSet(conns') \cup {conn}
  BY <1>1, <1>2, CloseConn DEF Rest
<1>10. main' \in Place /\ main'.at = "stop" /\ main' = [at |-> "stop", addr |-> to]
  BY <1>2, <1>4, Places
<1>11. Rest'
  <2>1. DOMAIN known' \subseteq Key /\ known' \in [DOMAIN known' -> Server]
    <3>1. DOMAIN known \subseteq Key /\ known \in [DOMAIN known -> Server]
      BY <1>1 DEF Rest
    <3>2. CASE reply = "FAILED"
      BY <1>2, <3>1, <3>2, WithoutType
    <3>3. CASE reply # "FAILED"
      BY <1>2, <3>1, <3>3
    <3> QED
      BY <3>2, <3>3
  <2> QED
    BY <1>1, <1>2, <1>3, <1>9, <1>10, <2>1 DEF Rest
<1>12. Timed(timers', massage') /\ Connecting'
  BY <1>1, <1>3, <1>10 DEF Connecting
<1>13. NoKeyForgotten'
  <2> SUFFICES ASSUME running', masterUp', NEW j \in asked'
               PROVE  j \in toMaster' \cup Pending'
    BY DEF NoKeyForgotten
  <2>1. j # key /\ j \in asked
    BY <1>2
  <2>2. j \in toMaster \/ \E b \in Server : j \in ToSet(request_map_[b])
    BY <1>1, <1>3, <2>1 DEF NoKeyForgotten, Pending
  <2>3. \A b \in Server : j \in ToSet(request_map_[b]) => j \in ToSet(request_map_'[b])
    BY <1>8, <2>1
  <2> QED
    BY <1>3, <2>2, <2>3 DEF Pending
<1>14. ResendIsPending'
  <2> SUFFICES ASSUME NEW b \in Server, b \in DOMAIN timers', timers'[b].running
               PROVE  \/ massage'[b] \in ToSet(request_map_'[b])
                      \/ main' = [at |-> "stop", addr |-> b]
                      \/ b \in gaveUp'
    BY DEF ResendIsPending
  <2>1. massage[b] \in ToSet(request_map_[b]) \/ b \in gaveUp
    BY <1>1, <1>3 DEF ResendIsPending
  <2> QED
    BY <1>3, <1>8, <1>10, <2>1
<1>15. EntryIsOutstanding'
  <2> SUFFICES ASSUME running', ~astray', NEW b \in Server, NEW j \in ToSet(request_map_'[b])
               PROVE  Opened(b, j) \in BagToSet(conns')
    BY DEF EntryIsOutstanding
  <2>1. j \in ToSet(request_map_[b]) /\ ~(b = to /\ j = key)
    BY <1>8
  <2>2. j \in Key
    BY <1>1, <2>1, Elements DEF Booked
  <2>3. Opened(b, j) # conn
    BY <1>5, <2>1, <2>2
  <2>4. Opened(b, j) \in BagToSet(conns)
    BY <1>1, <1>3, <2>1 DEF EntryIsOutstanding
  <2> QED
    BY <1>9, <2>3, <2>4
<1>16. AnswerHasTimer'
  BY <1>1, <1>3, <1>9 DEF AnswerHasTimer
<1> QED
  BY <1>8, <1>11, <1>12, <1>13, <1>14, <1>15, <1>16, TypeFromParts DEF ClientInv

\* The client crashes, or the master stops: less is promised.
LEMMA StopsPreserve ==
    ASSUME ClientInv, ServerEof \/ MasterStops
    PROVE  ClientInv'
<1>1. /\ Rest /\ Timed(timers, massage) /\ Booked(request_map_)
      /\ Connecting /\ NoKeyForgotten /\ ResendIsPending
      /\ EntryIsOutstanding /\ AnswerHasTimer
  BY InvParts
<1>2. /\ main' = main /\ known' = known /\ request_map_' = request_map_
      /\ timers' = timers /\ massage' = massage /\ conns' = conns
      /\ asked' = asked /\ astray' = astray /\ gaveUp' = gaveUp
      /\ toMaster' \subseteq toMaster
      /\ \/ running' = FALSE /\ masterUp' = masterUp
         \/ masterUp' = FALSE /\ running' = running
  BY DEF ServerEof, MasterStops, master, history
<1>3. Rest' /\ Timed(timers', massage') /\ Booked(request_map_') /\ Connecting'
  BY <1>1, <1>2 DEF Rest, Connecting
<1>4. NoKeyForgotten' /\ EntryIsOutstanding'
  BY <1>1, <1>2 DEF NoKeyForgotten, EntryIsOutstanding
<1>5. ResendIsPending' /\ AnswerHasTimer'
  BY <1>1, <1>2 DEF ResendIsPending, AnswerHasTimer
<1> QED
  BY <1>3, <1>4, <1>5, TypeFromParts DEF ClientInv

\* A signal between any two steps of the main loop: it opens connections to
\* servers that have a timer, and may divert the one that is being opened.
LEMMA TickPreserves ==
    ASSUME ClientInv, Tick
    PROVE  ClientInv'
<1> DEFINE C == [t \in DOMAIN timers |-> Counted(timers[t])]
           due == {t \in DOMAIN timers : Due(C[t])}
<1>1. /\ Rest /\ Timed(timers, massage) /\ Booked(request_map_)
      /\ DOMAIN massage = {t \in DOMAIN timers : timers[t].running}
      /\ Connecting /\ NoKeyForgotten /\ ResendIsPending
      /\ EntryIsOutstanding /\ AnswerHasTimer
  BY InvParts
<1>2. /\ running
      /\ timers' = [t \in DOMAIN timers |-> Settled(C[t])]
      /\ massage' = Restrict(massage, DOMAIN massage \ due)
      /\ \E S \in SUBSET (due \cap Server) :
            conns' = conns (+) SetToBag({Opened(a, massage[a]) : a \in S})
      /\ IF main.at \in {"port", "connect"} /\ due \cap Server # {}
         THEN \E a \in due \cap Server :
                 main' = IF main.at = "port" THEN [main EXCEPT !.host = a.host]
                         ELSE [main EXCEPT !.cache_sever_addr_ = a]
         ELSE main' = main
      /\ IF Master \in due THEN SendKeys({massage[Master]})
         ELSE toMaster' = toMaster /\ running' = running
      /\ known' = known /\ request_map_' = request_map_ /\ masterUp' = masterUp
      /\ asked' = asked /\ astray' = astray /\ gaveUp' = gaveUp
  BY DEF Tick, history
<1>3. /\ Timed(timers', massage') /\ DOMAIN timers' = DOMAIN timers
      /\ due \subseteq DOMAIN massage /\ due \subseteq DOMAIN timers
      /\ \A t \in DOMAIN timers : timers'[t].running <=> timers[t].running /\ t \notin due
      /\ \A t \in DOMAIN massage \ due : massage'[t] = massage[t]
  <2>1. due = Firing(timers)
    BY DEF Firing
  <2>2. timers' = Ticked(timers)
    BY <1>2 DEF Ticked
  <2>3. massage' = [t \in DOMAIN massage \ due |-> massage[t]]
    BY <1>2 DEF Restrict
  <2>4. /\ Timed(Ticked(timers), Restrict(massage, DOMAIN massage \ Firing(timers)))
        /\ Firing(timers) \subseteq DOMAIN massage
        /\ \A t \in DOMAIN timers :
              Ticked(timers)[t].running <=> timers[t].running /\ t \notin Firing(timers)
    BY <1>1, TickTimed
  <2>5. DOMAIN timers' = DOMAIN timers /\ due \subseteq DOMAIN timers
    BY <1>2
  <2>6. massage' = Restrict(massage, DOMAIN massage \ due)
    BY <1>2
  <2> HIDE DEF due
  <2> QED
    BY <2>1, <2>2, <2>3, <2>4, <2>5, <2>6
<1> HIDE DEF C, due
<1>4. \A t \in DOMAIN massage : massage[t] \in Key
  BY <1>1 DEF Timed
<1>5. /\ toMaster \subseteq toMaster' /\ toMaster' \subseteq Key
      /\ running' \in BOOLEAN
  <2>1. toMaster \subseteq Key /\ running \in BOOLEAN
    BY <1>1 DEF Rest
  <2>2. CASE Master \in due
    <3>1. massage[Master] \in Key
      BY <1>3, <1>4, <2>2
    <3> QED
      BY <1>2, <2>1, <2>2, <3>1 DEF SendKeys
  <2>3. CASE Master \notin due
    BY <1>2, <2>1, <2>3
  <2> QED
    BY <2>2, <2>3
<1>6. PICK S \in SUBSET (due \cap Server) :
        conns' = conns (+) SetToBag({Opened(a, massage[a]) : a \in S})
  BY <1>2
<1>7. /\ IsABag(conns')
      /\ BagToSet(conns') = BagToSet(conns) \cup {Opened(a, massage[a]) : a \in S}
  BY <1>1, <1>6, OpenConns DEF Rest
<1>8. \A a \in S : /\ a \in Server /\ a \in DOMAIN timers
                   /\ Opened(a, massage[a]) \in Conn /\ Opened(a, massage[a]).to = a
  BY <1>3, <1>4 DEF Opened, Conn
<1>9. main.at \notin {"port", "connect"} => main' = main
  BY <1>2
<1>10. main.at \in {"port", "connect"} =>
         /\ main' \in Place /\ main'.at = main.at /\ main'.key = main.key
         /\ main'.addr = main.addr
         /\ \/ main' = main
            \/ \E a \in due \cap Server :
                  /\ main.at = "port" => main'.host = a.host
                  /\ main.at = "connect" => main'.cache_sever_addr_ = a
  <2>1. main \in Place
    BY <1>1 DEF Rest
  <2>2. CASE main.at \in {"port", "connect"} /\ due \cap Server # {}
    <3>1. PICK a \in due \cap Server :
             main' = IF main.at = "port" THEN [main EXCEPT !.host = a.host]
                     ELSE [main EXCEPT !.cache_sever_addr_ = a]
      BY <1>2, <2>2
    <3>2. a \in Address /\ a.host \in Host
      BY <3>1, ClientAssumption DEF Address
    <3>3. CASE main.at = "port"
      <4>1. main \in [at : {"port"}, key : Key, addr : Server, host : Host,
                      then : {Wait, Check}]
        BY <2>1, <3>3 DEF Place, Wait, Check
      <4>2. /\ main' \in [at : {"port"}, key : Key, addr : Server, host : Host,
                           then : {Wait, Check}]
            /\ main'.key = main.key /\ main'.addr = main.addr
            /\ main'.at = main.at /\ main'.host = a.host
        BY <3>1, <3>2, <3>3, <4>1
      <4> QED
        BY <3>1, <3>3, <4>2 DEF Place
    <3>4. CASE main.at = "connect"
      <4>1. main \in [at : {"connect"}, key : Key, addr : Server,
                      cache_sever_addr_ : Address, then : {Wait, Check}]
        BY <2>1, <3>4 DEF Place, Wait, Check
      <4>2. /\ main' \in [at : {"connect"}, key : Key, addr : Server,
                           cache_sever_addr_ : Address, then : {Wait, Check}]
            /\ main'.key = main.key /\ main'.addr = main.addr
            /\ main'.at = main.at /\ main'.cache_sever_addr_ = a
        BY <3>1, <3>2, <3>4, <4>1
      <4> QED
        BY <3>1, <3>4, <4>2 DEF Place
    <3> QED
      BY <2>2, <3>3, <3>4
  <2>3. CASE ~(main.at \in {"port", "connect"} /\ due \cap Server # {})
    <3>1. main' = main
      BY <1>2, <2>3
    <3> QED
      BY <2>1, <3>1
  <2> QED
    BY <2>2, <2>3
<1>11. Rest'
  <2>1. main' \in Place
    BY <1>1, <1>9, <1>10 DEF Rest
  <2>2. BagToSet(conns') \subseteq Conn
    BY <1>1, <1>7, <1>8 DEF Rest
  <2> QED
    BY <1>1, <1>2, <1>5, <1>7, <2>1, <2>2 DEF Rest
<1>12. Booked(request_map_')
  BY <1>1, <1>2
<1>13. Connecting'
  <2>1. CASE main' = main
    BY <1>1, <1>2, <1>3, <2>1 DEF Connecting
  <2>2. CASE main' # main
    <3>1. main.at \in {"port", "connect"}
      BY <1>9, <2>2
    <3>2. PICK a \in due \cap Server :
             /\ main.at = "port" => main'.host = a.host
             /\ main.at = "connect" => main'.cache_sever_addr_ = a
      BY <1>10, <2>2, <3>1
    <3>3. a \in Server \cap (DOMAIN timers' \cup {main'.addr})
      BY <1>3, <3>2
    <3>4. Crossing(DOMAIN timers' \cup {main'.addr}, a)
      BY <3>3, CrossingSelf
    <3> QED
      BY <1>1, <1>2, <1>10, <3>1, <3>2, <3>3, <3>4 DEF Connecting
  <2> QED
    BY <2>1, <2>2
<1>14. NoKeyForgotten'
  BY <1>1, <1>2, <1>5 DEF NoKeyForgotten, Pending
<1>15. ResendIsPending'
  <2> SUFFICES ASSUME NEW b \in Server, b \in DOMAIN timers', timers'[b].running
               PROVE  \/ massage'[b] \in ToSet(request_map_'[b])
                      \/ main' = [at |-> "stop", addr |-> b]
                      \/ b \in gaveUp'
    BY DEF ResendIsPending
  <2>1. b \in DOMAIN timers /\ timers[b].running /\ b \in DOMAIN massage \ due
    BY <1>1, <1>3
  <2>2. \/ massage[b] \in ToSet(request_map_[b])
        \/ main = [at |-> "stop", addr |-> b]
        \/ b \in gaveUp
    BY <1>1, <2>1 DEF ResendIsPending
  <2>3. main = [at |-> "stop", addr |-> b] => main' = main
    BY <1>9
  <2> QED
    BY <1>2, <1>3, <2>1, <2>2, <2>3
<1>16. EntryIsOutstanding'
  <2> SUFFICES ASSUME running', ~astray', NEW b \in Server, NEW j \in ToSet(request_map_'[b])
               PROVE  \/ Opened(b, j) \in BagToSet(conns')
                      \/ /\ main'.at \in {"port", "connect"}
                         /\ main'.addr = b /\ main'.key = j
    BY DEF EntryIsOutstanding
  <2>1. \/ Opened(b, j) \in BagToSet(conns)
        \/ main.at \in {"port", "connect"} /\ main.addr = b /\ main.key = j
    BY <1>1, <1>2 DEF EntryIsOutstanding
  <2> QED
    BY <1>7, <1>10, <2>1
<1>17. AnswerHasTimer'
  BY <1>1, <1>3, <1>7, <1>8, CrossingSelf DEF AnswerHasTimer
<1> QED
  BY <1>3, <1>11, <1>12, <1>13, <1>14, <1>15, <1>16, <1>17, TypeFromParts DEF ClientInv

-----------------------------------------------------------------------------
\* A client that has just started satisfies the invariant.
LEMMA InitInv ==
    ASSUME Init
    PROVE  ClientInv
<1>1. WAITING_TIME \in Nat /\ WAITING_TIME > 0 /\ Master \notin Server
  BY ClientAssumption
<1>2. /\ known = [k \in {} |-> k] /\ running = TRUE /\ main = Wait
      /\ request_map_ = [a \in Server |-> <<>>]
      /\ timers = [t \in {Master} |-> NewTimer(WAITING_TIME, FALSE)]
      /\ massage = [t \in {} |-> t]
      /\ toMaster = {} /\ masterUp = TRUE
      /\ conns = EmptyBag
      /\ asked = {} /\ astray = FALSE /\ gaveUp = {}
  BY DEF Init
<1>3. BagToSet(conns) = {} /\ IsABag(conns)
  BY <1>2 DEF EmptyBag, SetToBag, BagToSet, IsABag
<1>4. main \in Place /\ main.at = "wait"
  BY <1>2, Places
<1>5. Rest
  BY <1>2, <1>3, <1>4 DEF Rest
<1>6. /\ NewTimer(WAITING_TIME, FALSE) \in TimerType
      /\ NewTimer(WAITING_TIME, FALSE).timeout = WAITING_TIME
      /\ NewTimer(WAITING_TIME, FALSE).periodic = FALSE
      /\ NewTimer(WAITING_TIME, FALSE).running = FALSE
  BY <1>1 DEF NewTimer, TimerType
<1>7. Timed(timers, massage)
  <2>1. DOMAIN timers = {Master} /\ timers[Master] = NewTimer(WAITING_TIME, FALSE)
    BY <1>2
  <2>2. {t \in DOMAIN timers : timers[t].running} = {}
    BY <1>6, <2>1
  <2> QED
    BY <1>2, <1>6, <2>1, <2>2 DEF Timed
<1>8. ToSet(<<>>) = {} /\ NoRepeat(<<>>)
  BY DEF ToSet, NoRepeat
<1>9. \A a \in Server : request_map_[a] = <<>>
  BY <1>2
<1>10. Booked(request_map_)
  BY <1>2, <1>8, <1>9 DEF Booked
<1>11. Connecting /\ NoKeyForgotten /\ EntryIsOutstanding /\ AnswerHasTimer
  BY <1>2, <1>3, <1>4, <1>8, <1>9
     DEF Connecting, NoKeyForgotten, EntryIsOutstanding, AnswerHasTimer
<1>12. ResendIsPending
  BY <1>1, <1>2 DEF ResendIsPending
<1>13. TypeOK
  BY <1>5, <1>7, <1>10 DEF TypeOK, Rest, Timed, Booked
<1> QED
  BY <1>7, <1>10, <1>11, <1>12, <1>13 DEF ClientInv

\* A step that changes nothing.
LEMMA StutterInv ==
    ASSUME ClientInv, UNCHANGED vars
    PROVE  ClientInv'
<1>1. /\ main' = main /\ known' = known /\ request_map_' = request_map_
      /\ timers' = timers /\ massage' = massage /\ conns' = conns
      /\ asked' = asked /\ astray' = astray /\ gaveUp' = gaveUp
      /\ toMaster' = toMaster /\ running' = running /\ masterUp' = masterUp
  BY DEF vars, master, history
<1> QED
  BY <1>1 DEF ClientInv, TypeOK, Timed, Booked, Connecting, NoKeyForgotten, Pending,
              ResendIsPending, EntryIsOutstanding, AnswerHasTimer

\* Every step keeps the invariant.
LEMMA NextInv ==
    ASSUME ClientInv, [Next]_vars
    PROVE  ClientInv'
<1>0. Named \subseteq Server
  BY ClientAssumption
<1>1. CASE Next
  BY <1>0, <1>1, ChildPreserves, SendPortPreserves, SendEndPreserves, StopTimerPreserves,
     CheckEndPreserves, GiveUpPreserves, MasterPreserves, MasterEofPreserves, AnswerPreserves,
     StopsPreserve, TickPreserves
     DEF Next, Child, Loop, Events
<1>2. CASE UNCHANGED vars
  BY <1>2, StutterInv
<1> QED
  BY <1>1, <1>2

\* The invariant holds throughout.
LEMMA AlwaysInv == Spec => []ClientInv
BY InitInv, NextInv, PTL DEF Spec

-----------------------------------------------------------------------------
\* The client's state has its type; in particular a timer that runs has a
\* message to resend and one that does not run has none.
THEOREM ClientTypeCorrect == Spec => []TypeOK
<1>1. ClientInv => TypeOK
  BY DEF ClientInv
<1> QED
  BY AlwaysInv, <1>1, PTL

\* No key the child asked for is forgotten while the master is up.
THEOREM ClientNoKeyForgotten == Spec => []NoKeyForgotten
<1>1. ClientInv => NoKeyForgotten
  BY DEF ClientInv
<1> QED
  BY AlwaysInv, <1>1, PTL

\* A timer that runs will resend a request that is still booked, but for the
\* two windows that the property names.
THEOREM ClientResendIsPending == Spec => []ResendIsPending
<1>1. ClientInv => ResendIsPending
  BY DEF ClientInv
<1> QED
  BY AlwaysInv, <1>1, PTL

\* What is booked for a server is outstanding there.
THEOREM ClientEntryIsOutstanding == Spec => []EntryIsOutstanding
<1>1. ClientInv => EntryIsOutstanding
  BY DEF ClientInv
<1> QED
  BY AlwaysInv, <1>1, PTL

\* Every answer comes from a server with a timer to stop, or from the crossing
\* of two that have one; and no timer counts past zero.
THEOREM ClientAnswersFindTimer == Spec => []AnswersFindTimer
<1>1. ClientInv => AnswersFindTimer
  BY DEF ClientInv, Timed, AnswerHasTimer, AnswersFindTimer, Crossed, Crossing
<1> QED
  BY AlwaysInv, <1>1, PTL

\* With all servers on one host, as the repository starts them for its
\* demonstration (演示注意事项.md),
\* or on one port, there is no crossing: every answer finds its timer,
\* wherever the signals come, and dealwith_cache_server no null pointer.
THEOREM ClientOneHostIsSafe ==
    ASSUME \/ \A a, b \in Server : a.host = b.host
           \/ \A a, b \in Server : a.port = b.port
    PROVE  Spec => [](\A conn \in BagToSet(conns) : conn.to \in DOMAIN timers)
<1>1. ASSUME NEW D, NEW s, Crossing(D, s)
      PROVE  s \in D
  <2>1. PICK a \in Server \cap D, b \in Server \cap D : s = [host |-> a.host, port |-> b.port]
    BY <1>1 DEF Crossing
  <2>2. /\ a = [host |-> a.host, port |-> a.port]
        /\ b = [host |-> b.host, port |-> b.port]
    <3>1. a \in [host : Host, port : Port] /\ b \in [host : Host, port : Port]
      BY <2>1, ClientAssumption
    <3> QED
      BY <3>1
  <2>3. a.host = b.host \/ a.port = b.port
    BY <2>1
  <2> QED
    BY <2>1, <2>2, <2>3
<1>2. ClientInv => \A conn \in BagToSet(conns) : conn.to \in DOMAIN timers
  BY <1>1 DEF ClientInv, AnswerHasTimer
<1> QED
  BY AlwaysInv, <1>2, PTL
=============================================================================
