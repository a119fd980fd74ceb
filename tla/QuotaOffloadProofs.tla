------------------------- MODULE QuotaOffloadProofs -------------------------
(***************************************************************************)
(* What holds of QuotaOffload for every set of addresses and connections,  *)
(* every limit and every capacity of map and queue.                        *)
(***************************************************************************)
EXTENDS QuotaOffload, EquicCountersProofs

(* The strengthening of TypeOK: what the slots, the queue and the end of   *)
(* the process have to do with one another.                                *)
PeerKnown == \A c \in Conn : stage[c] # "none" => peer[c] \in Addr

QueueBounded == IsFiniteSet(rxq) /\ Cardinality(rxq) <= RxCap

PathOnlyIfAllowed == \A p \in rxq : p.kind = "path" => MigrationAllowed

EndIsEmpty ==
  /\ prog # "running" => rxq = {}
  /\ prog = "exited" => \A c \in Conn : stage[c] = "none"

Shape == TypeOK /\ PeerKnown /\ QueueBounded /\ PathOnlyIfAllowed /\ EndIsEmpty

-----------------------------------------------------------------------------
(* Type correctness.                                                       *)

(* The strengthening holds of an idle server. *)
LEMMA ShapeInit == Init => Shape
<1> SUFFICES ASSUME Init PROVE Shape
  OBVIOUS
<1>1. TypeOK
  BY OffloadAssumption DEF Init, TypeOK, IsCounterMap, EmptyMap
<1>2. IsFiniteSet({}) /\ Cardinality({}) = 0
  BY FS_EmptySet
<1>3. QueueBounded
  BY <1>2, OffloadAssumption DEF Init, QueueBounded
<1> QED
  BY <1>1, <1>3 DEF Init, Shape, PeerKnown, PathOnlyIfAllowed, EndIsEmpty

(* A queue that only lost datagrams. *)
LEMMA QueueShrinks ==
  ASSUME QueueBounded, NEW q \in SUBSET rxq
  PROVE  IsFiniteSet(q) /\ Cardinality(q) <= RxCap
<1>1. IsFiniteSet(q) /\ Cardinality(q) <= Cardinality(rxq)
  BY FS_Subset DEF QueueBounded
<1>2. Cardinality(q) \in Nat /\ Cardinality(rxq) \in Nat
  BY <1>1, FS_CardinalityType DEF QueueBounded
<1> QED
  BY <1>1, <1>2, OffloadAssumption DEF QueueBounded

(* A datagram that passes the hook finds room in the queue. *)
LEMMA ReceiveShape ==
  ASSUME Shape, NEW p \in Packet, XdpReceive(p)
  PROVE  Shape'
<1> USE DEF Shape, XdpReceive
<1>1. TypeOK'
  BY DEF TypeOK
<1>2. QueueBounded'
  <2>1. IsFiniteSet(rxq \cup {p})
        /\ Cardinality(rxq \cup {p}) = Cardinality(rxq) + 1
    BY FS_AddElement DEF QueueBounded
  <2>2. Cardinality(rxq) \in Nat
    BY FS_CardinalityType DEF QueueBounded
  <2> QED
    BY <2>1, <2>2, OffloadAssumption DEF QueueBounded
<1> QED
  BY <1>1, <1>2 DEF PeerKnown, PathOnlyIfAllowed, EndIsEmpty

(* Steps that give a slot away and leave the map alone. *)
LEMMA ForgetShape ==
  ASSUME Shape, NEW c \in Conn, Forget(c), rxq' \in SUBSET rxq
  PROVE  Shape'
<1> USE DEF Shape, Forget
<1>1. TypeOK'
  BY DEF TypeOK
<1>2. QueueBounded'
  BY QueueShrinks DEF QueueBounded
<1> QED
  BY <1>1, <1>2 DEF TypeOK, PeerKnown, PathOnlyIfAllowed, EndIsEmpty

(* A connection that opens is counted at an address. *)
LEMMA OpenShape ==
  ASSUME Shape, prog = "running", NEW p \in rxq, HandleFinished(p)
  PROVE  Shape'
<1> USE DEF Shape
<1>1. p.conn \in Conn /\ peer[p.conn] \in Addr
  BY DEF TypeOK, Packet, PeerKnown, HandleFinished, EndsHandshake
<1>2. IsCounterMap(counters')
  BY <1>1, IncType DEF TypeOK, HandleFinished, echo_server_on_new_conn
<1>3. TypeOK'
  BY <1>1, <1>2 DEF TypeOK, HandleFinished, echo_server_on_new_conn
<1>4. QueueBounded'
  BY QueueShrinks DEF QueueBounded, HandleFinished
<1> QED
  BY <1>1, <1>3, <1>4
  DEF TypeOK, PeerKnown, PathOnlyIfAllowed, EndIsEmpty, HandleFinished,
      echo_server_on_new_conn

(* A connection that closes takes its datagrams with it. *)
LEMMA ClosedShape ==
  ASSUME Shape, prog # "exited", NEW c \in Conn, NEW handled,
         echo_server_on_conn_closed(c, handled)
  PROVE  Shape'
<1> USE DEF Shape, echo_server_on_conn_closed
<1>1. IsCounterMap(counters')
  BY DecType DEF TypeOK
<1>2. rxq' \in SUBSET rxq
  OBVIOUS
<1>3. n_conn' \in Nat /\ prog' \in {"running", "cleanup"}
  BY DEF TypeOK
<1>4. TypeOK'
  BY <1>1, <1>2, <1>3 DEF TypeOK
<1>5. QueueBounded'
  BY <1>2, QueueShrinks DEF QueueBounded
<1>6. PeerKnown'
  BY DEF TypeOK, PeerKnown
<1>7. prog' # "running" => rxq' = {}
  BY <1>2 DEF TypeOK, EndIsEmpty
<1> QED
  BY <1>2, <1>3, <1>4, <1>5, <1>6, <1>7 DEF PathOnlyIfAllowed, EndIsEmpty

(* A process that ends leaves no connection and no datagram. *)
LEMMA EndShape ==
  ASSUME Shape, prog' = "exited", NoConnections, IsCounterMap(counters')
  PROVE  Shape'
<1> USE DEF Shape, NoConnections
<1>1. TypeOK'
  BY DEF TypeOK
<1>2. QueueBounded'
  BY FS_EmptySet, OffloadAssumption DEF QueueBounded
<1> QED
  BY <1>1, <1>2 DEF TypeOK, PeerKnown, PathOnlyIfAllowed, EndIsEmpty

(* Whatever the engine makes of a datagram. *)
LEMMA HandleShape == Shape /\ Handle => Shape'
<1> SUFFICES ASSUME Shape, prog = "running", NEW p \in rxq,
                    \/ HandleInitial(p)
                    \/ HandleFinished(p)
                    \/ HandleClose(p)
                    \/ HandlePath(p)
                    \/ Discard(p)
             PROVE  Shape'
  BY DEF Handle
<1> USE DEF Shape
<1>0. p \in Packet /\ p.conn \in Conn /\ p.src \in Addr
  BY DEF TypeOK, Packet
<1>1. CASE HandleInitial(p)
  <2>1. TypeOK'
    BY <1>0, <1>1 DEF TypeOK, HandleInitial
  <2>2. QueueBounded'
    BY <1>1, QueueShrinks DEF QueueBounded, HandleInitial
  <2> QED
    BY <1>0, <1>1, <2>1, <2>2
    DEF TypeOK, PeerKnown, PathOnlyIfAllowed, EndIsEmpty, HandleInitial
<1>2. CASE HandleFinished(p)
  BY <1>2, OpenShape
<1>3. CASE HandleClose(p)
  <2>1. CASE echo_server_on_conn_closed(p.conn, {p})
    BY <1>0, <2>1, ClosedShape
  <2>2. CASE Forget(p.conn) /\ rxq' = rxq \ {p}
    <3>1. rxq' \in SUBSET rxq
      BY <2>2
    <3> QED
      BY <1>0, <2>2, <3>1, ForgetShape
  <2> QED
    BY <1>3, <2>1, <2>2 DEF HandleClose
<1>4. CASE HandlePath(p)
  <2>1. TypeOK'
    BY <1>0, <1>4 DEF TypeOK, HandlePath
  <2>2. QueueBounded'
    BY <1>4, QueueShrinks DEF QueueBounded, HandlePath
  <2> QED
    BY <1>0, <1>4, <2>1, <2>2
    DEF TypeOK, PeerKnown, PathOnlyIfAllowed, EndIsEmpty, HandlePath
<1>5. CASE Discard(p)
  <2>1. TypeOK'
    BY <1>5 DEF TypeOK, Discard
  <2>2. QueueBounded'
    BY <1>5, QueueShrinks DEF QueueBounded, Discard
  <2> QED
    BY <1>5, <2>1, <2>2
    DEF PeerKnown, PathOnlyIfAllowed, EndIsEmpty, Discard
<1> QED
  BY <1>1, <1>2, <1>3, <1>4, <1>5

(* The strengthening is inductive. *)
LEMMA ShapeStep == Shape /\ [Next]_vars => Shape'
<1> SUFFICES ASSUME Shape, [Next]_vars PROVE Shape'
  OBVIOUS
<1>1. ASSUME NEW p \in Packet, XdpReceive(p) PROVE Shape'
  BY <1>1, ReceiveShape
<1>2. CASE Handle
  BY <1>2, HandleShape
<1>3. ASSUME NEW c \in Conn, IdleTimeout(c) PROVE Shape'
  <2>1. CASE echo_server_on_conn_closed(c, {})
    BY <1>3, <2>1, ClosedShape DEF IdleTimeout
  <2>2. CASE Forget(c) /\ UNCHANGED rxq
    BY <2>2, ForgetShape
  <2> QED
    BY <1>3, <2>1, <2>2 DEF IdleTimeout
<1>4. ASSUME NEW c \in Conn, Cleanup(c) PROVE Shape'
  BY <1>4, ClosedShape DEF Cleanup
<1>5. CASE Exit
  BY <1>5, EndShape DEF Exit, Shape, TypeOK
<1>6. CASE Interrupt
  <2>1. IsCounterMap(EmptyMap)
    BY DEF IsCounterMap, EmptyMap
  <2> QED
    BY <1>6, <2>1, EndShape DEF Interrupt
<1>7. CASE Crash
  BY <1>7, EndShape DEF Crash, Shape, TypeOK
<1>8. CASE UNCHANGED vars
  BY <1>8
  DEF vars, Shape, TypeOK, PeerKnown, QueueBounded, PathOnlyIfAllowed, EndIsEmpty
<1> QED
  BY <1>1, <1>2, <1>3, <1>4, <1>5, <1>6, <1>7, <1>8 DEF Next

(* It holds of every reachable state. *)
LEMMA ShapeAlways == Spec => []Shape
BY ShapeInit, ShapeStep, PTL DEF Spec

(* Every reachable state is well typed, whatever may fail: the map never   *)
(* gets a key that is no address nor a value that is no number.            *)
THEOREM TypeCorrect == Spec => []TypeOK
<1>1. Shape => TypeOK
  BY DEF Shape
<1> QED
  BY <1>1, ShapeAlways, PTL

(* In particular no counter underflows, failed updates and migrations      *)
(* included.                                                               *)
THEOREM NoUnderflow == Spec => []NoCounterUnderflow
<1>1. Shape => NoCounterUnderflow
  BY DEF Shape, TypeOK, IsCounterMap, NoCounterUnderflow
<1> QED
  BY <1>1, ShapeAlways, PTL

-----------------------------------------------------------------------------
(* The counters are exact. The invariant covers the addresses without an   *)
(* entry too: one of them has connections only if the map is full, and a   *)
(* full map stays full, so such an address never gets an entry that would  *)
(* start at the wrong number.                                              *)

Accounts ==
  prog # "exited" =>
    \A a \in Addr :
      IF a \in DOMAIN counters THEN counters[a] = Cardinality(OpenFrom(a))
      ELSE HasRoom(counters) => OpenFrom(a) = {}

(* No migration and no failed update; the process may still crash.         *)
Steady == ~ MigrationAllowed /\ ~ UpdateMayFail

(* The open connections of an address are finitely many. *)
LEMMA OpenFromFinite ==
  ASSUME NEW a
  PROVE  IsFiniteSet(OpenFrom(a)) /\ Cardinality(OpenFrom(a)) \in Nat
<1>1. OpenFrom(a) \in SUBSET Conn
  BY DEF OpenFrom
<1>2. IsFiniteSet(OpenFrom(a))
  BY <1>1, FS_Subset, OffloadAssumption
<1> QED
  BY <1>2, FS_CardinalityType

(* on_new_conn gives its address one more. *)
LEMMA OpenFromAfterNew ==
  ASSUME TypeOK, NEW c \in Conn, echo_server_on_new_conn(c), NEW a
  PROVE  OpenFrom(a)' = IF a = peer[c] THEN OpenFrom(a) \cup {c} ELSE OpenFrom(a) \ {c}
BY DEF TypeOK, echo_server_on_new_conn, OpenFrom

(* on_conn_closed takes one from its address. *)
LEMMA OpenFromAfterClose ==
  ASSUME TypeOK, NEW c \in Conn, NEW handled,
         echo_server_on_conn_closed(c, handled), NEW a
  PROVE  OpenFrom(a)' = OpenFrom(a) \ {c}
BY DEF TypeOK, echo_server_on_conn_closed, OpenFrom

(* A new connection is entered under its address, if the map has room. *)
LEMMA AccountsAfterNew ==
  ASSUME Shape, Accounts, ~ UpdateMayFail, prog # "exited", NEW c \in Conn,
         stage[c] = "mini", echo_server_on_new_conn(c)
  PROVE  Accounts'
<1> DEFINE p == peer[c]
<1>1. /\ p \in Addr
      /\ IsCounterMap(counters)
  BY DEF Shape, TypeOK, PeerKnown
<1>2. counters' = IF p \in DOMAIN counters THEN Put(counters, p, counters[p] + 1)
                  ELSE IF HasRoom(counters) THEN Put(counters, p, 1) ELSE counters
  BY IncEffect DEF echo_server_on_new_conn
<1>3. HasRoom(counters') => HasRoom(counters)
  BY <1>1, <1>2, RoomOnlyShrinks
<1>4. \A a : c \notin OpenFrom(a)
  BY DEF OpenFrom
<1> SUFFICES ASSUME NEW a \in Addr
             PROVE  IF a \in DOMAIN counters' THEN counters'[a] = Cardinality(OpenFrom(a)')
                    ELSE HasRoom(counters') => OpenFrom(a)' = {}
  BY DEF Accounts
<1>5. IF a \in DOMAIN counters THEN counters[a] = Cardinality(OpenFrom(a))
      ELSE HasRoom(counters) => OpenFrom(a) = {}
  BY DEF Accounts
<1>6. CASE a # p
  <2>1. OpenFrom(a)' = OpenFrom(a)
    BY <1>4, <1>6, OpenFromAfterNew DEF Shape
  <2>2. /\ a \in DOMAIN counters' <=> a \in DOMAIN counters
        /\ a \in DOMAIN counters => counters'[a] = counters[a]
    BY <1>2, <1>6 DEF Put
  <2> QED
    BY <1>3, <1>5, <2>1, <2>2
<1>7. CASE a = p
  <2>1. OpenFrom(a)' = OpenFrom(a) \cup {c}
    BY <1>7, OpenFromAfterNew DEF Shape
  <2>2. Cardinality(OpenFrom(a)') = Cardinality(OpenFrom(a)) + 1
    BY <1>4, <2>1, OpenFromFinite, FS_AddElement
  <2>3. CASE p \in DOMAIN counters
    BY <1>2, <1>5, <1>7, <2>2, <2>3 DEF Put
  <2>4. CASE p \notin DOMAIN counters /\ HasRoom(counters)
    <3>1. Cardinality(OpenFrom(a)) = 0
      BY <1>5, <1>7, <2>4, FS_EmptySet
    <3> QED
      BY <1>2, <1>7, <2>2, <2>4, <3>1 DEF Put
  <2>5. CASE p \notin DOMAIN counters /\ ~ HasRoom(counters)
    BY <1>2, <1>7, <2>5
  <2> QED
    BY <2>3, <2>4, <2>5
<1> QED
  BY <1>6, <1>7

(* A closed one is taken out of the entry it was made in. *)
LEMMA AccountsAfterClose ==
  ASSUME Shape, Accounts, ~ UpdateMayFail, prog # "exited", NEW c \in Conn,
         stage[c] = "open", NEW handled, echo_server_on_conn_closed(c, handled)
  PROVE  Accounts'
<1> DEFINE p == peer[c]
<1>1. p \in Addr /\ c \in OpenFrom(p) /\ \A a : a # p => c \notin OpenFrom(a)
  BY DEF Shape, TypeOK, PeerKnown, OpenFrom
<1>2. counters' = IF p \in DOMAIN counters /\ counters[p] # 0
                  THEN Put(counters, p, counters[p] - 1) ELSE counters
  BY DecEffect DEF echo_server_on_conn_closed
<1>3. DOMAIN counters' = DOMAIN counters /\ (HasRoom(counters') <=> HasRoom(counters))
  <2>1. DOMAIN counters' = DOMAIN counters
    BY <1>2 DEF Put
  <2> QED
    BY <2>1 DEF HasRoom
<1> SUFFICES ASSUME NEW a \in Addr
             PROVE  IF a \in DOMAIN counters' THEN counters'[a] = Cardinality(OpenFrom(a)')
                    ELSE HasRoom(counters') => OpenFrom(a)' = {}
  BY DEF Accounts
<1>4. IF a \in DOMAIN counters THEN counters[a] = Cardinality(OpenFrom(a))
      ELSE HasRoom(counters) => OpenFrom(a) = {}
  BY DEF Accounts
<1>5. OpenFrom(a)' = OpenFrom(a) \ {c}
  BY OpenFromAfterClose DEF Shape
<1>6. CASE a # p
  <2>1. OpenFrom(a)' = OpenFrom(a)
    BY <1>1, <1>5, <1>6
  <2>2. a \in DOMAIN counters => counters'[a] = counters[a]
    BY <1>2, <1>6 DEF Put
  <2> QED
    BY <1>3, <1>4, <2>1, <2>2
<1>7. CASE a = p
  <2>1. /\ Cardinality(OpenFrom(a)') = Cardinality(OpenFrom(a)) - 1
        /\ Cardinality(OpenFrom(a)) # 0
    BY <1>1, <1>5, <1>7, OpenFromFinite, FS_RemoveElement, FS_EmptySet
  <2>2. CASE a \in DOMAIN counters
    BY <1>2, <1>3, <1>4, <1>7, <2>1, <2>2 DEF Put
  <2>3. CASE a \notin DOMAIN counters
    BY <1>1, <1>3, <1>4, <1>7, <2>3
  <2> QED
    BY <2>2, <2>3
<1> QED
  BY <1>6, <1>7

(* A step of neither callback.                                             *)
LEMMA AccountsAfterOther ==
  ASSUME Accounts, counters' = counters, prog' = prog,
         \A a \in Addr : OpenFrom(a)' = OpenFrom(a)
  PROVE  Accounts'
BY DEF Accounts, HasRoom

(* A handshake that is given up was not an open connection. *)
LEMMA OpenFromAfterForget ==
  ASSUME TypeOK, NEW c \in Conn, stage[c] # "open", Forget(c)
  PROVE  \A a \in Addr : OpenFrom(a)' = OpenFrom(a)
BY DEF TypeOK, Forget, OpenFrom

(* The engine keeps the accounts. *)
LEMMA AccountsHandle == Steady /\ Shape /\ Accounts /\ Handle => Accounts'
<1> SUFFICES ASSUME Steady, Shape, Accounts, prog = "running", NEW p \in rxq,
                    \/ HandleInitial(p)
                    \/ HandleFinished(p)
                    \/ HandleClose(p)
                    \/ HandlePath(p)
                    \/ Discard(p)
             PROVE  Accounts'
  BY DEF Handle
<1>0. p.conn \in Conn /\ TypeOK /\ ~ UpdateMayFail
  BY DEF Shape, TypeOK, Packet, Steady
<1>1. CASE HandleInitial(p)
  <2>1. \A a \in Addr : OpenFrom(a)' = OpenFrom(a)
    BY <1>0, <1>1 DEF TypeOK, HandleInitial, StartsHandshake, OpenFrom
  <2> QED
    BY <1>1, <2>1, AccountsAfterOther DEF HandleInitial
<1>2. CASE HandleFinished(p)
  BY <1>0, <1>2, AccountsAfterNew DEF HandleFinished, EndsHandshake
<1>3. CASE HandleClose(p)
  <2>1. CASE stage[p.conn] = "open" /\ echo_server_on_conn_closed(p.conn, {p})
    BY <1>0, <2>1, AccountsAfterClose
  <2>2. CASE stage[p.conn] = "mini" /\ Forget(p.conn)
    <3>1. \A a \in Addr : OpenFrom(a)' = OpenFrom(a)
      BY <1>0, <2>2, OpenFromAfterForget
    <3> QED
      BY <2>2, <3>1, AccountsAfterOther DEF Forget
  <2> QED
    BY <1>3, <2>1, <2>2 DEF HandleClose
<1>4. CASE HandlePath(p)
  BY <1>4 DEF HandlePath, Moves, Steady, Shape, PathOnlyIfAllowed
<1>5. CASE Discard(p)
  <2>1. \A a \in Addr : OpenFrom(a)' = OpenFrom(a)
    BY <1>5 DEF Discard, OpenFrom
  <2> QED
    BY <1>5, <2>1, AccountsAfterOther DEF Discard
<1> QED
  BY <1>1, <1>2, <1>3, <1>4, <1>5

(* Every step keeps them. *)
LEMMA AccountsStep == Steady /\ Shape /\ Accounts /\ [Next]_vars => Accounts'
<1> SUFFICES ASSUME Steady, Shape, Accounts, [Next]_vars PROVE Accounts'
  OBVIOUS
<1>0. TypeOK /\ ~ UpdateMayFail
  BY DEF Shape, Steady
<1>1. ASSUME NEW p \in Packet, XdpReceive(p) PROVE Accounts'
  <2>1. \A a \in Addr : OpenFrom(a)' = OpenFrom(a)
    BY <1>1 DEF XdpReceive, OpenFrom
  <2> QED
    BY <1>1, <2>1, AccountsAfterOther DEF XdpReceive
<1>2. CASE Handle
  BY <1>2, AccountsHandle
<1>3. ASSUME NEW c \in Conn, IdleTimeout(c) PROVE Accounts'
  <2>1. CASE stage[c] = "open" /\ echo_server_on_conn_closed(c, {})
    BY <1>0, <1>3, <2>1, AccountsAfterClose DEF IdleTimeout
  <2>2. CASE stage[c] = "mini" /\ Forget(c)
    <3>1. \A a \in Addr : OpenFrom(a)' = OpenFrom(a)
      BY <1>0, <2>2, OpenFromAfterForget
    <3> QED
      BY <2>2, <3>1, AccountsAfterOther DEF Forget
  <2> QED
    BY <1>3, <2>1, <2>2 DEF IdleTimeout
<1>4. ASSUME NEW c \in Conn, Cleanup(c) PROVE Accounts'
  BY <1>0, <1>4, AccountsAfterClose DEF Cleanup
<1>5. CASE Exit \/ Interrupt \/ Crash
  BY <1>5 DEF Exit, Interrupt, Crash, Accounts
<1>6. CASE UNCHANGED vars
  <2>1. \A a \in Addr : OpenFrom(a)' = OpenFrom(a)
    BY <1>6 DEF vars, OpenFrom
  <2> QED
    BY <1>6, <2>1, AccountsAfterOther DEF vars
<1> QED
  BY <1>1, <1>2, <1>3, <1>4, <1>5, <1>6 DEF Next

(* An idle server has nothing to account for. *)
LEMMA AccountsInit == Init => Accounts
BY DEF Init, Accounts, EmptyMap, OpenFrom

(* So they are kept in every reachable state. *)
LEMMA AccountsAlways ==
  ASSUME Steady
  PROVE  Spec => [](Shape /\ Accounts)
<1>1. Init => Shape /\ Accounts
  BY ShapeInit, AccountsInit
<1>2. Shape /\ Accounts /\ [Next]_vars => (Shape /\ Accounts)'
  BY ShapeStep, AccountsStep
<1> QED
  BY <1>1, <1>2, PTL DEF Spec

(* As long as nobody migrates and no update of a present key fails, the    *)
(* counter of an address is the number of its open connections in every    *)
(* reachable state, a full map and a crash included.                       *)
THEOREM CountersAreExact ==
  ASSUME Steady
  PROVE  Spec => []CounterExact
<1>1. Shape /\ Accounts => CounterExact
  BY DEF Shape, TypeOK, IsCounterMap, Accounts, CounterExact
<1> QED
  BY <1>1, AccountsAlways, PTL

(* An address escapes its quota only by finding the map full.              *)
THEOREM OnlyAFullMapMisses ==
  ASSUME Steady
  PROVE  Spec => []MissOnlyWhenFull
<1>1. Shape /\ Accounts => MissOnlyWhenFull
  BY DEF Shape, EndIsEmpty, Accounts, MissOnlyWhenFull, OpenFrom
<1> QED
  BY <1>1, AccountsAlways, PTL

-----------------------------------------------------------------------------
(* How far an address can pass its limit.                                  *)

Counted(a) == a \in DOMAIN counters \/ HasRoom(counters)

(* The handshakes that wait for their end are finitely many. *)
LEMMA FinishedFromFinite ==
  ASSUME Shape, NEW a
  PROVE  /\ IsFiniteSet(FinishedFrom(a))
         /\ Cardinality(FinishedFrom(a)) \in Nat
         /\ Cardinality(FinishedFrom(a)) <= RxCap
<1>1. FinishedFrom(a) \in SUBSET rxq
  BY DEF FinishedFrom
<1>2. IsFiniteSet(FinishedFrom(a)) /\ Cardinality(FinishedFrom(a)) <= RxCap
  BY <1>1, QueueShrinks DEF Shape
<1> QED
  BY <1>2, FS_CardinalityType

(* What the hook saw when it let a datagram of the address through.        *)
LEMMA PassedUnderLimit ==
  ASSUME Shape, Accounts, NEW p \in Packet, XdpReceive(p), Counted(p.src)
  PROVE  Cardinality(OpenFrom(p.src)) <= QUIC_QUOTA_LIMIT - 1
<1> DEFINE a == p.src
<1>1. a \in Addr /\ ~ Blocked(counters, a) /\ prog # "exited"
  BY DEF XdpReceive, udp_quota, Packet
<1>2. QUIC_QUOTA_LIMIT \in Nat \ {0}
  BY CountersAssumption
<1>3. CASE a \in DOMAIN counters
  <2>1. counters[a] \in Nat /\ ~ (counters[a] >= QUIC_QUOTA_LIMIT)
    BY <1>1, <1>3 DEF Shape, TypeOK, IsCounterMap, Blocked
  <2>2. counters[a] = Cardinality(OpenFrom(a))
    BY <1>1, <1>3 DEF Accounts
  <2> QED
    BY <1>2, <2>1, <2>2
<1>4. CASE a \notin DOMAIN counters
  <2>1. OpenFrom(a) = {}
    BY <1>1, <1>4 DEF Accounts, Counted
  <2> QED
    BY <1>2, <2>1, FS_EmptySet
<1> QED
  BY <1>3, <1>4

(* Losing connections or queued handshakes keeps an address in its bound.  *)
LEMMA BoundShrinks ==
  ASSUME Shape, Shape', NEW a \in Addr,
         Cardinality(OpenFrom(a)) + Cardinality(FinishedFrom(a))
           <= QUIC_QUOTA_LIMIT - 1 + RxCap,
         OpenFrom(a)' \in SUBSET OpenFrom(a),
         FinishedFrom(a)' \in SUBSET FinishedFrom(a)
  PROVE  Cardinality(OpenFrom(a)') + Cardinality(FinishedFrom(a)')
           <= QUIC_QUOTA_LIMIT - 1 + RxCap
<1>1. /\ Cardinality(OpenFrom(a)') <= Cardinality(OpenFrom(a))
      /\ Cardinality(OpenFrom(a)') \in Nat
      /\ Cardinality(OpenFrom(a)) \in Nat
  BY OpenFromFinite, FS_Subset, FS_CardinalityType
<1>2. /\ Cardinality(FinishedFrom(a)') <= Cardinality(FinishedFrom(a))
      /\ Cardinality(FinishedFrom(a)') \in Nat
      /\ Cardinality(FinishedFrom(a)) \in Nat
  BY FinishedFromFinite, FS_Subset, FS_CardinalityType
<1> QED
  BY <1>1, <1>2, OffloadAssumption, CountersAssumption

(* The hook lets a handshake's end pass only below the limit. *)
LEMMA BoundReceive ==
  ASSUME Shape, Shape', Accounts, OvershootBounded, NEW p \in Packet, XdpReceive(p)
  PROVE  OvershootBounded'
<1> SUFFICES ASSUME NEW a \in Addr, Counted(a)'
             PROVE  Cardinality(OpenFrom(a)') + Cardinality(FinishedFrom(a)')
                      <= QUIC_QUOTA_LIMIT - 1 + RxCap
  BY DEF OvershootBounded, Counted
<1>1. Counted(a) /\ OpenFrom(a)' = OpenFrom(a)
  BY DEF XdpReceive, Counted, OpenFrom, HasRoom
<1>2. CASE p.src = a
  <2>1. Cardinality(OpenFrom(a)) <= QUIC_QUOTA_LIMIT - 1
    BY <1>1, <1>2, PassedUnderLimit
  <2>2. Cardinality(OpenFrom(a)) \in Nat
    BY OpenFromFinite
  <2>3. FinishedFrom(a)' \in SUBSET rxq'
    BY DEF FinishedFrom
  <2>4. IsFiniteSet(rxq') /\ Cardinality(rxq') <= RxCap
    BY DEF Shape, QueueBounded
  <2>5. IsFiniteSet(FinishedFrom(a)') /\ Cardinality(FinishedFrom(a)') <= Cardinality(rxq')
    BY <2>3, <2>4, FS_Subset
  <2>6. Cardinality(FinishedFrom(a)') \in Nat /\ Cardinality(rxq') \in Nat
    BY <2>4, <2>5, FS_CardinalityType
  <2> QED
    BY <1>1, <2>1, <2>2, <2>4, <2>5, <2>6, OffloadAssumption, CountersAssumption
<1>3. CASE p.src # a
  <2>1. FinishedFrom(a)' = FinishedFrom(a)
    BY <1>3 DEF FinishedFrom, XdpReceive
  <2> QED
    BY <1>1, <2>1 DEF OvershootBounded, Counted
<1> QED
  BY <1>2, <1>3

(* A connection that opens was among those that waited. *)
LEMMA BoundNew ==
  ASSUME Steady, Shape, Shape', Accounts, OvershootBounded,
         NEW p \in rxq, HandleFinished(p)
  PROVE  OvershootBounded'
<1> DEFINE c == p.conn
<1>1. /\ c \in Conn /\ p.src \in Addr /\ peer[c] = p.src /\ stage[c] = "mini"
      /\ p.kind = "finished" /\ rxq' = rxq \ {p} /\ echo_server_on_new_conn(c)
      /\ IsCounterMap(counters)
  BY DEF Shape, TypeOK, Packet, HandleFinished, EndsHandshake
<1> SUFFICES ASSUME NEW a \in Addr, Counted(a)'
             PROVE  Cardinality(OpenFrom(a)') + Cardinality(FinishedFrom(a)')
                      <= QUIC_QUOTA_LIMIT - 1 + RxCap
  BY DEF OvershootBounded, Counted
<1>2. counters' = IF p.src \in DOMAIN counters
                  THEN Put(counters, p.src, counters[p.src] + 1)
                  ELSE IF HasRoom(counters) THEN Put(counters, p.src, 1)
                  ELSE counters
  BY <1>1, IncEffect DEF echo_server_on_new_conn, Steady
<1>3. HasRoom(counters') => HasRoom(counters)
  BY <1>1, <1>2, RoomOnlyShrinks
<1>4. a \in DOMAIN counters' => Counted(a)
  BY <1>2 DEF Put, Counted
<1>5. Counted(a)
  BY <1>3, <1>4 DEF Counted
<1>6. Cardinality(OpenFrom(a)) + Cardinality(FinishedFrom(a))
        <= QUIC_QUOTA_LIMIT - 1 + RxCap
  BY <1>5 DEF OvershootBounded, Counted
<1>7. c \notin OpenFrom(a)
  BY <1>1 DEF OpenFrom
<1>8. CASE a = p.src
  <2>1. OpenFrom(a)' = OpenFrom(a) \cup {c}
    BY <1>1, <1>8, OpenFromAfterNew DEF Shape
  <2>2. Cardinality(OpenFrom(a)') = Cardinality(OpenFrom(a)) + 1
    BY <1>7, <2>1, OpenFromFinite, FS_AddElement
  <2>3. FinishedFrom(a)' = FinishedFrom(a) \ {p} /\ p \in FinishedFrom(a)
    BY <1>1, <1>8 DEF FinishedFrom
  <2>4. Cardinality(FinishedFrom(a)') = Cardinality(FinishedFrom(a)) - 1
    BY <2>3, FinishedFromFinite, FS_RemoveElement
  <2> QED
    BY <1>6, <2>2, <2>4, OpenFromFinite, FinishedFromFinite
<1>9. CASE a # p.src
  <2>1. OpenFrom(a)' = OpenFrom(a)
    BY <1>1, <1>7, <1>9, OpenFromAfterNew DEF Shape
  <2>2. FinishedFrom(a)' = FinishedFrom(a)
    BY <1>1, <1>9 DEF FinishedFrom
  <2> QED
    BY <1>6, <2>1, <2>2
<1> QED
  BY <1>8, <1>9

(* A connection closes, in any of the ways it can.                         *)
LEMMA BoundClose ==
  ASSUME Steady, Shape, Shape', OvershootBounded, NEW c \in Conn, NEW handled,
         echo_server_on_conn_closed(c, handled)
  PROVE  OvershootBounded'
<1> SUFFICES ASSUME NEW a \in Addr, Counted(a)'
             PROVE  Cardinality(OpenFrom(a)') + Cardinality(FinishedFrom(a)')
                      <= QUIC_QUOTA_LIMIT - 1 + RxCap
  BY DEF OvershootBounded, Counted
<1>1. DOMAIN counters' = DOMAIN counters
  BY DecEffect DEF Put, echo_server_on_conn_closed, Steady
<1>2. Counted(a)
  BY <1>1 DEF Counted, HasRoom
<1>3. OpenFrom(a)' \in SUBSET OpenFrom(a)
  BY OpenFromAfterClose DEF Shape
<1>4. FinishedFrom(a)' \in SUBSET FinishedFrom(a)
  BY DEF FinishedFrom, echo_server_on_conn_closed
<1> QED
  BY <1>2, <1>3, <1>4, BoundShrinks DEF OvershootBounded, Counted

(* A step that neither counts nor adds to the queue.                       *)
LEMMA BoundOther ==
  ASSUME Shape, Shape', OvershootBounded, counters' = counters,
         \A a \in Addr : OpenFrom(a)' = OpenFrom(a), rxq' \in SUBSET rxq
  PROVE  OvershootBounded'
<1> SUFFICES ASSUME NEW a \in Addr, Counted(a)'
             PROVE  Cardinality(OpenFrom(a)') + Cardinality(FinishedFrom(a)')
                      <= QUIC_QUOTA_LIMIT - 1 + RxCap
  BY DEF OvershootBounded, Counted
<1>1. Counted(a)
  BY DEF Counted, HasRoom
<1>2. FinishedFrom(a)' \in SUBSET FinishedFrom(a)
  BY DEF FinishedFrom
<1> QED
  BY <1>1, <1>2, BoundShrinks DEF OvershootBounded, Counted

(* Nothing waits when the process has ended. *)
LEMMA BoundEnd ==
  ASSUME NoConnections
  PROVE  OvershootBounded'
<1>1. \A a \in Addr : OpenFrom(a)' = {} /\ FinishedFrom(a)' = {}
  BY DEF NoConnections, OpenFrom, FinishedFrom
<1>2. Cardinality({}) = 0
  BY FS_EmptySet
<1> QED
  BY <1>1, <1>2, OffloadAssumption, CountersAssumption DEF OvershootBounded

(* The engine keeps the bound. *)
LEMMA BoundHandle ==
  Steady /\ Shape /\ Shape' /\ Accounts /\ OvershootBounded /\ Handle
    => OvershootBounded'
<1> SUFFICES ASSUME Steady, Shape, Shape', Accounts, OvershootBounded, NEW p \in rxq,
                    \/ HandleInitial(p)
                    \/ HandleFinished(p)
                    \/ HandleClose(p)
                    \/ HandlePath(p)
                    \/ Discard(p)
             PROVE  OvershootBounded'
  BY DEF Handle
<1>0. p.conn \in Conn /\ TypeOK
  BY DEF Shape, TypeOK, Packet
<1>1. CASE HandleInitial(p)
  <2>1. \A a \in Addr : OpenFrom(a)' = OpenFrom(a)
    BY <1>0, <1>1 DEF TypeOK, HandleInitial, StartsHandshake, OpenFrom
  <2>2. rxq' \in SUBSET rxq
    BY <1>1 DEF HandleInitial
  <2> QED
    BY <1>1, <2>1, <2>2, BoundOther DEF HandleInitial
<1>2. CASE HandleFinished(p)
  BY <1>2, BoundNew
<1>3. CASE HandleClose(p)
  <2>1. CASE echo_server_on_conn_closed(p.conn, {p})
    BY <1>0, <2>1, BoundClose
  <2>2. CASE stage[p.conn] = "mini" /\ Forget(p.conn) /\ rxq' = rxq \ {p}
    <3>1. \A a \in Addr : OpenFrom(a)' = OpenFrom(a)
      BY <1>0, <2>2, OpenFromAfterForget
    <3>2. rxq' \in SUBSET rxq
      BY <2>2
    <3> QED
      BY <2>2, <3>1, <3>2, BoundOther DEF Forget
  <2> QED
    BY <1>3, <2>1, <2>2 DEF HandleClose
<1>4. CASE HandlePath(p)
  BY <1>4 DEF HandlePath, Moves, Steady, Shape, PathOnlyIfAllowed
<1>5. CASE Discard(p)
  <2>1. \A a \in Addr : OpenFrom(a)' = OpenFrom(a)
    BY <1>5 DEF Discard, OpenFrom
  <2>2. rxq' \in SUBSET rxq
    BY <1>5 DEF Discard
  <2> QED
    BY <1>5, <2>1, <2>2, BoundOther DEF Discard
<1> QED
  BY <1>1, <1>2, <1>3, <1>4, <1>5

(* Every step keeps it. *)
LEMMA BoundStep ==
  Steady /\ Shape /\ Shape' /\ Accounts /\ OvershootBounded /\ [Next]_vars
    => OvershootBounded'
<1> SUFFICES ASSUME Steady, Shape, Shape', Accounts, OvershootBounded, [Next]_vars
             PROVE  OvershootBounded'
  OBVIOUS
<1>0. TypeOK
  BY DEF Shape
<1>1. ASSUME NEW p \in Packet, XdpReceive(p) PROVE OvershootBounded'
  BY <1>1, BoundReceive
<1>2. CASE Handle
  BY <1>2, BoundHandle
<1>3. ASSUME NEW c \in Conn, IdleTimeout(c) PROVE OvershootBounded'
  <2>1. CASE echo_server_on_conn_closed(c, {})
    BY <2>1, BoundClose
  <2>2. CASE stage[c] = "mini" /\ Forget(c) /\ UNCHANGED rxq
    <3>1. \A a \in Addr : OpenFrom(a)' = OpenFrom(a)
      BY <1>0, <2>2, OpenFromAfterForget
    <3> QED
      BY <2>2, <3>1, BoundOther DEF Forget
  <2> QED
    BY <1>3, <2>1, <2>2 DEF IdleTimeout
<1>4. ASSUME NEW c \in Conn, Cleanup(c) PROVE OvershootBounded'
  BY <1>4, BoundClose DEF Cleanup
<1>5. CASE Exit \/ Interrupt \/ Crash
  BY <1>5, BoundEnd DEF Exit, Interrupt, Crash
<1>6. CASE UNCHANGED vars
  <2>1. \A a \in Addr : OpenFrom(a)' = OpenFrom(a)
    BY <1>6 DEF vars, OpenFrom
  <2> QED
    BY <1>6, <2>1, BoundOther DEF vars
<1> QED
  BY <1>1, <1>2, <1>3, <1>4, <1>5, <1>6 DEF Next

(* The limit of the hook, which acts before the server counts, is kept up  *)
(* to the handshakes that wait behind it: less than the limit plus the     *)
(* length of the queue.                                                    *)
THEOREM OvershootIsBounded ==
  ASSUME Steady
  PROVE  Spec => []OvershootBounded
<1>1. Init => OvershootBounded
  <2>1. Init => \A a \in Addr : OpenFrom(a) = {} /\ FinishedFrom(a) = {}
    BY DEF Init, OpenFrom, FinishedFrom
  <2>2. Cardinality({}) = 0
    BY FS_EmptySet
  <2> QED
    BY <2>1, <2>2, OffloadAssumption, CountersAssumption DEF OvershootBounded
<1>2. /\ Shape /\ Accounts /\ (Shape /\ Accounts)'
      /\ OvershootBounded /\ [Next]_vars
      => OvershootBounded'
  BY BoundStep
<1> QED
  BY <1>1, <1>2, AccountsAlways, PTL DEF Spec

-----------------------------------------------------------------------------
(* The end of the process.                                                 *)

(* The step that ends the process leaves no address at its limit. *)
LEMMA NothingBlockedStep ==
  /\ Steady /\ ~ CrashAllowed
  /\ Shape /\ Accounts /\ ExitLeavesNothingBlocked /\ [Next]_vars
  => ExitLeavesNothingBlocked'
<1> SUFFICES ASSUME Steady, ~ CrashAllowed, Shape, Accounts,
                    ExitLeavesNothingBlocked, [Next]_vars, prog' = "exited"
             PROVE  \A a \in Addr : ~ Blocked(counters', a)
  BY DEF ExitLeavesNothingBlocked, Blocked
<1>1. CASE Exit
  <2>1. ASSUME NEW a \in Addr, a \in DOMAIN counters PROVE counters[a] = 0
    <3>1. OpenFrom(a) = {}
      BY <1>1 DEF Exit, OpenFrom, Open
    <3> QED
      BY <1>1, <2>1, <3>1, FS_EmptySet DEF Accounts, Exit
  <2> QED
    BY <1>1, <2>1, CountersAssumption DEF Exit, Blocked
<1>2. CASE Interrupt
  BY <1>2 DEF Interrupt, EmptyMap, Blocked
<1>3. CASE prog = "exited" /\ counters' = counters
  BY <1>3 DEF ExitLeavesNothingBlocked, Blocked
<1>4. ASSUME NEW c \in Conn, NEW handled, prog # "exited",
             echo_server_on_conn_closed(c, handled)
      PROVE  FALSE
  BY <1>4 DEF echo_server_on_conn_closed
<1>5. ASSUME prog # "exited", ~ Exit, ~ Interrupt PROVE FALSE
  <2>1. prog # "exited" /\ ~ Exit /\ ~ Interrupt /\ ~ Crash
    BY <1>5 DEF Crash
  <2>2. CASE \E p \in Packet : XdpReceive(p)
    BY <2>1, <2>2 DEF XdpReceive
  <2>3. CASE Handle
    <3>1. PICK p \in rxq : \/ HandleInitial(p)
                           \/ HandleFinished(p)
                           \/ HandleClose(p)
                           \/ HandlePath(p)
                           \/ Discard(p)
      BY <2>3 DEF Handle
    <3>2. p.conn \in Conn
      BY DEF Shape, TypeOK, Packet
    <3>3. prog' = prog \/ echo_server_on_conn_closed(p.conn, {p})
      BY <3>1 DEF HandleInitial, HandleFinished, echo_server_on_new_conn,
                  HandleClose, Forget, HandlePath, Discard
    <3> QED
      BY <2>1, <3>2, <3>3, <1>4
  <2>4. CASE \E c \in Conn : IdleTimeout(c) \/ Cleanup(c)
    BY <2>1, <2>4, <1>4 DEF IdleTimeout, Cleanup, Forget
  <2>5. CASE UNCHANGED vars
    BY <2>1, <2>5 DEF vars
  <2> QED
    BY <2>1, <2>2, <2>3, <2>4, <2>5 DEF Next
<1>6. CASE prog = "exited"
  BY <1>6, <1>3
  DEF Next, XdpReceive, Handle, IdleTimeout, Cleanup, Exit, Interrupt, Crash, vars
<1> QED
  BY <1>1, <1>2, <1>5, <1>6

(* A server that ends by itself or by a handled signal leaves no address   *)
(* blocked behind the hook.                                                *)
THEOREM ExitUnblocks ==
  ASSUME Steady, ~ CrashAllowed
  PROVE  Spec => []ExitLeavesNothingBlocked
<1>1. Init => ExitLeavesNothingBlocked
  BY DEF Init, ExitLeavesNothingBlocked
<1>2. /\ Shape /\ Accounts /\ ExitLeavesNothingBlocked /\ [Next]_vars
      => ExitLeavesNothingBlocked'
  BY NothingBlockedStep
<1> QED
  BY <1>1, <1>2, AccountsAlways, PTL DEF Spec

-----------------------------------------------------------------------------
(* The server implements QuotaSpec, when the map has a place for everyone. *)

Roomy == Cardinality(Addr) <= MAX_ENTRIES

Live == [a \in Addr |-> Cardinality(OpenFrom(a))]

Admitted == [a \in Addr |-> Cardinality(FinishedFrom(a))]

(* A map with room for everyone never fails to count an address. *)
LEMMA EveryoneCounted ==
  ASSUME Roomy, TypeOK, NEW a \in Addr
  PROVE  Counted(a)
<1>1. CASE a \notin DOMAIN counters
  <2>1. DOMAIN counters \in SUBSET (Addr \ {a})
    BY <1>1 DEF TypeOK, IsCounterMap
  <2>2. IsFiniteSet(Addr \ {a}) /\ Cardinality(Addr \ {a}) = Cardinality(Addr) - 1
    BY FS_RemoveElement, CountersAssumption
  <2>3. IsFiniteSet(DOMAIN counters)
        /\ Cardinality(DOMAIN counters) <= Cardinality(Addr \ {a})
    BY <2>1, <2>2, FS_Subset
  <2>4. /\ Cardinality(DOMAIN counters) \in Nat
        /\ Cardinality(Addr) \in Nat
        /\ Cardinality(Addr \ {a}) \in Nat
        /\ MAX_ENTRIES \in Nat
    BY <2>2, <2>3, FS_CardinalityType, CountersAssumption
  <2> QED
    BY <2>2, <2>3, <2>4 DEF Counted, HasRoom, Roomy
<1> QED
  BY <1>1 DEF Counted

(* Initial states map to initial states. *)
LEMMA QuotaInit == Init => Quota!Init
<1> SUFFICES ASSUME Init PROVE Quota!Init
  OBVIOUS
<1>1. \A a \in Addr : OpenFrom(a) = {} /\ FinishedFrom(a) = {}
  BY DEF Init, OpenFrom, FinishedFrom
<1> QED
  BY <1>1, FS_EmptySet DEF Quota!Init

(* The abstract effect of a step, address by address.                      *)
SameLive == \A a \in Addr : OpenFrom(a)' = OpenFrom(a)
SameAdmitted == \A a \in Addr : FinishedFrom(a)' = FinishedFrom(a)

(* A step that no connection and no waiting handshake notices stutters. *)
LEMMA QuotaStutter ==
  ASSUME SameLive, SameAdmitted
  PROVE  [Quota!Next]_(Quota!vars)
BY DEF SameLive, SameAdmitted, Quota!vars

(* A datagram that passes the hook is an admission, or nothing. *)
LEMMA QuotaReceive ==
  ASSUME Shape, Shape', Accounts, Roomy, NEW p \in Packet, XdpReceive(p)
  PROVE  [Quota!Next]_(Quota!vars)
<1> DEFINE b == p.src
<1>1. b \in Addr /\ SameLive
  BY DEF Packet, XdpReceive, SameLive, OpenFrom
<1>2. CASE p.kind # "finished"
  <2>1. SameAdmitted
    BY <1>2 DEF SameAdmitted, FinishedFrom, XdpReceive
  <2> QED
    BY <1>1, <2>1, QuotaStutter
<1>3. CASE p.kind = "finished"
  <2>1. Cardinality(OpenFrom(b)) < QUIC_QUOTA_LIMIT
    <3>1. Counted(b)
      BY <1>1, EveryoneCounted DEF Shape
    <3> QED
      BY <3>1, PassedUnderLimit, OpenFromFinite, CountersAssumption
  <2>2. FinishedFrom(b)' = FinishedFrom(b) \cup {p} /\ p \notin FinishedFrom(b)
    BY <1>3 DEF FinishedFrom, XdpReceive
  <2>3. Cardinality(FinishedFrom(b)') = Cardinality(FinishedFrom(b)) + 1
    BY <2>2, FinishedFromFinite, FS_AddElement
  <2>4. Cardinality(FinishedFrom(b)) < RxCap
    <3>1. FinishedFrom(b)' \in SUBSET rxq' /\ QueueBounded'
      BY DEF FinishedFrom, Shape
    <3>2. /\ Cardinality(FinishedFrom(b)') <= Cardinality(rxq')
          /\ Cardinality(rxq') <= RxCap
          /\ Cardinality(rxq') \in Nat
      BY <3>1, FS_Subset, FS_CardinalityType DEF QueueBounded
    <3> QED
      BY <2>3, <3>2, FinishedFromFinite, OffloadAssumption
  <2>5. \A a \in Addr : a # b => FinishedFrom(a)' = FinishedFrom(a)
    BY DEF FinishedFrom, XdpReceive
  <2>6. Admitted' = [Admitted EXCEPT ![b] = @ + 1]
    BY <1>1, <2>3, <2>5 DEF Admitted
  <2>7. Live' = Live
    BY <1>1 DEF Live, SameLive
  <2>8. Quota!Admit(b)
    BY <1>1, <2>1, <2>4, <2>6, <2>7 DEF Quota!Admit, Live, Admitted
  <2> QED
    BY <1>1, <2>8 DEF Quota!Next
<1> QED
  BY <1>2, <1>3

(* The end of a handshake is a connection. *)
LEMMA QuotaConnect ==
  ASSUME Shape, NEW p \in rxq, HandleFinished(p)
  PROVE  [Quota!Next]_(Quota!vars)
<1> DEFINE b == p.src
           c == p.conn
<1>1. /\ c \in Conn /\ b \in Addr /\ peer[c] = b /\ stage[c] = "mini"
      /\ p.kind = "finished" /\ rxq' = rxq \ {p} /\ echo_server_on_new_conn(c)
      /\ TypeOK
  BY DEF Shape, TypeOK, Packet, HandleFinished, EndsHandshake
<1>2. \A a : c \notin OpenFrom(a)
  BY <1>1 DEF OpenFrom
<1>3. Live' = [Live EXCEPT ![b] = @ + 1]
  <2>1. OpenFrom(b)' = OpenFrom(b) \cup {c}
    BY <1>1, OpenFromAfterNew
  <2>2. Cardinality(OpenFrom(b)') = Cardinality(OpenFrom(b)) + 1
    BY <1>2, <2>1, OpenFromFinite, FS_AddElement
  <2>3. \A a \in Addr : a # b => OpenFrom(a)' = OpenFrom(a)
    BY <1>1, <1>2, OpenFromAfterNew
  <2> QED
    BY <1>1, <2>2, <2>3 DEF Live
<1>4. FinishedFrom(b)' = FinishedFrom(b) \ {p} /\ p \in FinishedFrom(b)
  BY <1>1 DEF FinishedFrom
<1>5. /\ Cardinality(FinishedFrom(b)') = Cardinality(FinishedFrom(b)) - 1
      /\ Cardinality(FinishedFrom(b)) > 0
  BY <1>4, FinishedFromFinite, FS_RemoveElement, FS_EmptySet
<1>6. Admitted' = [Admitted EXCEPT ![b] = @ - 1]
  <2>1. \A a \in Addr : a # b => FinishedFrom(a)' = FinishedFrom(a)
    BY <1>1 DEF FinishedFrom
  <2> QED
    BY <1>1, <1>5, <2>1 DEF Admitted
<1>7. Quota!Connect(b)
  BY <1>1, <1>3, <1>5, <1>6 DEF Quota!Connect, Live, Admitted
<1> QED
  BY <1>1, <1>7 DEF Quota!Next

(* A close is a departure. *)
LEMMA QuotaLeave ==
  ASSUME Shape, NEW c \in Conn, stage[c] = "open", NEW handled,
         \A p \in handled : p.kind # "finished",
         echo_server_on_conn_closed(c, handled)
  PROVE  [Quota!Next]_(Quota!vars)
<1>0. PICK b \in Addr : b = peer[c]
  BY DEF Shape, PeerKnown
<1>1. c \in OpenFrom(b) /\ (\A a : a # b => c \notin OpenFrom(a)) /\ TypeOK
  BY <1>0 DEF Shape, OpenFrom
<1>2. \A a : OpenFrom(a)' = OpenFrom(a) \ {c}
  BY <1>1, OpenFromAfterClose
<1>3. /\ Cardinality(OpenFrom(b)') = Cardinality(OpenFrom(b)) - 1
      /\ Cardinality(OpenFrom(b)) > 0
  BY <1>1, <1>2, OpenFromFinite, FS_RemoveElement, FS_EmptySet
<1>4. \A a \in Addr : a # b => OpenFrom(a)' = OpenFrom(a)
  BY <1>1, <1>2
<1>5. Live' = [Live EXCEPT ![b] = @ - 1]
  BY <1>3, <1>4 DEF Live
<1>6. CASE n_conn = 1
  <2>1. \A a \in Addr : FinishedFrom(a)' = {}
    BY <1>6 DEF FinishedFrom, echo_server_on_conn_closed
  <2>2. Admitted' = [a \in Addr |-> 0]
    BY <2>1, FS_EmptySet DEF Admitted
  <2>3. Quota!Shut(b)
    BY <1>1, <1>3, <1>5, <2>2 DEF Quota!Shut, Live, Admitted
  <2> QED
    BY <1>1, <2>3 DEF Quota!Next
<1>7. CASE n_conn # 1
  <2>1. SameAdmitted
    BY <1>7 DEF SameAdmitted, FinishedFrom, echo_server_on_conn_closed
  <2>2. Admitted' = Admitted
    BY <2>1 DEF Admitted, SameAdmitted
  <2>3. Quota!Leave(b)
    BY <1>1, <1>3, <1>5, <2>2 DEF Quota!Leave, Live, Admitted
  <2> QED
    BY <1>1, <2>3 DEF Quota!Next
<1> QED
  BY <1>6, <1>7

(* A datagram nobody waits for gives its admission up. *)
LEMMA QuotaDiscard ==
  ASSUME Shape, NEW p \in rxq, SameLive, rxq' = rxq \ {p}
  PROVE  [Quota!Next]_(Quota!vars)
<1> DEFINE b == p.src
<1>1. b \in Addr
  BY DEF Shape, TypeOK, Packet
<1>2. CASE p.kind # "finished"
  <2>1. SameAdmitted
    BY <1>2 DEF SameAdmitted, FinishedFrom
  <2> QED
    BY <2>1, QuotaStutter
<1>3. CASE p.kind = "finished"
  <2>1. FinishedFrom(b)' = FinishedFrom(b) \ {p} /\ p \in FinishedFrom(b)
    BY <1>3 DEF FinishedFrom
  <2>2. /\ Cardinality(FinishedFrom(b)') = Cardinality(FinishedFrom(b)) - 1
        /\ Cardinality(FinishedFrom(b)) > 0
    BY <2>1, FinishedFromFinite, FS_RemoveElement, FS_EmptySet
  <2>3. \A a \in Addr : a # b => FinishedFrom(a)' = FinishedFrom(a)
    BY DEF FinishedFrom
  <2>4. Admitted' = [Admitted EXCEPT ![b] = @ - 1] /\ Live' = Live
    BY <1>1, <2>2, <2>3 DEF Admitted, Live, SameLive
  <2>5. Quota!Lapse(b)
    BY <1>1, <2>2, <2>4 DEF Quota!Lapse, Live, Admitted
  <2> QED
    BY <1>1, <2>5 DEF Quota!Next
<1> QED
  BY <1>2, <1>3

(* The end of the process is the end of the abstract one. *)
LEMMA QuotaEnd ==
  ASSUME NoConnections
  PROVE  [Quota!Next]_(Quota!vars)
<1>1. \A a \in Addr : OpenFrom(a)' = {} /\ FinishedFrom(a)' = {}
  BY DEF NoConnections, OpenFrom, FinishedFrom
<1>2. Quota!End
  BY <1>1, FS_EmptySet DEF Quota!End
<1> QED
  BY <1>2 DEF Quota!Next

(* What the engine does is a step of the specification, or none. *)
LEMMA QuotaHandle ==
  Steady /\ Shape /\ Handle => [Quota!Next]_(Quota!vars)
<1> SUFFICES ASSUME Steady, Shape, NEW p \in rxq,
                    \/ HandleInitial(p)
                    \/ HandleFinished(p)
                    \/ HandleClose(p)
                    \/ HandlePath(p)
                    \/ Discard(p)
             PROVE  [Quota!Next]_(Quota!vars)
  BY DEF Handle
<1>0. p.conn \in Conn /\ TypeOK
  BY DEF Shape, TypeOK, Packet
<1>1. CASE HandleInitial(p)
  <2>1. SameLive
    BY <1>0, <1>1 DEF TypeOK, HandleInitial, StartsHandshake, OpenFrom, SameLive
  <2> QED
    BY <1>1, <2>1, QuotaDiscard DEF HandleInitial
<1>2. CASE HandleFinished(p)
  BY <1>2, QuotaConnect
<1>3. CASE HandleClose(p)
  <2>1. CASE stage[p.conn] = "open" /\ echo_server_on_conn_closed(p.conn, {p})
    <3>1. \A q \in {p} : q.kind # "finished"
      BY <1>3 DEF HandleClose, Closes
    <3> QED
      BY <1>0, <2>1, <3>1, QuotaLeave
  <2>2. CASE stage[p.conn] = "mini" /\ Forget(p.conn) /\ rxq' = rxq \ {p}
    <3>1. SameLive
      BY <1>0, <2>2, OpenFromAfterForget DEF SameLive
    <3> QED
      BY <2>2, <3>1, QuotaDiscard
  <2> QED
    BY <1>3, <2>1, <2>2 DEF HandleClose
<1>4. CASE HandlePath(p)
  BY <1>4 DEF HandlePath, Moves, Steady, Shape, PathOnlyIfAllowed
<1>5. CASE Discard(p)
  <2>1. SameLive
    BY <1>5 DEF Discard, OpenFrom, SameLive
  <2> QED
    BY <1>5, <2>1, QuotaDiscard DEF Discard
<1> QED
  BY <1>1, <1>2, <1>3, <1>4, <1>5

(* So is every step. *)
LEMMA QuotaStep ==
  Steady /\ Roomy /\ Shape /\ Shape' /\ Accounts /\ [Next]_vars
    => [Quota!Next]_(Quota!vars)
<1> SUFFICES ASSUME Steady, Roomy, Shape, Shape', Accounts, [Next]_vars
             PROVE  [Quota!Next]_(Quota!vars)
  OBVIOUS
<1>0. TypeOK
  BY DEF Shape
<1>1. ASSUME NEW p \in Packet, XdpReceive(p) PROVE [Quota!Next]_(Quota!vars)
  BY <1>1, QuotaReceive
<1>2. CASE Handle
  BY <1>2, QuotaHandle
<1>3. ASSUME NEW c \in Conn, IdleTimeout(c) PROVE [Quota!Next]_(Quota!vars)
  <2>1. CASE stage[c] = "open" /\ echo_server_on_conn_closed(c, {})
    BY <2>1, QuotaLeave
  <2>2. CASE stage[c] = "mini" /\ Forget(c) /\ UNCHANGED rxq
    <3>1. SameLive /\ SameAdmitted
      BY <1>0, <2>2, OpenFromAfterForget DEF SameLive, SameAdmitted, FinishedFrom
    <3> QED
      BY <3>1, QuotaStutter
  <2> QED
    BY <1>3, <2>1, <2>2 DEF IdleTimeout
<1>4. ASSUME NEW c \in Conn, Cleanup(c) PROVE [Quota!Next]_(Quota!vars)
  BY <1>4, QuotaLeave DEF Cleanup
<1>5. CASE Exit \/ Interrupt \/ Crash
  BY <1>5, QuotaEnd DEF Exit, Interrupt, Crash
<1>6. CASE UNCHANGED vars
  <2>1. SameLive /\ SameAdmitted
    BY <1>6 DEF vars, SameLive, SameAdmitted, OpenFrom, FinishedFrom
  <2> QED
    BY <2>1, QuotaStutter
<1> QED
  BY <1>1, <1>2, <1>3, <1>4, <1>5, <1>6 DEF Next

(* Seen through its live connections and queued handshakes, the server is  *)
(* a QuotaSpec: every step admits under the limit, connects what was       *)
(* admitted, lets something go, or changes neither.                        *)
THEOREM OffloadImplementsQuota ==
  ASSUME Steady, Roomy
  PROVE  Spec => ImplementsQuota
<1>1. (Shape /\ Accounts) /\ (Shape /\ Accounts)' /\ [Next]_vars
      => [Quota!Next]_(Quota!vars)
  BY QuotaStep
<1> QED
  BY <1>1, QuotaInit, AccountsAlways, PTL DEF Spec, ImplementsQuota, Quota!Spec

-----------------------------------------------------------------------------
(* With migration the counters of single addresses are wrong; their sum    *)
(* still covers the connections: an increment adds a unit and a connection *)
(* wherever, a decrement takes a connection and a unit at most.            *)

(* What is in the set of units of a map. *)
LEMMA UnitsMembers ==
  ASSUME NEW m, NEW u
  PROVE  u \in Units(m) <=> \E a \in DOMAIN m : \E i \in 1..m[a] : u = <<a, i>>
BY DEF Units

(* One more at an address is one more unit. *)
LEMMA UnitsAfterInc ==
  ASSUME NEW m, IsCounterMap(m), NEW a, NEW n \in Nat,
         IF a \in DOMAIN m THEN n = m[a] ELSE n = 0
  PROVE  Units(Put(m, a, n + 1)) = Units(m) \cup {<<a, n + 1>>} /\ <<a, n + 1>> \notin Units(m)
<1> DEFINE m2 == Put(m, a, n + 1)
<1>1. /\ DOMAIN m2 = DOMAIN m \cup {a}
      /\ m2[a] = n + 1
      /\ \A b \in DOMAIN m : b # a => m2[b] = m[b]
  BY DEF Put
<1>2. <<a, n + 1>> \notin Units(m)
  BY UnitsMembers DEF IsCounterMap
<1>3. 1..(n + 1) = 1..n \cup {n + 1}
  OBVIOUS
<1> HIDE DEF m2
<1>4. ASSUME NEW u \in Units(m2) PROVE u \in Units(m) \cup {<<a, n + 1>>}
  <2>1. PICK b \in DOMAIN m2 : \E i \in 1..m2[b] : u = <<b, i>>
    BY UnitsMembers
  <2>2. CASE b = a
    BY <1>1, <1>3, <2>1, <2>2, UnitsMembers
  <2>3. CASE b # a
    BY <1>1, <2>1, <2>3, UnitsMembers
  <2> QED
    BY <2>2, <2>3
<1>5. ASSUME NEW u \in Units(m) PROVE u \in Units(m2)
  <2>1. PICK b \in DOMAIN m : \E i \in 1..m[b] : u = <<b, i>>
    BY UnitsMembers
  <2>2. b \in DOMAIN m2 /\ \E i \in 1..m2[b] : u = <<b, i>>
    BY <1>1, <1>3, <2>1
  <2> QED
    BY <2>2, UnitsMembers
<1>6. <<a, n + 1>> \in Units(m2)
  <2>1. a \in DOMAIN m2 /\ n + 1 \in 1..m2[a]
    BY <1>1
  <2> QED
    BY <2>1, UnitsMembers
<1>7. Units(m2) = Units(m) \cup {<<a, n + 1>>}
  BY <1>4, <1>5, <1>6
<1> QED
  BY <1>2, <1>7 DEF m2

(* One less at an address is one unit less. *)
LEMMA UnitsAfterDec ==
  ASSUME NEW m, IsCounterMap(m), NEW a \in DOMAIN m, m[a] # 0
  PROVE  Units(Put(m, a, m[a] - 1)) = Units(m) \ {<<a, m[a]>>}
<1> DEFINE m2 == Put(m, a, m[a] - 1)
<1>0. m[a] \in Nat
  BY DEF IsCounterMap
<1>1. IsCounterMap(m2)
  <2>1. a \in Addr /\ m[a] - 1 \in Nat
    BY <1>0 DEF IsCounterMap
  <2> QED
    BY <2>1, PutType
<1>2. a \in DOMAIN m2 /\ m2[a] = m[a] - 1
  BY DEF Put
<1>3. Put(m2, a, m[a]) = m
  BY DEF Put, IsCounterMap
<1>4. m2[a] \in Nat /\ m2[a] + 1 = m[a]
  BY <1>0, <1>2
<1> HIDE DEF m2
<1>5. Units(m) = Units(m2) \cup {<<a, m[a]>>} /\ <<a, m[a]>> \notin Units(m2)
  BY <1>1, <1>2, <1>3, <1>4, UnitsAfterInc
<1> QED
  BY <1>5 DEF m2

(* The invariant: the units are finitely many, and cover the connections.  *)
Covered == IsFiniteSet(Units(counters)) /\ CountersCoverOpen

(* The open connections are finitely many. *)
LEMMA OpenFinite == IsFiniteSet(Open) /\ Cardinality(Open) \in Nat
<1>1. Open \in SUBSET Conn
  BY DEF Open
<1> QED
  BY <1>1, FS_Subset, FS_CardinalityType, OffloadAssumption

(* Every connection that opens finds room for its count. *)
LEMMA CoveredAfterNew ==
  ASSUME Shape, Covered, Roomy, ~ UpdateMayFail, NEW c \in Conn, stage[c] = "mini",
         echo_server_on_new_conn(c)
  PROVE  Covered'
<1> DEFINE p == peer[c]
           n == IF p \in DOMAIN counters THEN counters[p] ELSE 0
<1>1. p \in Addr /\ IsCounterMap(counters) /\ TypeOK
  BY DEF Shape, TypeOK, PeerKnown
<1>2. counters' = Put(counters, p, n + 1)
  BY <1>1, EveryoneCounted, IncEffect DEF Counted, echo_server_on_new_conn
<1>3. n \in Nat
  BY <1>1 DEF IsCounterMap
<1> HIDE DEF n
<1>4. /\ Units(counters') = Units(counters) \cup {<<p, n + 1>>}
      /\ <<p, n + 1>> \notin Units(counters)
  BY <1>1, <1>2, <1>3, UnitsAfterInc DEF n
<1>5. /\ IsFiniteSet(Units(counters'))
      /\ Cardinality(Units(counters')) = Cardinality(Units(counters)) + 1
  BY <1>4, FS_AddElement DEF Covered
<1>6. Open' = Open \cup {c} /\ c \notin Open
  BY <1>1 DEF TypeOK, Open, echo_server_on_new_conn
<1>7. Cardinality(Open') = Cardinality(Open) + 1
  BY <1>6, OpenFinite, FS_AddElement
<1>8. Cardinality(Units(counters)) \in Nat
  BY FS_CardinalityType DEF Covered
<1> QED
  BY <1>5, <1>7, <1>8, OpenFinite DEF Covered, CountersCoverOpen

(* A connection that closes takes its own unit, somebody's, or none. *)
LEMMA CoveredAfterClose ==
  ASSUME Shape, Covered, ~ UpdateMayFail, NEW c \in Conn, stage[c] = "open",
         NEW handled, echo_server_on_conn_closed(c, handled)
  PROVE  Covered'
<1> DEFINE p == peer[c]
<1>1. IsCounterMap(counters) /\ TypeOK
  BY DEF Shape, TypeOK
<1>2. counters' = IF p \in DOMAIN counters /\ counters[p] # 0
                  THEN Put(counters, p, counters[p] - 1) ELSE counters
  BY DecEffect DEF echo_server_on_conn_closed
<1>3. Open' = Open \ {c} /\ c \in Open
  BY <1>1 DEF TypeOK, Open, echo_server_on_conn_closed
<1>4. Cardinality(Open') = Cardinality(Open) - 1
  BY <1>3, OpenFinite, FS_RemoveElement
<1>5. Cardinality(Units(counters)) \in Nat
  BY FS_CardinalityType DEF Covered
<1>6. CASE p \in DOMAIN counters /\ counters[p] # 0
  <2>1. Units(counters') = Units(counters) \ {<<p, counters[p]>>}
    BY <1>1, <1>2, <1>6, UnitsAfterDec
  <2>2. counters[p] \in 1..counters[p]
    BY <1>1, <1>6 DEF IsCounterMap
  <2>3. <<p, counters[p]>> \in Units(counters)
    BY <1>6, <2>2, UnitsMembers
  <2>4. LET S == Units(counters) \ {<<p, counters[p]>>}
        IN  IsFiniteSet(S) /\ Cardinality(S) = Cardinality(Units(counters)) - 1
    BY <2>3, FS_RemoveElement DEF Covered
  <2> QED
    BY <1>4, <1>5, <2>1, <2>4, OpenFinite DEF Covered, CountersCoverOpen
<1>7. CASE ~ (p \in DOMAIN counters /\ counters[p] # 0)
  BY <1>2, <1>4, <1>5, <1>7, OpenFinite DEF Covered, CountersCoverOpen
<1> QED
  BY <1>6, <1>7

(* A step that leaves the map and the connections alone. *)
LEMMA CoveredAfterOther ==
  ASSUME Covered, counters' = counters, Open' = Open
  PROVE  Covered'
BY DEF Covered, CountersCoverOpen

(* Nothing is open any more: whatever the map holds covers it. *)
LEMMA CoveredAfterEnd ==
  ASSUME Covered, NoConnections, counters' = counters \/ counters' = EmptyMap
  PROVE  Covered'
<1>1. Open' = {} /\ Cardinality({}) = 0
  BY FS_EmptySet DEF Open, NoConnections
<1>2. Units(EmptyMap) = {}
  BY DEF Units, EmptyMap
<1>3. IsFiniteSet(Units(counters'))
  BY <1>2, FS_EmptySet DEF Covered
<1>4. Cardinality(Units(counters')) \in Nat
  BY <1>3, FS_CardinalityType
<1> QED
  BY <1>1, <1>3, <1>4 DEF Covered, CountersCoverOpen

(* The engine keeps the connections covered, wherever they move. *)
LEMMA CoveredHandle ==
  Roomy /\ ~ UpdateMayFail /\ Shape /\ Covered /\ Handle => Covered'
<1> SUFFICES ASSUME Roomy, ~ UpdateMayFail, Shape, Covered, NEW p \in rxq,
                    \/ HandleInitial(p)
                    \/ HandleFinished(p)
                    \/ HandleClose(p)
                    \/ HandlePath(p)
                    \/ Discard(p)
             PROVE  Covered'
  BY DEF Handle
<1>0. p.conn \in Conn /\ TypeOK
  BY DEF Shape, TypeOK, Packet
<1>1. CASE HandleInitial(p) \/ HandlePath(p) \/ Discard(p)
  <2>1. Open' = Open
    BY <1>0, <1>1
    DEF TypeOK, HandleInitial, StartsHandshake, HandlePath, Discard, Open
  <2> QED
    BY <1>1, <2>1, CoveredAfterOther DEF HandleInitial, HandlePath, Discard
<1>2. CASE HandleFinished(p)
  BY <1>0, <1>2, CoveredAfterNew DEF HandleFinished, EndsHandshake
<1>3. CASE stage[p.conn] = "open" /\ echo_server_on_conn_closed(p.conn, {p})
  BY <1>0, <1>3, CoveredAfterClose
<1>4. CASE stage[p.conn] = "mini" /\ Forget(p.conn)
  BY <1>0, <1>4, CoveredAfterOther DEF TypeOK, Forget, Open
<1> QED
  BY <1>1, <1>2, <1>3, <1>4 DEF HandleClose

(* So does every step. *)
LEMMA CoveredStep ==
  Roomy /\ ~ UpdateMayFail /\ Shape /\ Covered /\ [Next]_vars => Covered'
<1> SUFFICES ASSUME Roomy, ~ UpdateMayFail, Shape, Covered, [Next]_vars
             PROVE  Covered'
  OBVIOUS
<1>1. ASSUME NEW p \in Packet, XdpReceive(p) PROVE Covered'
  BY <1>1, CoveredAfterOther DEF XdpReceive, Open
<1>2. CASE Handle
  BY <1>2, CoveredHandle
<1>3. ASSUME NEW c \in Conn, IdleTimeout(c) PROVE Covered'
  <2>1. CASE stage[c] = "open" /\ echo_server_on_conn_closed(c, {})
    BY <2>1, CoveredAfterClose
  <2>2. CASE stage[c] = "mini" /\ Forget(c)
    BY <2>2, CoveredAfterOther DEF Shape, TypeOK, Forget, Open
  <2> QED
    BY <1>3, <2>1, <2>2 DEF IdleTimeout
<1>4. ASSUME NEW c \in Conn, Cleanup(c) PROVE Covered'
  BY <1>4, CoveredAfterClose DEF Cleanup
<1>5. CASE Exit \/ Interrupt \/ Crash
  BY <1>5, CoveredAfterEnd DEF Exit, Interrupt, Crash
<1>6. CASE UNCHANGED vars
  BY <1>6, CoveredAfterOther DEF vars, Open
<1> QED
  BY <1>1, <1>2, <1>3, <1>4, <1>5, <1>6 DEF Next

(* Wherever clients move their connections, the counters together are no   *)
(* less than the connections that are open: what a migration hides from    *)
(* one address's quota, it takes from another's.                           *)
THEOREM CountersCover ==
  ASSUME Roomy, ~ UpdateMayFail
  PROVE  Spec => []CountersCoverOpen
<1>1. Init => Covered
  <2>1. Init => Open = {} /\ Units(counters) = {}
    BY DEF Init, Open, Units, EmptyMap
  <2> QED
    BY <2>1, FS_EmptySet DEF Covered, CountersCoverOpen
<1>2. Shape /\ Covered /\ [Next]_vars => Covered'
  BY CoveredStep
<1>3. Covered => CountersCoverOpen
  BY DEF Covered
<1> QED
  BY <1>1, <1>2, <1>3, ShapeAlways, PTL DEF Spec

-----------------------------------------------------------------------------
(* When the source's own statements hold. The runs show that they fail     *)
(* with a longer queue and with migration; nothing else is to blame.       *)

(* With one datagram at most between hook and engine no address exceeds    *)
(* its quota: only the queue makes the source's statement too strong.      *)
THEOREM OneInFlightRespectsQuota ==
  ASSUME Steady, Roomy, RxCap = 1
  PROVE  Spec => []QuotaRespected
<1>1. Shape /\ OvershootBounded => QuotaRespected
  <2> SUFFICES ASSUME Shape, OvershootBounded, NEW a \in Addr
               PROVE  Cardinality(OpenFrom(a)) <= QUIC_QUOTA_LIMIT
    BY DEF QuotaRespected
  <2>1. Counted(a)
    BY EveryoneCounted DEF Shape
  <2>2. Cardinality(OpenFrom(a)) + Cardinality(FinishedFrom(a))
          <= QUIC_QUOTA_LIMIT - 1 + RxCap
    BY <2>1 DEF OvershootBounded, Counted
  <2> QED
    BY <2>2, OpenFromFinite, FinishedFromFinite, CountersAssumption
<1>2. Spec => []OvershootBounded
  BY OvershootIsBounded
<1> QED
  BY <1>1, <1>2, ShapeAlways, PTL

(* Without migration, and unless the process dies without a word, the hook *)
(* drops the traffic of nobody who is below the quota: during the server's *)
(* life, its clean-up and after it.                                        *)
THEOREM BlocksOnlyAtQuota ==
  ASSUME Steady, ~ CrashAllowed
  PROVE  Spec => []BlockedOnlyAtQuota
<1>1. Shape /\ Accounts /\ ExitLeavesNothingBlocked => BlockedOnlyAtQuota
  BY DEF Accounts, ExitLeavesNothingBlocked, BlockedOnlyAtQuota, Blocked
<1>2. Spec => []ExitLeavesNothingBlocked
  BY ExitUnblocks
<1> QED
  BY <1>1, <1>2, AccountsAlways, PTL

=============================================================================
