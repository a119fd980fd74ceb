-------------------------- MODULE HttpServerProofs --------------------------
(***************************************************************************)
(* What holds of HttpServer for every set of addresses and connections,    *)
(* every limit and every choice of options.                                *)
(***************************************************************************)
EXTENDS HttpServer, EquicCountersProofs

(* A slot in use has a peer. *)
PeerKnown == \A c \in Conn : stage[c] # "none" => peer[c] \in Addr

(* The static "stopped" knows whether the loop was stopped. *)
StoppedIsStopped == StopsOnce /\ (stopped <=> prog # "running")

Slots == TypeOK /\ PeerKnown /\ CurrentConnsExact /\ StoppedIsStopped

-----------------------------------------------------------------------------
(* The slots, and the count that decides the end of a cooldown.            *)

(* The slots in use are finitely many. *)
LEMMA ExistingFinite == IsFiniteSet(Existing) /\ Cardinality(Existing) \in Nat
<1>1. Existing \in SUBSET Conn
  BY DEF Existing
<1>2. IsFiniteSet(Existing)
  BY <1>1, FS_Subset, HttpAssumption
<1> QED
  BY <1>2, FS_CardinalityType

(* The empty server satisfies the invariant. *)
LEMMA SlotsInit == Init => Slots
<1> SUFFICES ASSUME Init PROVE Slots
  OBVIOUS
<1>1. TypeOK
  <2>1. IsCounterMap(counters)
    BY DEF Init, IsCounterMap, EmptyMap
  <2>2. has_eBPF \in BOOLEAN /\ clients_move \in BOOLEAN /\ max_conn \in Nat
    BY HttpAssumption DEF Init
  <2>3. 0 \in 0..RequestCap /\ 0 \in Int
    BY HttpAssumption
  <2> QED
    BY <2>1, <2>2, <2>3 DEF Init, TypeOK
<1>2. CurrentConnsExact
  <2>1. Existing = {}
    BY DEF Init, Existing
  <2> QED
    BY <2>1, FS_EmptySet DEF Init, CurrentConnsExact
<1> QED
  BY <1>1, <1>2 DEF Init, Slots, PeerKnown, StoppedIsStopped, StopsOnce

(* A new connection is counted, accepted or not. *)
LEMMA SlotsNew ==
  ASSUME Slots, NEW c \in Conn, NEW a \in Addr, NewConn(c, a)
  PROVE  Slots'
<1> USE DEF Slots, NewConn, http_server_on_new_conn
<1>1. LastOctet[a] \in Octet /\ Quotas[LastOctet[a]] \in Nat
  BY HttpAssumption DEF Octet, TypeOK
<1>2. /\ stage' \in [Conn -> {"none", "accepted", "refused"}]
      /\ stage'[c] # "none"
      /\ \A d \in Conn : d # c => stage'[d] = stage[d]
      /\ requests_per_second' \in 0..RequestCap
      /\ UNCHANGED counter_thread
  BY HttpAssumption
  DEF TypeOK, Accept, Refuse, inc_request_counter, quota, requests
<1>3. IsCounterMap(counters')
  BY IncType DEF TypeOK, Refuse, quota
<1>4. Quotas' \in [Octet -> Nat]
  BY <1>1 DEF TypeOK, Refuse, inc_quota, quota
<1>5. CurrentConnsExact'
  <2>1. Existing' = Existing \cup {c} /\ c \notin Existing
    BY <1>2 DEF Existing
  <2>2. Cardinality(Existing') = Cardinality(Existing) + 1
    BY <2>1, ExistingFinite, FS_AddElement
  <2> QED
    BY <2>2 DEF CurrentConnsExact
<1>6. TypeOK'
  <2>1. n_current_conns' \in Nat /\ peer' \in [Conn -> Addr \cup {NoAddr}]
    BY DEF TypeOK
  <2> QED
    BY <1>2, <1>3, <1>4, <2>1 DEF TypeOK, options, counter_thread
<1>7. PeerKnown'
  BY <1>2 DEF TypeOK, PeerKnown
<1> QED
  BY <1>5, <1>6, <1>7 DEF StoppedIsStopped, StopsOnce

(* A closed one is counted out, and stops the loop only if it runs. *)
LEMMA SlotsClose ==
  ASSUME Slots, NEW c \in Conn, CloseConn(c)
  PROVE  Slots'
<1> USE DEF Slots, CloseConn, http_server_on_conn_closed
<1>1. peer[c] \in Addr /\ LastOctet[peer[c]] \in Octet
  BY HttpAssumption DEF PeerKnown, Octet
<1>2. IsCounterMap(counters')
  BY DecType DEF TypeOK
<1>3. Quotas' \in [Octet -> Nat]
  BY <1>1 DEF TypeOK, dec_quota
<1>4. CurrentConnsExact' /\ n_current_conns' \in Nat
  <2>1. Existing' = Existing \ {c} /\ c \in Existing
    BY DEF Existing, TypeOK
  <2>2. Cardinality(Existing') = Cardinality(Existing) - 1
    BY <2>1, ExistingFinite, FS_RemoveElement
  <2>3. Cardinality(Existing') \in Nat
    BY <2>1, ExistingFinite, FS_RemoveElement, FS_CardinalityType
  <2> QED
    BY <2>2, <2>3 DEF CurrentConnsExact
<1>5. n_conn' \in Nat
  BY DEF TypeOK
<1>6. StoppedIsStopped' /\ stopped' \in BOOLEAN /\ prog' \in {"running", "cleanup"}
  BY DEF StoppedIsStopped, StopsOnce, prog_stop, TypeOK
<1>7. TypeOK'
  BY <1>2, <1>3, <1>4, <1>5, <1>6
  DEF TypeOK, options, requests, counter_thread
<1>8. PeerKnown'
  BY DEF PeerKnown, TypeOK
<1> QED
  BY <1>4, <1>6, <1>7, <1>8

(* The invariant is inductive. *)
LEMMA SlotsStep == Slots /\ [Next]_vars => Slots'
<1> SUFFICES ASSUME Slots, [Next]_vars PROVE Slots'
  OBVIOUS
<1> USE DEF Slots
<1>1. ASSUME NEW c \in Conn, NEW a \in Addr, NewConn(c, a) PROVE Slots'
  BY <1>1, SlotsNew
<1>2. ASSUME NEW c \in Conn, NEW a \in Addr, Migrate(c, a) PROVE Slots'
  BY <1>2 DEF Migrate, TypeOK, PeerKnown, CurrentConnsExact, Existing,
              StoppedIsStopped, StopsOnce, quota, options, requests,
              counter_thread
<1>3. ASSUME NEW c \in Conn, CloseConn(c) PROVE Slots'
  BY <1>3, SlotsClose
<1>4. CASE request_counter
  BY <1>4, HttpAssumption
  DEF request_counter, PrintRequests, ResetRequests, TypeOK, PeerKnown, CurrentConnsExact, Existing,
      StoppedIsStopped, StopsOnce, quota, options, requests,
              counter_thread
<1>5. CASE Cooldown
  BY <1>5 DEF Cooldown, TypeOK, PeerKnown, CurrentConnsExact, Existing,
              StoppedIsStopped, StopsOnce, quota, options, requests,
              counter_thread
<1>6. CASE Exit
  BY <1>6 DEF Exit, TypeOK, PeerKnown, CurrentConnsExact, Existing,
              StoppedIsStopped, StopsOnce, quota, options, requests,
              counter_thread
<1>7. CASE UNCHANGED vars
  BY <1>7 DEF vars, TypeOK, PeerKnown, CurrentConnsExact, Existing,
              StoppedIsStopped, StopsOnce, quota, options, requests,
              counter_thread
<1> QED
  BY <1>1, <1>2, <1>3, <1>4, <1>5, <1>6, <1>7 DEF Next

(* It holds of every reachable state. *)
LEMMA SlotsAlways == Spec => []Slots
BY SlotsInit, SlotsStep, PTL DEF Spec

(* Every reachable state is well typed, failed updates included: neither   *)
(* the count of connections nor a quota goes below zero.                   *)
THEOREM HttpTypeCorrect == Spec => []TypeOK
<1>1. Slots => TypeOK
  BY DEF Slots
<1> QED
  BY <1>1, SlotsAlways, PTL

(* n_current_conns is the number of connections that exist, whatever way   *)
(* they come and go.                                                       *)
THEOREM ConnectionsAreCounted == Spec => []CurrentConnsExact
<1>1. Slots => CurrentConnsExact
  BY DEF Slots
<1> QED
  BY <1>1, SlotsAlways, PTL

(* The loop is stopped once, by the cooldown or by the option -n.          *)
THEOREM LoopStopsOnce == Spec => []StopsOnce
<1>1. Slots => StopsOnce
  BY DEF Slots, StoppedIsStopped
<1> QED
  BY <1>1, SlotsAlways, PTL

(* With -n the loop does not run past the connection it was asked for, and *)
(* only a cooldown stops it before.                                        *)
THEOREM MaxConnIsServed == Spec => []ServesMaxConn
<1>1. Init => ServesMaxConn
  BY DEF Init, ServesMaxConn
<1>2. Slots /\ ServesMaxConn /\ [Next]_vars => ServesMaxConn'
  <2> SUFFICES ASSUME Slots, ServesMaxConn, [Next]_vars
               PROVE  ServesMaxConn'
    OBVIOUS
  <2> USE DEF ServesMaxConn
  <2>1. ASSUME NEW c \in Conn, CloseConn(c) PROVE ServesMaxConn'
    <3>1. prog = "running" => ~ stopped
      BY DEF Slots, StoppedIsStopped
    <3>2. /\ max_conn' = max_conn /\ max_conn \in Nat /\ n_conn \in Nat
          /\ n_conn' = IF max_conn > 0 THEN n_conn + 1 ELSE n_conn
          /\ cooldown' = cooldown
      BY <2>1 DEF CloseConn, http_server_on_conn_closed, options, Slots, TypeOK
    <3>3. prog' # "running" => prog # "running" \/ LastOfCooldown \/ LastOfMaxConn
      BY <2>1 DEF CloseConn, http_server_on_conn_closed
    <3>4. prog' = "running" => prog = "running" /\ ~ LastOfMaxConn
      BY <2>1, <3>1
      DEF CloseConn, http_server_on_conn_closed, prog_stop, Slots, TypeOK
    <3> QED
      BY <3>2, <3>3, <3>4 DEF LastOfMaxConn, LastOfCooldown
  <2>2. ASSUME NEW c \in Conn, NEW a \in Addr, NewConn(c, a) \/ Migrate(c, a)
        PROVE  ServesMaxConn'
    BY <2>2 DEF NewConn, http_server_on_new_conn, Migrate, options
  <2>3. CASE request_counter \/ Cooldown \/ Exit
    BY <2>3 DEF request_counter, Cooldown, Exit, options
  <2>4. CASE UNCHANGED vars
    BY <2>4 DEF vars, options
  <2> QED
    BY <2>1, <2>2, <2>3, <2>4 DEF Next
<1> QED
  BY <1>1, <1>2, SlotsAlways, PTL DEF Spec

-----------------------------------------------------------------------------
(* The quota of the server without -e. It may charge an octet for fewer    *)
(* connections than it has, never for more, and never beyond the limit.    *)

(* With -e the array is not used: a close has nothing to give back. *)
UnusedIsZero == has_eBPF => \A o \in Octet : Quotas[o] = 0

Charges == UnusedIsZero /\ QuotaCapped /\ QuotaNeverOvercharges

(* The accepted connections of an octet are finitely many. *)
LEMMA AcceptedOnFinite ==
  ASSUME NEW o
  PROVE  IsFiniteSet(AcceptedOn(o)) /\ Cardinality(AcceptedOn(o)) \in Nat
<1>1. AcceptedOn(o) \in SUBSET Conn
  BY DEF AcceptedOn
<1>2. IsFiniteSet(AcceptedOn(o))
  BY <1>1, FS_Subset, HttpAssumption
<1> QED
  BY <1>2, FS_CardinalityType

(* An accepted connection is charged, a refused one is not. *)
LEMMA ChargesNew ==
  ASSUME Slots, Charges, NEW c \in Conn, NEW a \in Addr, NewConn(c, a)
  PROVE  Charges'
<1> DEFINE l == LastOctet[a]
<1> USE DEF NewConn, http_server_on_new_conn
<1>1. l \in Octet /\ Quotas \in [Octet -> Nat] /\ TypeOK
  BY HttpAssumption DEF Octet, Slots, TypeOK
<1>2. has_eBPF' = has_eBPF /\ clients_move' = clients_move
  BY DEF options
<1>3. UnusedIsZero'
  BY <1>2 DEF Charges, UnusedIsZero, Refuse, quota
<1>4. QuotaCapped'
  BY <1>1, HttpAssumption
  DEF Charges, QuotaCapped, reached_quota_limit, inc_quota, Refuse, quota
<1>5. \A o : c \notin AcceptedOn(o)
  BY DEF AcceptedOn
<1>6. ASSUME ~ clients_move, NEW o \in Octet
      PROVE  Quotas'[o] <= Cardinality(AcceptedOn(o)')
  <2>1. Quotas[o] <= Cardinality(AcceptedOn(o))
    BY <1>6 DEF Charges, QuotaNeverOvercharges
  <2>2. CASE stage' = [stage EXCEPT ![c] = "accepted"] /\ o = l
    <3>1. AcceptedOn(o)' = AcceptedOn(o) \cup {c}
      BY <1>1, <2>2 DEF AcceptedOn, TypeOK
    <3>2. Cardinality(AcceptedOn(o)') = Cardinality(AcceptedOn(o)) + 1
      BY <1>5, <3>1, AcceptedOnFinite, FS_AddElement
    <3>3. Quotas'[o] = Quotas[o] \/ Quotas'[o] = Quotas[o] + 1
      BY <1>1, <2>2 DEF inc_quota, Refuse, quota
    <3> QED
      BY <1>1, <2>1, <3>2, <3>3, AcceptedOnFinite
  <2>3. CASE ~ (stage' = [stage EXCEPT ![c] = "accepted"] /\ o = l)
    <3>1. AcceptedOn(o)' = AcceptedOn(o)
      BY <1>1, <2>3 DEF AcceptedOn, TypeOK, Accept, Refuse
    <3>2. Quotas'[o] = Quotas[o]
      BY <1>1, <2>3 DEF inc_quota, Accept, Refuse, quota
    <3> QED
      BY <2>1, <3>1, <3>2
  <2> QED
    BY <2>2, <2>3
<1>7. QuotaNeverOvercharges'
  BY <1>2, <1>6 DEF QuotaNeverOvercharges
<1> QED
  BY <1>3, <1>4, <1>7 DEF Charges

(* A close gives back at least what the connection was charged. *)
LEMMA ChargesClose ==
  ASSUME Slots, Charges, NEW c \in Conn, CloseConn(c)
  PROVE  Charges'
<1> DEFINE l == LastOctet[peer[c]]
<1> USE DEF CloseConn, http_server_on_conn_closed
<1>1. l \in Octet /\ Quotas \in [Octet -> Nat] /\ TypeOK
  BY HttpAssumption DEF Octet, Slots, TypeOK, PeerKnown
<1>2. has_eBPF' = has_eBPF /\ clients_move' = clients_move
  BY DEF options
<1>3. \A o \in Octet :
        Quotas'[o] = IF ~ has_eBPF /\ o = l /\ Quotas[o] > 0
                     THEN Quotas[o] - 1 ELSE Quotas[o]
  BY <1>1 DEF dec_quota
<1>4. UnusedIsZero'
  BY <1>2, <1>3 DEF Charges, UnusedIsZero
<1>5. QuotaCapped'
  BY <1>1, <1>3, HttpAssumption DEF Charges, QuotaCapped
<1>6. ASSUME ~ clients_move, NEW o \in Octet
      PROVE  Quotas'[o] <= Cardinality(AcceptedOn(o)')
  <2>1. Quotas[o] <= Cardinality(AcceptedOn(o)) /\ Quotas[o] \in Nat
    BY <1>1, <1>6 DEF Charges, QuotaNeverOvercharges
  <2>2. has_eBPF => Quotas[o] = 0
    BY DEF Charges, UnusedIsZero
  <2>3. AcceptedOn(o)' = AcceptedOn(o) \ {c}
    BY <1>1 DEF AcceptedOn, TypeOK
  <2>4. CASE c \in AcceptedOn(o)
    <3>1. o = l
      BY <2>4 DEF AcceptedOn
    <3>2. /\ Cardinality(AcceptedOn(o)') = Cardinality(AcceptedOn(o)) - 1
          /\ Cardinality(AcceptedOn(o)) # 0
      BY <2>3, <2>4, AcceptedOnFinite, FS_RemoveElement, FS_EmptySet
    <3> QED
      BY <1>3, <2>1, <2>2, <3>1, <3>2, AcceptedOnFinite
  <2>5. CASE c \notin AcceptedOn(o)
    <3>1. AcceptedOn(o)' = AcceptedOn(o)
      BY <2>3, <2>5
    <3> QED
      BY <1>3, <2>1, <3>1, AcceptedOnFinite
  <2> QED
    BY <2>4, <2>5
<1>7. QuotaNeverOvercharges'
  BY <1>2, <1>6 DEF QuotaNeverOvercharges
<1> QED
  BY <1>4, <1>5, <1>7 DEF Charges

(* The charges stay right. *)
LEMMA ChargesStep == Slots /\ Charges /\ [Next]_vars => Charges'
<1> SUFFICES ASSUME Slots, Charges, [Next]_vars PROVE Charges'
  OBVIOUS
<1> USE DEF Charges, UnusedIsZero, QuotaCapped, QuotaNeverOvercharges
<1>1. ASSUME NEW c \in Conn, NEW a \in Addr, NewConn(c, a) PROVE Charges'
  BY <1>1, ChargesNew
<1>2. ASSUME NEW c \in Conn, NEW a \in Addr, Migrate(c, a) PROVE Charges'
  BY <1>2 DEF Migrate, quota, options
<1>3. ASSUME NEW c \in Conn, CloseConn(c) PROVE Charges'
  BY <1>3, ChargesClose
<1>4. CASE request_counter \/ Cooldown \/ Exit
  BY <1>4 DEF request_counter, Cooldown, Exit, quota, options, AcceptedOn
<1>5. CASE UNCHANGED vars
  BY <1>5 DEF vars, quota, options, AcceptedOn
<1> QED
  BY <1>1, <1>2, <1>3, <1>4, <1>5 DEF Next

(* They are right from the start. *)
LEMMA ChargesAlways == Spec => [](Slots /\ Charges)
<1>1. Init => Charges
  <2> SUFFICES ASSUME Init PROVE Charges
    OBVIOUS
  <2>1. \A o \in Octet : Quotas[o] = 0 /\ Cardinality(AcceptedOn(o)) \in Nat
    BY AcceptedOnFinite DEF Init
  <2> QED
    BY <2>1, HttpAssumption
    DEF Charges, UnusedIsZero, QuotaCapped, QuotaNeverOvercharges
<1> QED
  BY <1>1, ChargesStep, SlotsAlways, PTL DEF Spec

(* No octet is charged over the limit, wherever its connections go.        *)
THEOREM ChargesAreCapped == Spec => []QuotaCapped
<1>1. Charges => QuotaCapped
  BY DEF Charges
<1> QED
  BY <1>1, ChargesAlways, PTL

(* As long as connections stay at their address, no octet is charged for   *)
(* more connections than it has.                                           *)
THEOREM NobodyIsOvercharged == Spec => []QuotaNeverOvercharges
<1>1. Charges => QuotaNeverOvercharges
  BY DEF Charges
<1> QED
  BY <1>1, ChargesAlways, PTL

(* So http_server_on_new_conn refuses only those whose octet really has    *)
(* QUOTA_LIMIT connections.                                                *)
THEOREM RefusalsAreJustified == Spec => RefusedOnlyAtLimit
<1> DEFINE P(c, a) ==
      ~ clients_move /\ stage[c] = "none" /\ stage'[c] = "refused" /\ peer'[c] = a
        => Cardinality(AcceptedOn(LastOctet[a])) >= QUOTA_LIMIT
<1>1. Slots /\ Charges /\ [Next]_vars => [\A c \in Conn, a \in Addr : P(c, a)]_vars
  <2> SUFFICES ASSUME Slots, Charges, Next, NEW c \in Conn, NEW a \in Addr,
                      ~ clients_move, stage[c] = "none",
                      stage'[c] = "refused", peer'[c] = a
               PROVE  Cardinality(AcceptedOn(LastOctet[a])) >= QUOTA_LIMIT
    OBVIOUS
  <2>0. TypeOK
    BY DEF Slots
  <2>1. \A d \in Conn : ~ CloseConn(d) \/ stage'[c] = "none"
    BY <2>0 DEF CloseConn, http_server_on_conn_closed, TypeOK
  <2>2. PICK d \in Conn, b \in Addr : NewConn(d, b)
    BY <2>0, <2>1
    DEF Next, Migrate, request_counter, Cooldown, Exit, TypeOK
  <2>3. c = d /\ a = b /\ reached_quota_limit(a)
    BY <2>0, <2>2
    DEF NewConn, http_server_on_new_conn, Accept, Refuse, TypeOK
  <2>4. LastOctet[a] \in Octet /\ Quotas[LastOctet[a]] \in Nat
    BY <2>0, HttpAssumption DEF Octet, TypeOK
  <2>5. Quotas[LastOctet[a]] <= Cardinality(AcceptedOn(LastOctet[a]))
    BY <2>4 DEF Charges, QuotaNeverOvercharges
  <2> QED
    BY <2>3, <2>4, <2>5, AcceptedOnFinite, HttpAssumption DEF reached_quota_limit
<1> QED
  BY <1>1, ChargesAlways, PTL DEF Spec, RefusedOnlyAtLimit

(* A step that neither opens nor closes a connection leaves the difference. *)
LEMMA UnchargedSame ==
  ASSUME NEW o, stage' = stage, peer' = peer, Quotas' = Quotas
  PROVE  Uncharged(o)' = Uncharged(o)
BY DEF Uncharged, AcceptedOn

(* An accepted connection is charged, a refused one is not accepted.       *)
LEMMA UnchargedNew ==
  ASSUME Slots, ~ has_eBPF, NEW o \in Octet,
         NEW c \in Conn, NEW a \in Addr, NewConn(c, a)
  PROVE  ~ Uncharged(o)' > Uncharged(o)
<1> DEFINE l == LastOctet[a]
           n == Cardinality(AcceptedOn(o))
<1> USE DEF NewConn, http_server_on_new_conn
<1>1. /\ l \in Octet /\ Quotas \in [Octet -> Nat] /\ TypeOK
      /\ n \in Nat /\ Quotas[o] \in Nat
  BY AcceptedOnFinite, HttpAssumption DEF Octet, Slots, TypeOK
<1>2. c \notin AcceptedOn(o)
  BY DEF AcceptedOn
<1>3. CASE stage' = [stage EXCEPT ![c] = "accepted"] /\ Quotas' = inc_quota(Quotas, a)
  <2>1. AcceptedOn(o)' = IF o = l THEN AcceptedOn(o) \cup {c} ELSE AcceptedOn(o)
    BY <1>1, <1>3 DEF AcceptedOn, TypeOK
  <2>2. Cardinality(AcceptedOn(o)') = IF o = l THEN n + 1 ELSE n
    BY <1>2, <2>1, AcceptedOnFinite, FS_AddElement
  <2>3. Quotas'[o] = IF o = l THEN Quotas[o] + 1 ELSE Quotas[o]
    BY <1>1, <1>3 DEF inc_quota
  <2> QED
    BY <1>1, <2>2, <2>3 DEF Uncharged
<1>4. CASE Refuse(c)
  <2>1. AcceptedOn(o)' = AcceptedOn(o)
    BY <1>1, <1>2, <1>4 DEF AcceptedOn, TypeOK, Refuse
  <2> QED
    BY <1>1, <1>4, <2>1 DEF Uncharged, Refuse, quota
<1> QED
  BY <1>3, <1>4 DEF Accept

(* The close of an accepted connection gives back its charge, if there is  *)
(* any left, and touches no other octet; nor does that of a refused one.   *)
LEMMA UnchargedClose ==
  ASSUME Slots, ~ has_eBPF, NEW o \in Octet, NEW c \in Conn, CloseConn(c),
         Uncharged(o)' > Uncharged(o)
  PROVE  /\ stage[c] = "refused" /\ stage'[c] = "none"
         /\ LastOctet[peer[c]] = o
<1> DEFINE l == LastOctet[peer[c]]
           n == Cardinality(AcceptedOn(o))
<1> USE DEF CloseConn, http_server_on_conn_closed
<1>1. /\ l \in Octet /\ Quotas \in [Octet -> Nat] /\ TypeOK
      /\ n \in Nat /\ Quotas[o] \in Nat
  BY AcceptedOnFinite, HttpAssumption DEF Octet, Slots, TypeOK, PeerKnown
<1>2. Quotas'[o] = IF o = l /\ Quotas[o] > 0 THEN Quotas[o] - 1 ELSE Quotas[o]
  BY <1>1 DEF dec_quota
<1>3. AcceptedOn(o)' = AcceptedOn(o) \ {c}
  BY <1>1 DEF AcceptedOn, TypeOK
<1>4. c \notin AcceptedOn(o)
  <2> SUFFICES ASSUME c \in AcceptedOn(o) PROVE FALSE
    OBVIOUS
  <2>1. o = l
    BY DEF AcceptedOn
  <2>2. Cardinality(AcceptedOn(o)') = n - 1
    BY <1>3, AcceptedOnFinite, FS_RemoveElement
  <2> QED
    BY <1>1, <1>2, <2>1, <2>2 DEF Uncharged
<1>5. Cardinality(AcceptedOn(o)') = n
  BY <1>3, <1>4
<1>6. o = l
  BY <1>1, <1>2, <1>5 DEF Uncharged
<1>7. stage[c] # "accepted"
  BY <1>4, <1>6 DEF AcceptedOn
<1> QED
  BY <1>1, <1>6, <1>7 DEF TypeOK

(* So the close of a refused connection is the only step that loosens the  *)
(* quota without -e: what the run http_quota_bound shows needs one.        *)
THEOREM RefusalsAloneLoosen == Spec => OnlyRefusalsLoosen
<1> DEFINE P(o) ==
      ~ has_eBPF /\ ~ clients_move /\ Uncharged(o)' > Uncharged(o)
        => \E c \in Conn :
             stage[c] = "refused" /\ stage'[c] = "none" /\ LastOctet[peer[c]] = o
<1>1. Slots /\ [Next]_vars => [\A o \in Octet : P(o)]_vars
  <2> SUFFICES ASSUME Slots, Next, NEW o \in Octet, ~ has_eBPF, ~ clients_move,
                      Uncharged(o)' > Uncharged(o)
               PROVE  \E c \in Conn : /\ stage[c] = "refused" /\ stage'[c] = "none"
                                      /\ LastOctet[peer[c]] = o
    OBVIOUS
  <2>0. Uncharged(o) \in Int
    BY AcceptedOnFinite DEF Uncharged, Slots, TypeOK
  <2>1. \A c \in Conn, a \in Addr : ~ NewConn(c, a)
    BY UnchargedNew
  <2>2. ~ UNCHANGED <<stage, peer, Quotas>>
    BY <2>0, UnchargedSame
  <2>3. PICK c \in Conn : CloseConn(c)
    BY <2>1, <2>2 DEF Next, Migrate, request_counter, Cooldown, Exit, quota
  <2> QED
    BY <2>3, UnchargedClose
<1> QED
  BY <1>1, SlotsAlways, PTL DEF Spec, OnlyRefusalsLoosen

-----------------------------------------------------------------------------
(* The counters of the server with -e. As in QuotaOffloadProofs, the       *)
(* invariant covers the addresses without an entry: a full map stays full, *)
(* so an address that was missed never gets an entry later.                *)

NoneRefused == has_eBPF => \A c \in Conn : stage[c] # "refused"

Accounts ==
  has_eBPF /\ ~ clients_move =>
    \A a \in Addr :
      IF a \in DOMAIN counters THEN counters[a] = Cardinality(AcceptedFrom(a))
      ELSE HasRoom(counters) => AcceptedFrom(a) = {}

Ledger == NoneRefused /\ Accounts

(* The accepted connections of an address are finitely many. *)
LEMMA AcceptedFromFinite ==
  ASSUME NEW a
  PROVE  IsFiniteSet(AcceptedFrom(a)) /\ Cardinality(AcceptedFrom(a)) \in Nat
<1>1. AcceptedFrom(a) \in SUBSET Conn
  BY DEF AcceptedFrom
<1>2. IsFiniteSet(AcceptedFrom(a))
  BY <1>1, FS_Subset, HttpAssumption
<1> QED
  BY <1>2, FS_CardinalityType

(* A new connection is entered under its address, if the map has room. *)
LEMMA LedgerNew ==
  ASSUME Slots, Ledger, ~ UpdateMayFail,
         NEW c \in Conn, NEW p \in Addr, NewConn(c, p)
  PROVE  Ledger'
<1> USE DEF NewConn, http_server_on_new_conn
<1>0. TypeOK /\ has_eBPF' = has_eBPF /\ clients_move' = clients_move
  BY DEF Slots, options
<1>1. NoneRefused'
  BY <1>0 DEF Ledger, NoneRefused, Accept, TypeOK
<1> SUFFICES ASSUME has_eBPF, ~ clients_move, NEW a \in Addr
             PROVE  IF a \in DOMAIN counters'
                      THEN counters'[a] = Cardinality(AcceptedFrom(a)')
                      ELSE HasRoom(counters') => AcceptedFrom(a)' = {}
  BY <1>0, <1>1 DEF Ledger, Accounts
<1>2. counters' = IF p \in DOMAIN counters THEN Put(counters, p, counters[p] + 1)
                  ELSE IF HasRoom(counters) THEN Put(counters, p, 1) ELSE counters
  BY IncEffect
<1>3. HasRoom(counters') => HasRoom(counters)
  BY <1>0, <1>2, RoomOnlyShrinks DEF TypeOK
<1>4. IF a \in DOMAIN counters THEN counters[a] = Cardinality(AcceptedFrom(a))
      ELSE HasRoom(counters) => AcceptedFrom(a) = {}
  BY DEF Ledger, Accounts
<1>5. /\ c \notin AcceptedFrom(a)
      /\ AcceptedFrom(a)' = IF a = p THEN AcceptedFrom(a) \cup {c} ELSE AcceptedFrom(a)
  BY <1>0 DEF AcceptedFrom, TypeOK, Accept
<1>6. CASE a # p
  <2>1. /\ a \in DOMAIN counters' <=> a \in DOMAIN counters
        /\ a \in DOMAIN counters => counters'[a] = counters[a]
    BY <1>2, <1>6 DEF Put
  <2> QED
    BY <1>3, <1>4, <1>5, <1>6, <2>1
<1>7. CASE a = p
  <2>1. Cardinality(AcceptedFrom(a)') = Cardinality(AcceptedFrom(a)) + 1
    BY <1>5, <1>7, AcceptedFromFinite, FS_AddElement
  <2>2. CASE p \in DOMAIN counters
    BY <1>2, <1>4, <1>7, <2>1, <2>2 DEF Put
  <2>3. CASE p \notin DOMAIN counters /\ HasRoom(counters)
    <3>1. Cardinality(AcceptedFrom(a)) = 0
      BY <1>4, <1>7, <2>3, FS_EmptySet
    <3> QED
      BY <1>2, <1>7, <2>1, <2>3, <3>1 DEF Put
  <2>4. CASE p \notin DOMAIN counters /\ ~ HasRoom(counters)
    BY <1>2, <1>7, <2>4
  <2> QED
    BY <2>2, <2>3, <2>4
<1> QED
  BY <1>6, <1>7

(* A closed one is taken out of the entry it was made in. *)
LEMMA LedgerClose ==
  ASSUME Slots, Ledger, ~ UpdateMayFail, NEW c \in Conn, CloseConn(c)
  PROVE  Ledger'
<1> DEFINE p == peer[c]
<1> USE DEF CloseConn, http_server_on_conn_closed
<1>0. TypeOK /\ p \in Addr /\ has_eBPF' = has_eBPF /\ clients_move' = clients_move
  BY DEF Slots, PeerKnown, options
<1>1. NoneRefused'
  BY <1>0 DEF Ledger, NoneRefused, TypeOK
<1> SUFFICES ASSUME has_eBPF, ~ clients_move, NEW a \in Addr
             PROVE  IF a \in DOMAIN counters'
                      THEN counters'[a] = Cardinality(AcceptedFrom(a)')
                      ELSE HasRoom(counters') => AcceptedFrom(a)' = {}
  BY <1>0, <1>1 DEF Ledger, Accounts
<1>2. counters' = IF p \in DOMAIN counters /\ counters[p] # 0
                  THEN Put(counters, p, counters[p] - 1) ELSE counters
  BY DecEffect
<1>3. DOMAIN counters' = DOMAIN counters
  BY <1>2 DEF Put
<1>4. HasRoom(counters') <=> HasRoom(counters)
  BY <1>3 DEF HasRoom
<1>5. IF a \in DOMAIN counters THEN counters[a] = Cardinality(AcceptedFrom(a))
      ELSE HasRoom(counters) => AcceptedFrom(a) = {}
  BY DEF Ledger, Accounts
<1>6. stage[c] = "accepted"
  BY <1>0 DEF Ledger, NoneRefused, TypeOK
<1>7. /\ c \in AcceptedFrom(a) <=> a = p
      /\ AcceptedFrom(a)' = AcceptedFrom(a) \ {c}
  BY <1>0, <1>6 DEF AcceptedFrom, TypeOK
<1>8. CASE a # p
  <2>1. AcceptedFrom(a)' = AcceptedFrom(a)
    BY <1>7, <1>8
  <2>2. a \in DOMAIN counters => counters'[a] = counters[a]
    BY <1>2, <1>8 DEF Put
  <2> QED
    BY <1>3, <1>4, <1>5, <2>1, <2>2
<1>9. CASE a = p
  <2>1. /\ Cardinality(AcceptedFrom(a)') = Cardinality(AcceptedFrom(a)) - 1
        /\ Cardinality(AcceptedFrom(a)) # 0
    BY <1>7, <1>9, AcceptedFromFinite, FS_RemoveElement, FS_EmptySet
  <2>2. CASE a \in DOMAIN counters
    BY <1>2, <1>3, <1>5, <1>9, <2>1, <2>2 DEF Put
  <2>3. CASE a \notin DOMAIN counters
    BY <1>3, <1>4, <1>5, <1>7, <1>9, <2>3
  <2> QED
    BY <2>2, <2>3
<1> QED
  BY <1>8, <1>9

(* The ledger stays right. *)
LEMMA LedgerStep ==
  ~ UpdateMayFail /\ Slots /\ Ledger /\ [Next]_vars => Ledger'
<1> SUFFICES ASSUME ~ UpdateMayFail, Slots, Ledger, [Next]_vars PROVE Ledger'
  OBVIOUS
<1> USE DEF Ledger, NoneRefused, Accounts
<1>1. ASSUME NEW c \in Conn, NEW a \in Addr, NewConn(c, a) PROVE Ledger'
  BY <1>1, LedgerNew
<1>2. ASSUME NEW c \in Conn, NEW a \in Addr, Migrate(c, a) PROVE Ledger'
  BY <1>2 DEF Migrate, options
<1>3. ASSUME NEW c \in Conn, CloseConn(c) PROVE Ledger'
  BY <1>3, LedgerClose
<1>4. CASE request_counter \/ Cooldown \/ Exit
  BY <1>4
  DEF request_counter, Cooldown, Exit, quota, options, AcceptedFrom, HasRoom
<1>5. CASE UNCHANGED vars
  BY <1>5 DEF vars, quota, options, AcceptedFrom, HasRoom
<1> QED
  BY <1>1, <1>2, <1>3, <1>4, <1>5 DEF Next

(* With -e nothing is refused, and if no update fails and connections stay *)
(* at their address, each entry of the map is the number of connections of *)
(* its address.                                                            *)
THEOREM EbpfCountersAreExact ==
  ASSUME ~ UpdateMayFail
  PROVE  Spec => []EbpfCountersExact
<1>1. Init => Ledger
  BY DEF Init, Ledger, NoneRefused, Accounts, AcceptedFrom, EmptyMap
<1>2. Slots /\ Ledger /\ [Next]_vars => Ledger'
  BY LedgerStep
<1>3. Slots /\ Ledger => EbpfCountersExact
  BY DEF Slots, TypeOK, IsCounterMap, Ledger, NoneRefused, Accounts, EbpfCountersExact
<1> QED
  BY <1>1, <1>2, <1>3, SlotsAlways, PTL DEF Spec

-----------------------------------------------------------------------------
(* The counter thread.                                                     *)

(* Under its lock, the thread resets what the rate was computed from. *)
Interval ==
  lock = "counter" => printed = requests_per_second \div COUNTER_INTERVAL

(* A callback counts its request while the lock is free. *)
LEMMA IntervalStep == Interval /\ [Next]_vars => Interval'
<1> SUFFICES ASSUME Interval, [Next]_vars PROVE Interval'
  OBVIOUS
<1> USE DEF Interval
<1>1. ASSUME NEW c \in Conn, NEW a \in Addr, NewConn(c, a) PROVE Interval'
  BY <1>1 DEF NewConn, http_server_on_new_conn, Accept, Refuse,
              inc_request_counter, requests, counter_thread
<1>2. CASE request_counter
  BY <1>2 DEF request_counter, PrintRequests, ResetRequests
<1>3. ASSUME NEW c \in Conn, NEW a \in Addr, Migrate(c, a) PROVE Interval'
  BY <1>3 DEF Migrate, requests, counter_thread
<1>4. ASSUME NEW c \in Conn, CloseConn(c) PROVE Interval'
  BY <1>4 DEF CloseConn, http_server_on_conn_closed, requests, counter_thread
<1>5. CASE Cooldown \/ Exit \/ UNCHANGED vars
  BY <1>5 DEF Cooldown, Exit, vars, requests, counter_thread
<1> QED
  BY <1>1, <1>2, <1>3, <1>4, <1>5 DEF Next

(* Only the thread takes requests away: a callback adds one. *)
LEMMA OnlyResetLowers ==
  Slots /\ Next /\ requests_per_second' < requests_per_second => lock = "counter"
<1> SUFFICES ASSUME Slots, Next, requests_per_second' < requests_per_second
             PROVE  lock = "counter"
  OBVIOUS
<1>1. requests_per_second \in Nat
  BY HttpAssumption DEF Slots, TypeOK
<1>2. ASSUME NEW c \in Conn, NEW a \in Addr, NewConn(c, a) PROVE FALSE
  BY <1>1, <1>2 DEF NewConn, http_server_on_new_conn, Accept, Refuse,
                    inc_request_counter, requests
<1>3. CASE request_counter
  BY <1>1, <1>3 DEF request_counter, PrintRequests, ResetRequests
<1>4. ASSUME requests_per_second' = requests_per_second PROVE FALSE
  BY <1>1, <1>4
<1> QED
  BY <1>2, <1>3, <1>4
  DEF Next, Migrate, CloseConn, http_server_on_conn_closed, Cooldown, Exit, requests

(* What a reset takes away is the count that the printed rate was computed *)
(* from, however the thread's steps fall between the callbacks.            *)
THEOREM ResetsArePrinted == Spec => ResetsWhatWasPrinted
<1>1. Init => Interval
  BY DEF Init, Interval
<1>2. Slots /\ Interval /\ [Next]_vars
        => [requests_per_second' < requests_per_second
              => printed = requests_per_second \div COUNTER_INTERVAL]_vars
  BY OnlyResetLowers DEF Interval
<1> QED
  BY <1>1, <1>2, IntervalStep, SlotsAlways, PTL DEF Spec, ResetsWhatWasPrinted

=============================================================================
