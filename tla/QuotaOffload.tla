---------------------------- MODULE QuotaOffload ----------------------------
(***************************************************************************)
(* Connection quotas offloaded to the kernel.                              *)
(*                                                                         *)
(* Three actors share the counters map and nothing else:                   *)
(*                                                                         *)
(*   - the XDP hook decides, frame by frame and before the socket, what    *)
(*     reaches the server (XdpReceive);                                    *)
(*   - the QUIC engine takes datagrams from the socket in an order of its  *)
(*     own, runs handshakes, times out silent peers (external, lsquic);    *)
(*   - the callbacks of echo_server.c, run by the engine, count            *)
(*     connections up and down in the map.                                 *)
(*                                                                         *)
(* A connection is counted when its handshake is over, not when its        *)
(* packets pass the hook: what is queued in between is the state rxq.      *)
(***************************************************************************)
EXTENDS EquicCounters

CONSTANTS
  Conn,               (* connection slots; a slot is reused after a close   *)
  NoAddr,             (* the peer of an unused slot                         *)
  RxCap,              (* bound: datagrams queued between hook and engine    *)
  NConnOptions,       (* values of the option -n; 0 is "serve forever"      *)
  MigrationAllowed,   (* may a client move a connection to another address? *)
  CrashAllowed        (* may the process die without running a callback?    *)

ASSUME OffloadAssumption ==
  /\ IsFiniteSet(Conn)
  /\ NoAddr \notin Addr
  /\ RxCap \in Nat \ {0}
  /\ NConnOptions \subseteq Nat
  /\ MigrationAllowed \in BOOLEAN
  /\ CrashAllowed \in BOOLEAN

VARIABLES
  counters,   (* the eBPF map: addresses to connections counted             *)
  rxq,        (* datagrams past the hook that the engine has not handled    *)
  stage,      (* of a slot: unused, in handshake, or with a conn_ctx        *)
  peer,       (* of a slot: the address lsquic_conn_get_sockaddr reports    *)
  n_conn,     (* echo_server_ctx.n_conn: connections to serve before a stop *)
  prog        (* the event loop, its clean-up after prog_stop, or no process*)

vars == <<counters, rxq, stage, peer, n_conn, prog>>

Kind == {"initial", "finished", "close", "path"}

Packet == [conn: Conn, src: Addr, kind: Kind]

OpenFrom(a) == {c \in Conn : stage[c] = "open" /\ peer[c] = a}

Open == {c \in Conn : stage[c] = "open"}

FinishedFrom(a) == {p \in rxq : p.src = a /\ p.kind = "finished"}

Init ==
  /\ counters = EmptyMap
  /\ rxq = {}
  /\ stage = [c \in Conn |-> "none"]
  /\ peer = [c \in Conn |-> NoAddr]
  /\ n_conn \in NConnOptions
  /\ prog = "running"

-----------------------------------------------------------------------------
(* The hook. A UDP datagram that passes waits in the socket; one that is   *)
(* dropped, or finds the queue full, leaves no trace.                      *)

XdpReceive(p) ==
  /\ prog = "running"
  /\ p.kind = "path" => MigrationAllowed
  /\ udp_quota(counters, [src |-> p.src, protocol |-> "IPPROTO_UDP", ends |-> "udp"])
       = "XDP_PASS"
  /\ p \notin rxq
  /\ Cardinality(rxq) < RxCap
  /\ rxq' = rxq \cup {p}
  /\ UNCHANGED <<counters, stage, peer, n_conn, prog>>

-----------------------------------------------------------------------------
(* The callbacks of echo_server.c, called by the engine's steps below.     *)

echo_server_on_new_conn(c) ==
  /\ counters' \in equic_inc_counter(counters, peer[c])
  /\ stage' = [stage EXCEPT ![c] = "open"]
  /\ UNCHANGED <<peer, n_conn, prog>>

(* Mutants: n_conn is counted down below zero; only the connections that   *)
(* -n counts are counted down in the map.                                  *)
echo_server_on_conn_closed_below(c, handled) ==
  /\ n_conn' = n_conn - 1
  /\ rxq' = rxq \ handled
  /\ counters' \in equic_dec_counter(counters, peer[c])
  /\ stage' = [stage EXCEPT ![c] = "none"]
  /\ peer' = [peer EXCEPT ![c] = NoAddr]
  /\ UNCHANGED prog

echo_server_on_conn_closed_counted(c, handled) ==
  /\ n_conn' = IF n_conn = 0 THEN 0 ELSE n_conn - 1
  /\ prog' = IF n_conn = 1 THEN "cleanup" ELSE prog
  /\ rxq' = IF n_conn = 1 THEN {} ELSE rxq \ handled
  /\ IF n_conn > 0 THEN counters' \in equic_dec_counter(counters, peer[c])
     ELSE UNCHANGED counters
  /\ stage' = [stage EXCEPT ![c] = "none"]
  /\ peer' = [peer EXCEPT ![c] = NoAddr]

(* The last connection asked for stops the loop: prog_stop closes the      *)
(* socket, and what is still queued there is lost. The others lose the     *)
(* datagrams in "handled".                                                 *)
echo_server_on_conn_closed(c, handled) ==
  /\ n_conn' = IF n_conn = 0 THEN 0 ELSE n_conn - 1
  /\ prog' = IF n_conn = 1 THEN "cleanup" ELSE prog
  /\ rxq' = IF n_conn = 1 THEN {} ELSE rxq \ handled
  /\ counters' \in equic_dec_counter(counters, peer[c])
  /\ stage' = [stage EXCEPT ![c] = "none"]
  /\ peer' = [peer EXCEPT ![c] = NoAddr]

-----------------------------------------------------------------------------
(* The engine (external): what makes it call back.                         *)

Forget(c) ==
  /\ stage' = [stage EXCEPT ![c] = "none"]
  /\ peer' = [peer EXCEPT ![c] = NoAddr]
  /\ UNCHANGED <<counters, n_conn, prog>>

StartsHandshake(p) == p.kind = "initial" /\ stage[p.conn] = "none"

EndsHandshake(p) ==
  p.kind = "finished" /\ stage[p.conn] = "mini" /\ peer[p.conn] = p.src

Closes(p) == p.kind = "close" /\ stage[p.conn] # "none" /\ peer[p.conn] = p.src

Moves(p) == p.kind = "path" /\ stage[p.conn] = "open" /\ peer[p.conn] # p.src

HandleInitial(p) ==
  /\ StartsHandshake(p)
  /\ stage' = [stage EXCEPT ![p.conn] = "mini"]
  /\ peer' = [peer EXCEPT ![p.conn] = p.src]
  /\ rxq' = rxq \ {p}
  /\ UNCHANGED <<counters, n_conn, prog>>

HandleFinished(p) ==
  /\ EndsHandshake(p)
  /\ echo_server_on_new_conn(p.conn)
  /\ rxq' = rxq \ {p}

HandleClose(p) ==
  /\ Closes(p)
  /\ \/ stage[p.conn] = "open" /\ echo_server_on_conn_closed(p.conn, {p})
     \/ stage[p.conn] = "mini" /\ Forget(p.conn) /\ rxq' = rxq \ {p}

HandlePath(p) ==
  /\ Moves(p)
  /\ peer' = [peer EXCEPT ![p.conn] = p.src]
  /\ rxq' = rxq \ {p}
  /\ UNCHANGED <<counters, stage, n_conn, prog>>

Discard(p) ==
  /\ ~ (StartsHandshake(p) \/ EndsHandshake(p) \/ Closes(p) \/ Moves(p))
  /\ rxq' = rxq \ {p}
  /\ UNCHANGED <<counters, stage, peer, n_conn, prog>>

(* The engine handles the datagrams of a batch connection by connection,   *)
(* so not in the order of their arrival.                                   *)
Handle ==
  /\ prog = "running"
  /\ \E p \in rxq : \/ HandleInitial(p)
                    \/ HandleFinished(p)
                    \/ HandleClose(p)
                    \/ HandlePath(p)
                    \/ Discard(p)

IdleTimeout(c) ==
  /\ prog = "running"
  /\ \/ stage[c] = "open" /\ echo_server_on_conn_closed(c, {})
     \/ stage[c] = "mini" /\ Forget(c) /\ UNCHANGED rxq

(* prog_cleanup destroys the engine, which closes every connection left.   *)
Cleanup(c) ==
  /\ prog = "cleanup"
  /\ stage[c] = "open"
  /\ echo_server_on_conn_closed(c, {})

-----------------------------------------------------------------------------
(* The end of the process.                                                 *)

NoConnections ==
  /\ stage' = [c \in Conn |-> "none"]
  /\ peer' = [c \in Conn |-> NoAddr]
  /\ rxq' = {}
  /\ UNCHANGED n_conn

(* main returns: nobody unloads the hook, it goes on reading the map. *)
Exit ==
  /\ prog = "cleanup"
  /\ Open = {}
  /\ prog' = "exited"
  /\ NoConnections
  /\ UNCHANGED counters

(* SIGINT or SIGTERM: the handler detaches the hook and exits; the kernel  *)
(* frees the program and, with it, the map.                                *)
Interrupt ==
  /\ prog # "exited"
  /\ prog' = "exited"
  /\ NoConnections
  /\ counters' = EmptyMap

(* The process dies on the spot: SIGKILL, a fault, an exit(1). The hook    *)
(* and the map stay with the interface. echo_server_on_conn_closed reads   *)
(* conn_h after freeing it, so the fault may come from there.              *)
Crash ==
  /\ CrashAllowed
  /\ prog # "exited"
  /\ prog' = "exited"
  /\ NoConnections
  /\ UNCHANGED counters

-----------------------------------------------------------------------------
Next ==
  \/ \E p \in Packet : XdpReceive(p)
  \/ Handle
  \/ \E c \in Conn : IdleTimeout(c) \/ Cleanup(c)
  \/ Exit
  \/ Interrupt
  \/ Crash

Spec == Init /\ [][Next]_vars

(* The event loop runs when there is something to handle, and prog_cleanup *)
(* runs to its end. A timeout is due only to a peer that stays silent: one *)
(* whose datagrams the hook drops certainly is.                            *)
Fairness ==
  /\ WF_vars(Handle)
  /\ \A c \in Conn : WF_vars(Blocked(counters, peer[c]) /\ IdleTimeout(c))
  /\ \A c \in Conn : WF_vars(Cleanup(c))
  /\ WF_vars(Exit)

FairSpec == Spec /\ Fairness

-----------------------------------------------------------------------------
(* Properties.                                                             *)

(* The type invariant. *)
TypeOK ==
  /\ IsCounterMap(counters)
  /\ rxq \in SUBSET Packet
  /\ stage \in [Conn -> {"none", "mini", "open"}]
  /\ peer \in [Conn -> Addr \cup {NoAddr}]
  /\ n_conn \in Nat
  /\ prog \in {"running", "cleanup", "exited"}

(* While the server lives, the counter of an address is the number of its  *)
(* open connections, after any history of arrivals, closes and timeouts,   *)
(* as long as connections stay at their address. An address that found the *)
(* map full is not counted, then or later, so it does not disturb the      *)
(* others.                                                                 *)
CounterExact ==
  prog # "exited" =>
    \A a \in DOMAIN counters : counters[a] = Cardinality(OpenFrom(a))

(* An address has connections and no entry, and so no quota, only when its *)
(* insertion in the map found it full.                                     *)
MissOnlyWhenFull ==
  \A a \in Addr \ DOMAIN counters :
    OpenFrom(a) # {} => ~ HasRoom(counters)

(* The hook checks when a datagram arrives, the server counts when the     *)
(* handshake is over: an address can pass the limit, but only by the       *)
(* handshakes that were queued behind the hook's last "pass". With one     *)
(* place in the queue the limit is exact.                                  *)
OvershootBounded ==
  \A a \in Addr :
    a \in DOMAIN counters \/ HasRoom(counters) =>
      Cardinality(OpenFrom(a)) + Cardinality(FinishedFrom(a))
        <= QUIC_QUOTA_LIMIT - 1 + RxCap

(* A server that ends leaves the hook attached (nobody unloads it), but no *)
(* address blocked: every connection was counted down on the way.          *)
ExitLeavesNothingBlocked ==
  prog = "exited" => \A a \in Addr : ~ Blocked(counters, a)

(* Whatever the migrations, the map counts at least as many connections as *)
(* are open: a client that moves leaves its count behind, so the server as *)
(* a whole never lets in more than without migration. A map is taken for   *)
(* the set of units its counters have: its size is their sum.              *)
Units(m) == UNION {{a} \X (1..m[a]) : a \in DOMAIN m}

CountersCoverOpen == Cardinality(Units(counters)) >= Cardinality(Open)

(* A count never goes below zero, even when increments were lost or a       *)
(* client closes at an address it did not open from: below zero the        *)
(* address would be owed connections over its quota.                       *)
NoCounterUnderflow == \A a \in DOMAIN counters : counters[a] >= 0

(* A blocked address cannot even close its connections, the hook drops     *)
(* that too; it is still unblocked in the end, when they time out.         *)
BlockedRecovers ==
  \A a \in Addr : Blocked(counters, a) ~> ~ Blocked(counters, a)

(* The server implements the quota's specification. *)
Quota ==
  INSTANCE QuotaSpec WITH
    Limit <- QUIC_QUOTA_LIMIT,
    Window <- RxCap,
    live <- [a \in Addr |-> Cardinality(OpenFrom(a))],
    admitted <- [a \in Addr |-> Cardinality(FinishedFrom(a))]

ImplementsQuota == Quota!Spec

-----------------------------------------------------------------------------
(* Statements of the source that the code does not keep.                   *)

(* equic_kern.c:14: the limit is the "maximum simultaneous connections     *)
(* allowed from a given source IPv4 address".                              *)
QuotaRespected ==
  \A a \in Addr : Cardinality(OpenFrom(a)) <= QUIC_QUOTA_LIMIT

(* equic_kern.c:102: traffic from an address is dropped "once it reached   *)
(* the simultaneous QUIC connections quota".                               *)
BlockedOnlyAtQuota ==
  \A a \in Addr :
    Blocked(counters, a) => Cardinality(OpenFrom(a)) >= QUIC_QUOTA_LIMIT

=============================================================================
