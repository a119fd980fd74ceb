----------------------------- MODULE HttpServer -----------------------------
(***************************************************************************)
(* The connections of http_server.c.                                       *)
(*                                                                         *)
(* One callback opens a connection, one closes it, and both keep several   *)
(* accounts at once: the connections that exist, those closed so far, the  *)
(* quota of the peer (in the kernel's map with option -e, in the array     *)
(* Quotas without it) and the requests of the interval. The first two stop *)
(* the program. A connection over its quota is refused after the fact: the *)
(* callback counts it, asks the engine to close it and returns.            *)
(***************************************************************************)
EXTENDS EquicCounters, Integers

CONSTANTS
  Conn,             (* connection slots; a slot is reused after a close     *)
  NoAddr,           (* the peer of an unused slot                           *)
  LastOctet,        (* what extract_last_octet returns for an address       *)
  QUOTA_LIMIT,      (* connections allowed to an octet: 5 in the code       *)
  COUNTER_INTERVAL, (* seconds between two prints of the rate: 5            *)
  EbpfOptions,      (* is the option -e given?                              *)
  MaxConnOptions,   (* values of the option -n; 0 is "serve forever"        *)
  MigrationOptions, (* may clients move connections to other addresses?     *)
  RxCap,            (* bound: datagrams queued behind the hook              *)
  RequestCap        (* bound on requests_per_second                         *)

Octet == {LastOctet[a] : a \in Addr}

ASSUME HttpAssumption ==
  /\ IsFiniteSet(Conn)
  /\ NoAddr \notin Addr
  /\ DOMAIN LastOctet = Addr
  /\ QUOTA_LIMIT \in Nat \ {0}
  /\ COUNTER_INTERVAL \in Nat \ {0}
  /\ EbpfOptions \subseteq BOOLEAN
  /\ MaxConnOptions \subseteq Nat
  /\ MigrationOptions \subseteq BOOLEAN
  /\ RxCap \in Nat \ {0}
  /\ RequestCap \in Nat \ {0}

VARIABLES
  counters,              (* the eBPF map                                    *)
  Quotas,                (* connections counted by last octet               *)
  stage,                 (* of a slot: unused, accepted, or over its quota  *)
  peer,                  (* of a slot: the peer's address                   *)
  n_current_conns,       (* server_ctx: connections that exist              *)
  n_conn,                (* server_ctx: connections closed, with option -n  *)
  max_conn,              (* server_ctx: the option -n                       *)
  has_eBPF,              (* server_ctx: the option -e                       *)
  clients_move,          (* do clients migrate in this behaviour?           *)
  requests_per_second,   (* shared with the counter thread, under "lock"    *)
  lock,                  (* the mutex: free, or held by the counter thread  *)
  printed,               (* the rate that it prints, whole requests only    *)
  cooldown,              (* PROG_FLAG_COOLDOWN                              *)
  stopped,               (* the static of http_server_on_conn_closed        *)
  prog                   (* the event loop                                  *)

options == <<max_conn, has_eBPF, clients_move>>
quota == <<counters, Quotas>>
counter_thread == <<lock, printed>>
requests == <<requests_per_second, counter_thread>>
vars == <<quota, stage, peer, n_current_conns, n_conn, options, requests,
          cooldown, stopped, prog>>

Existing == {c \in Conn : stage[c] # "none"}

AcceptedOn(o) == {c \in Conn : stage[c] = "accepted" /\ LastOctet[peer[c]] = o}

AcceptedFrom(a) == {c \in Conn : stage[c] = "accepted" /\ peer[c] = a}

Init ==
  /\ counters = EmptyMap
  /\ Quotas = [o \in Octet |-> 0]
  /\ stage = [c \in Conn |-> "none"]
  /\ peer = [c \in Conn |-> NoAddr]
  /\ n_current_conns = 0
  /\ n_conn = 0
  /\ max_conn \in MaxConnOptions
  /\ has_eBPF \in EbpfOptions
  /\ clients_move \in MigrationOptions
  /\ requests_per_second = 0
  /\ lock = "free" /\ printed = 0
  /\ cooldown = FALSE
  /\ stopped = FALSE
  /\ prog = "running"

-----------------------------------------------------------------------------
(* Quotas. Every access is under QuotasLock, by the only thread that has   *)
(* callbacks, so each of these is one step.                                *)

(* Mutant: off by one. *)
reached_quota_limit_late(a) == Quotas[LastOctet[a]] > QUOTA_LIMIT

reached_quota_limit(a) == Quotas[LastOctet[a]] >= QUOTA_LIMIT

(* Mutant: the value is written back as it was read. *)
inc_quota_same(q, a) == [q EXCEPT ![LastOctet[a]] = @]

inc_quota(q, a) == [q EXCEPT ![LastOctet[a]] = @ + 1]

(* Mutant: zero is decremented too. *)
dec_quota_unguarded(q, a) == [q EXCEPT ![LastOctet[a]] = @ - 1]

dec_quota(q, a) == [q EXCEPT ![LastOctet[a]] = IF @ > 0 THEN @ - 1 ELSE @]

(* Mutant: the lock is not waited for. *)
inc_request_counter_unlocked ==
  /\ requests_per_second < RequestCap
  /\ requests_per_second' = requests_per_second + 1
  /\ UNCHANGED counter_thread

inc_request_counter ==
  /\ lock = "free"
  /\ requests_per_second < RequestCap
  /\ requests_per_second' = requests_per_second + 1
  /\ UNCHANGED counter_thread

(* The counter thread locks, reads and prints the rate, a division of      *)
(* integers; then it starts again and unlocks. A callback that counts      *)
(* waits for it in between.                                                *)
PrintRequests ==
  /\ lock = "free"
  /\ lock' = "counter"
  /\ printed' = requests_per_second \div COUNTER_INTERVAL
  /\ UNCHANGED requests_per_second

ResetRequests ==
  /\ lock = "counter"
  /\ lock' = "free"
  /\ printed' = 0
  /\ requests_per_second' = 0

request_counter ==
  /\ prog # "exited"
  /\ PrintRequests \/ ResetRequests
  /\ UNCHANGED <<quota, stage, peer, n_current_conns, n_conn, options, cooldown,
                 stopped, prog>>

-----------------------------------------------------------------------------
(* The connection callbacks.                                               *)

Accept(c) ==
  /\ stage' = [stage EXCEPT ![c] = "accepted"]
  /\ inc_request_counter

Refuse(c) ==
  /\ stage' = [stage EXCEPT ![c] = "refused"]
  /\ UNCHANGED <<quota, requests>>

(* Mutants: a refused connection is not counted in; the quota is charged   *)
(* before it is tested.                                                    *)
http_server_on_new_conn_early(c, a) ==
  /\ ~ has_eBPF
  /\ peer' = [peer EXCEPT ![c] = a]
  /\ IF reached_quota_limit(a)
       THEN Refuse(c) /\ UNCHANGED n_current_conns
       ELSE /\ Quotas' = inc_quota(Quotas, a)
            /\ n_current_conns' = n_current_conns + 1
            /\ Accept(c)
            /\ UNCHANGED counters
  /\ UNCHANGED <<n_conn, options, cooldown, stopped, prog>>

http_server_on_new_conn_charged(c, a) ==
  /\ ~ has_eBPF
  /\ n_current_conns' = n_current_conns + 1
  /\ peer' = [peer EXCEPT ![c] = a]
  /\ Quotas' = inc_quota(Quotas, a)
  /\ stage' = [stage EXCEPT ![c] =
                 IF reached_quota_limit(a) THEN "refused" ELSE "accepted"]
  /\ UNCHANGED <<counters, n_conn, options, requests, cooldown,
                 stopped, prog>>

http_server_on_new_conn(c, a) ==
  /\ n_current_conns' = n_current_conns + 1
  /\ peer' = [peer EXCEPT ![c] = a]
  /\ \/ /\ has_eBPF
        /\ counters' \in equic_inc_counter(counters, a)
        /\ Accept(c)
        /\ UNCHANGED Quotas
     \/ /\ ~ has_eBPF
        /\ reached_quota_limit(a)
        /\ Refuse(c)
     \/ /\ ~ has_eBPF
        /\ ~ reached_quota_limit(a)
        /\ Quotas' = inc_quota(Quotas, a)
        /\ Accept(c)
        /\ UNCHANGED counters
  /\ UNCHANGED <<n_conn, options, cooldown, stopped, prog>>

(* prog_stop frees what the loop waits for: a second call would free it    *)
(* twice.                                                                  *)
prog_stop(p) == IF p = "running" THEN "cleanup" ELSE "stopped_twice"

(* Mutants: the count is tested before it is decremented; off by one.      *)
LastOfCooldown_before == cooldown /\ n_current_conns = 0

LastOfMaxConn_late == max_conn > 0 /\ n_conn >= max_conn

LastOfCooldown == cooldown /\ n_current_conns = 1

LastOfMaxConn == max_conn > 0 /\ n_conn + 1 >= max_conn

(* Mutant: the static "stopped" is not looked at. *)
http_server_on_conn_closed_again(c) ==
  /\ n_current_conns' = n_current_conns - 1
  /\ n_conn' = IF max_conn > 0 THEN n_conn + 1 ELSE n_conn
  /\ prog' = IF LastOfCooldown \/ LastOfMaxConn THEN prog_stop(prog) ELSE prog
  /\ Quotas' = dec_quota(Quotas, peer[c])
  /\ stage' = [stage EXCEPT ![c] = "none"]
  /\ peer' = [peer EXCEPT ![c] = NoAddr]
  /\ UNCHANGED <<counters, options, requests, cooldown, stopped>>

http_server_on_conn_closed(c) ==
  /\ n_current_conns' = n_current_conns - 1
  /\ n_conn' = IF max_conn > 0 THEN n_conn + 1 ELSE n_conn
  /\ IF (LastOfCooldown \/ LastOfMaxConn) /\ ~ stopped
       THEN stopped' = TRUE /\ prog' = prog_stop(prog)
       ELSE UNCHANGED <<stopped, prog>>
  /\ IF has_eBPF
       THEN counters' \in equic_dec_counter(counters, peer[c]) /\ UNCHANGED Quotas
       ELSE Quotas' = dec_quota(Quotas, peer[c]) /\ UNCHANGED counters
  /\ stage' = [stage EXCEPT ![c] = "none"]
  /\ peer' = [peer EXCEPT ![c] = NoAddr]
  /\ UNCHANGED <<options, requests, cooldown>>

-----------------------------------------------------------------------------
(* The engine and the event loop (external).                               *)

(* With -e the hook stands before the socket. It passed the handshakes that *)
(* end now while the count was below the limit, up to RxCap of them.       *)
HookPassed(a) ==
  has_eBPF /\ a \in DOMAIN counters =>
    counters[a] < QUIC_QUOTA_LIMIT - 1 + RxCap

(* A handshake is over. An engine that cools down starts none. *)
NewConn(c, a) ==
  /\ HookPassed(a)
  /\ prog = "running"
  /\ ~ cooldown
  /\ stage[c] = "none"
  /\ http_server_on_new_conn(c, a)

(* A peer closes or falls silent, or the server asked for the close; at    *)
(* the end, prog_cleanup destroys the engine and what is left in it.       *)
CloseConn(c) ==
  /\ prog \in {"running", "cleanup"}
  /\ stage[c] # "none"
  /\ http_server_on_conn_closed(c)

(* lsquic_conn_get_sockaddr reports the new path from here on. *)
Migrate(c, a) ==
  /\ clients_move
  /\ prog = "running"
  /\ stage[c] = "accepted"
  /\ peer' = [peer EXCEPT ![c] = a]
  /\ UNCHANGED <<quota, stage, n_current_conns, n_conn, options,
                 requests, cooldown, stopped, prog>>

(* SIGUSR2. *)
Cooldown ==
  /\ prog = "running"
  /\ ~ cooldown
  /\ cooldown' = TRUE
  /\ UNCHANGED <<quota, stage, peer, n_current_conns, n_conn, options,
                 requests, stopped, prog>>

Exit ==
  /\ prog = "cleanup"
  /\ Existing = {}
  /\ prog' = "exited"
  /\ UNCHANGED <<quota, stage, peer, n_current_conns, n_conn, options,
                 requests, cooldown, stopped>>

Next ==
  \/ \E c \in Conn, a \in Addr : NewConn(c, a) \/ Migrate(c, a)
  \/ \E c \in Conn : CloseConn(c)
  \/ request_counter
  \/ Cooldown
  \/ Exit

Spec == Init /\ [][Next]_vars

(* A refused connection is closed by the server, a cooling engine sends    *)
(* its clients away, and prog_cleanup runs to its end. Other connections   *)
(* last as long as their clients want.                                     *)
Fairness ==
  /\ \A c \in Conn :
       WF_vars((stage[c] = "refused" \/ cooldown \/ prog = "cleanup") /\ CloseConn(c))
  /\ WF_vars(Exit)

FairSpec == Spec /\ Fairness

-----------------------------------------------------------------------------
(* Properties.                                                             *)

(* The type invariant. *)
TypeOK ==
  /\ IsCounterMap(counters)
  /\ Quotas \in [Octet -> Nat]
  /\ stage \in [Conn -> {"none", "accepted", "refused"}]
  /\ peer \in [Conn -> Addr \cup {NoAddr}]
  /\ n_current_conns \in Nat
  /\ n_conn \in Nat
  /\ max_conn \in Nat
  /\ has_eBPF \in BOOLEAN
  /\ clients_move \in BOOLEAN
  /\ requests_per_second \in 0..RequestCap
  /\ lock \in {"free", "counter"}
  /\ printed \in 0..RequestCap
  /\ cooldown \in BOOLEAN
  /\ stopped \in BOOLEAN
  /\ prog \in {"running", "cleanup", "exited", "stopped_twice"}

(* n_current_conns, which decides the end of a cooldown, counts refused    *)
(* connections in and out like the others.                                 *)
CurrentConnsExact == n_current_conns = Cardinality(Existing)

(* Without -e, an octet is never charged for more connections than it has, *)
(* as long as connections stay at their address. (They may be connections  *)
(* of several networks, which the code does not tell apart.)               *)
QuotaNeverOvercharges ==
  ~ clients_move => \A o \in Octet : Quotas[o] <= Cardinality(AcceptedOn(o))

(* So a refusal is always justified by the connections that its octet has, *)
(* if not by those of its client.                                          *)
RefusedOnlyAtLimit ==
  [][\A c \in Conn, a \in Addr :
       ~ clients_move /\ stage[c] = "none" /\ stage'[c] = "refused" /\ peer'[c] = a
         => Cardinality(AcceptedOn(LastOctet[a])) >= QUOTA_LIMIT]_vars

(* Connections that an octet has and is not charged for. *)
Uncharged(o) == Cardinality(AcceptedOn(o)) - Quotas[o]

(* And that the limit can be passed has one cause only: without -e, as     *)
(* long as nobody moves, the quota of an octet loosens at the close of a   *)
(* refused connection of its own and at no other step.                     *)
OnlyRefusalsLoosen ==
  [][\A o \in Octet :
       ~ has_eBPF /\ ~ clients_move /\ Uncharged(o)' > Uncharged(o)
         => \E c \in Conn :
              stage[c] = "refused" /\ stage'[c] = "none" /\ LastOctet[peer[c]] = o]_vars

(* Whatever moves or is refused, no octet is charged over the limit.      *)
QuotaCapped == \A o \in Octet : Quotas[o] <= QUOTA_LIMIT

(* With -e nothing is refused and the map is exact.                        *)
EbpfCountersExact ==
  has_eBPF =>
    /\ \A c \in Conn : stage[c] # "refused"
    /\ ~ clients_move => \A a \in DOMAIN counters : counters[a] = Cardinality(AcceptedFrom(a))

(* The count that is taken away is the one the printed rate was computed   *)
(* from: no request comes in between. What the division drops is dropped,  *)
(* up to COUNTER_INTERVAL - 1 requests at each print.                      *)
ResetsWhatWasPrinted ==
  [][requests_per_second' < requests_per_second
       => printed = requests_per_second \div COUNTER_INTERVAL]_vars

(* The two reasons to stop, which one close may meet together, stop the    *)
(* loop once.                                                              *)
StopsOnce == prog # "stopped_twice"

(* With -n, the server stops at the connection that was asked for, not     *)
(* after it and, cooldown apart, not before.                               *)
ServesMaxConn ==
  /\ max_conn > 0 /\ prog = "running" => n_conn < max_conn
  /\ prog # "running" /\ ~ cooldown => max_conn > 0 /\ n_conn >= max_conn

(* A cooldown that finds connections ends with the program's exit, refused *)
(* connections and the limit of -n notwithstanding.                        *)
CooldownEnds == cooldown /\ n_current_conns > 0 ~> prog = "exited"

(* http_server.c:438: QUOTA_LIMIT is the "upper bound limit for clients    *)
(* connection quota". A refused connection lowers the count that refused   *)
(* it, and lets the next one in.                                           *)
QuotaIsUpperBound ==
  \A o \in Octet : Cardinality(AcceptedOn(o)) <= QUOTA_LIMIT

=============================================================================
