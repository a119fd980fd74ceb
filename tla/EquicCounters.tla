---------------------------- MODULE EquicCounters ----------------------------
(***************************************************************************)
(* The eBPF hash map "counters" and the code that shares it.               *)
(*                                                                         *)
(*   - the XDP hook udp_quota (src/equic_kern.c) reads it for every frame; *)
(*   - equic_inc_counter and equic_dec_counter (src/equic_user.c) update   *)
(*     it from the server process, through the bpf(2) system call.         *)
(*                                                                         *)
(* A map is a function from the addresses that have an entry to numbers.   *)
(* The update operators return the set of maps the call may leave behind:  *)
(* the callers only log a failed update, so a failure is an outcome.       *)
(***************************************************************************)
EXTENDS Naturals, FiniteSets

CONSTANTS
  Addr,               (* source IPv4 addresses, the keys of the map         *)
  QUIC_QUOTA_LIMIT,   (* connections allowed to an address: 5 in the code   *)
  MAX_ENTRIES,        (* capacity of the map: 1024 in the code              *)
  UpdateMayFail       (* may bpf_map_update_elem fail on an existing key?   *)

ASSUME CountersAssumption ==
  /\ IsFiniteSet(Addr)
  /\ QUIC_QUOTA_LIMIT \in Nat \ {0}
  /\ MAX_ENTRIES \in Nat \ {0}
  /\ UpdateMayFail \in BOOLEAN

IsCounterMap(m) == DOMAIN m \subseteq Addr /\ m \in [DOMAIN m -> Nat]

EmptyMap == [a \in {} |-> 0]

-----------------------------------------------------------------------------
(* bpf_map_update_elem, as the two call sites use it.                      *)

Put(m, a, v) == [x \in DOMAIN m \cup {a} |-> IF x = a THEN v ELSE m[x]]

HasRoom(m) == Cardinality(DOMAIN m) < MAX_ENTRIES

Failed(m) == IF UpdateMayFail THEN {m} ELSE {}

(* BPF_EXIST: replace the value of a key that is present. *)
Replace(m, a, v) == {Put(m, a, v)} \cup Failed(m)

(* Mutant: the flag BPF_EXIST for a key that is not there.                 *)
Insert_exist(m, a, v) == {m}

(* BPF_NOEXIST: add a key; E2BIG when the map is full. *)
Insert(m, a, v) == IF HasRoom(m) THEN {Put(m, a, v)} \cup Failed(m) ELSE {m}

-----------------------------------------------------------------------------
(* The two operations of the server process. *)

(* Mutant: the value is written back as it was read.                       *)
equic_inc_counter_same(m, a) ==
  IF a \in DOMAIN m THEN Replace(m, a, m[a]) ELSE Insert(m, a, 1)

equic_inc_counter(m, a) ==
  IF a \in DOMAIN m THEN Replace(m, a, m[a] + 1) ELSE Insert(m, a, 1)

(* Mutants: the last decrement removes the entry; the update is made with  *)
(* BPF_NOEXIST and so fails; zero is decremented too.                      *)
equic_dec_counter_deletes(m, a) ==
  IF a \notin DOMAIN m THEN {m}
  ELSE IF m[a] > 1 THEN Replace(m, a, m[a] - 1)
  ELSE {[x \in DOMAIN m \ {a} |-> m[x]]}

equic_dec_counter_noexist(m, a) == {m}

equic_dec_counter_unguarded(m, a) ==
  IF a \in DOMAIN m THEN Replace(m, a, m[a] - 1) ELSE {m}

equic_dec_counter(m, a) ==
  IF a \in DOMAIN m /\ m[a] # 0 THEN Replace(m, a, m[a] - 1) ELSE {m}

-----------------------------------------------------------------------------
(* The hook. A frame is its source address, the IP protocol and the last   *)
(* header it holds completely.                                             *)

Frame == [src: Addr, protocol: {"IPPROTO_UDP", "other"}, ends: {"eth", "ip", "udp"}]

(* Mutant: off by one. *)
Blocked_late(m, a) == a \in DOMAIN m /\ m[a] > QUIC_QUOTA_LIMIT

(* The address has reached its quota: everything it sends is dropped. *)
Blocked(m, a) == a \in DOMAIN m /\ m[a] >= QUIC_QUOTA_LIMIT

udp_quota(m, frame) ==
  IF frame.ends = "eth" THEN "XDP_ABORTED"
  ELSE IF frame.protocol # "IPPROTO_UDP" THEN "XDP_PASS"
  ELSE IF frame.ends = "ip" THEN "XDP_ABORTED"
  ELSE IF Blocked(m, frame.src) THEN "XDP_DROP"
  ELSE "XDP_PASS"

=============================================================================
