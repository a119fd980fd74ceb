------------------------------ MODULE QuotaSpec ------------------------------
(***************************************************************************)
(* What the offloaded quota promises, without hook, map or engine.         *)
(*                                                                         *)
(* An address is admitted while it has less than Limit live connections;   *)
(* an admission becomes a connection later, or never. The promise is about *)
(* the moment of admission: at most Window admissions wait at any time, so *)
(* an address may exceed the limit, and by how much is bounded.            *)
(***************************************************************************)
EXTENDS Naturals

CONSTANTS
  Addr,     (* source addresses                                             *)
  Limit,    (* QUIC_QUOTA_LIMIT                                             *)
  Window    (* admissions that may wait at the same time                    *)

VARIABLES
  live,       (* connections of each address                                *)
  admitted    (* admissions of each address that are not connections yet    *)

vars == <<live, admitted>>

Init ==
  /\ live = [a \in Addr |-> 0]
  /\ admitted = [a \in Addr |-> 0]

Admit(a) ==
  /\ live[a] < Limit
  /\ admitted[a] < Window
  /\ admitted' = [admitted EXCEPT ![a] = @ + 1]
  /\ UNCHANGED live

Connect(a) ==
  /\ admitted[a] > 0
  /\ admitted' = [admitted EXCEPT ![a] = @ - 1]
  /\ live' = [live EXCEPT ![a] = @ + 1]

Lapse(a) ==
  /\ admitted[a] > 0
  /\ admitted' = [admitted EXCEPT ![a] = @ - 1]
  /\ UNCHANGED live

Leave(a) ==
  /\ live[a] > 0
  /\ live' = [live EXCEPT ![a] = @ - 1]
  /\ UNCHANGED admitted

(* The server stops listening, with or without a last connection leaving.  *)
Shut(a) ==
  /\ live[a] > 0
  /\ live' = [live EXCEPT ![a] = @ - 1]
  /\ admitted' = [b \in Addr |-> 0]

End ==
  /\ live' = [a \in Addr |-> 0]
  /\ admitted' = [a \in Addr |-> 0]

Next ==
  \/ \E a \in Addr : Admit(a) \/ Connect(a) \/ Lapse(a) \/ Leave(a) \/ Shut(a)
  \/ End

Spec == Init /\ [][Next]_vars

=============================================================================
