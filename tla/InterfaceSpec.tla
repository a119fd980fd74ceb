---------------------------- MODULE InterfaceSpec ----------------------------
(***************************************************************************)
(* What a server may expect of the network interface: it is held by one    *)
(* server at a time, as a lock would be.                                   *)
(*                                                                         *)
(* A server takes the interface only when there is no program on it, and   *)
(* only the holder gives it back. A holder that ends without giving it     *)
(* back leaves its program there, and then nobody gets the interface again *)
(* before an administrator takes the program off.                          *)
(***************************************************************************)
CONSTANT Server

VARIABLES
  administered,   (* does somebody administer the interface?                *)
  holders,        (* the server whose program is on the interface, or none  *)
  stray           (* is there a program whose server has ended?             *)

vars == <<administered, holders, stray>>

Init ==
  /\ administered \in BOOLEAN
  /\ holders = {}
  /\ stray = FALSE

Attach(p) ==
  /\ holders = {}
  /\ ~ stray
  /\ holders' = {p}
  /\ UNCHANGED <<administered, stray>>

Detach(p) ==
  /\ holders = {p}
  /\ holders' = {}
  /\ UNCHANGED <<administered, stray>>

Abandon(p) ==
  /\ holders = {p}
  /\ holders' = {}
  /\ stray' = TRUE
  /\ UNCHANGED administered

(* Whoever administers the interface may empty it or put a program of his  *)
(* own there; a server that was about to detach its own may then hit that. *)
Administer ==
  /\ administered
  /\ holders' = {}
  /\ stray' \in BOOLEAN
  /\ UNCHANGED administered

Next ==
  \/ \E p \in Server : Attach(p) \/ Detach(p) \/ Abandon(p)
  \/ Administer

Spec == Init /\ [][Next]_vars

=============================================================================
