---------------------------- MODULE ResponseSpec ----------------------------
(***************************************************************************)
(* What the HTTP server promises of a response, whatever its mode: its     *)
(* length is settled when the request is taken, it is delivered front to   *)
(* back, it ends when all of it was delivered or is lost, and it does not  *)
(* come back after that.                                                   *)
(***************************************************************************)
EXTENDS Naturals

CONSTANTS
  Stream,
  Length   (* of responses, and of what is left of them: numbers, 0 is one  *)

VARIABLES
  phase,   (* of a stream: no response yet, one due, ended, or lost         *)
  due      (* of a stream: what is left of the response                     *)

vars == <<phase, due>>

TypeOK ==
  /\ phase \in [Stream -> {"none", "due", "ended", "lost"}]
  /\ due \in [Stream -> Length]

Init ==
  /\ phase = [s \in Stream |-> "none"]
  /\ due = [s \in Stream |-> 0]

(* What a response may be when n units are left.                           *)
Phases(n) == {"due"} \cup {p \in {"ended"} : n = 0}

(* n units are left, of a response that is new or was due. A response may  *)
(* be delivered, in part or whole, as it is settled.                       *)
Deliver(s, n) ==
  /\ \/ phase[s] = "none"
     \/ phase[s] = "due" /\ n <= due[s]
  /\ \E p \in Phases(n) : phase' = [phase EXCEPT ![s] = p]
  /\ due' = [due EXCEPT ![s] = n]

(* A connection that is aborted loses its responses, the process all.      *)
Lose(S) ==
  /\ S # {} /\ \A s \in S : phase[s] = "due"
  /\ phase' = [s \in Stream |-> IF s \in S THEN "lost" ELSE phase[s]]
  /\ due' = [s \in Stream |-> IF s \in S THEN 0 ELSE due[s]]

Next ==
  \/ \E s \in Stream, n \in Length : Deliver(s, n)
  \/ \E S \in SUBSET Stream : Lose(S)

Spec == Init /\ [][Next]_vars

=============================================================================
