------------------------------ MODULE EchoSpec ------------------------------
(***************************************************************************)
(* What the echo server promises to a stream it serves: every line comes   *)
(* back, whole and in its turn.                                            *)
(*                                                                         *)
(* Bytes are received until a line is complete; no further byte is taken   *)
(* before the line is sent back, all of it at once. A line has no more     *)
(* than Room bytes. A stream may be lost at any time, and with it what it  *)
(* was promised.                                                           *)
(***************************************************************************)
EXTENDS Naturals, Sequences

CONSTANTS
  Stream,     (* streams                                                    *)
  Byte,       (* what they carry                                            *)
  NL,         (* the byte that ends a line                                  *)
  Room        (* bytes a line may have                                      *)

VARIABLES
  served,     (* the streams that the promise is still made to              *)
  input,      (* of a stream: the bytes it sent                             *)
  output      (* of a stream: the bytes that came back                      *)

vars == <<served, input, output>>

Init ==
  /\ served \in SUBSET Stream
  /\ input = [s \in Stream |-> <<>>]
  /\ output = [s \in Stream |-> <<>>]

Waiting(s) == Len(input[s]) - Len(output[s])

LineWaits(s) == Waiting(s) > 0 /\ input[s][Len(input[s])] = NL

Receive(s, b) ==
  /\ s \in served
  /\ ~ LineWaits(s)
  /\ Waiting(s) < Room
  /\ input' = [input EXCEPT ![s] = Append(@, b)]
  /\ UNCHANGED <<served, output>>

Reply(s) ==
  /\ s \in served
  /\ LineWaits(s)
  /\ output' = [output EXCEPT ![s] = input[s]]
  /\ UNCHANGED <<served, input>>

Lose(s) ==
  /\ s \in served
  /\ served' = served \ {s}
  /\ input' = [input EXCEPT ![s] = <<>>]
  /\ output' = [output EXCEPT ![s] = <<>>]

Next ==
  \E s \in Stream : Reply(s) \/ Lose(s) \/ \E b \in Byte : Receive(s, b)

Spec == Init /\ [][Next]_vars

=============================================================================
