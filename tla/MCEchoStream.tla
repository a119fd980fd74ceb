---------------------------- MODULE MCEchoStream ----------------------------
(* EchoStream with a buffer of a few bytes.                                *)
EXTENDS EchoStream, TLC

Symmetry == Permutations(Stream) \cup Permutations(Letter)

=============================================================================
