--------------------------- MODULE MCQuotaOffload ---------------------------
(* QuotaOffload on a small instance: symmetric addresses and slots for the *)
(* safety runs, which state nothing about a particular one.                *)
EXTENDS QuotaOffload, TLC

Symmetry == Permutations(Addr) \cup Permutations(Conn)

=============================================================================
