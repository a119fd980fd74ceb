--------------------------- MODULE MCXdpLifecycle ---------------------------
(* XdpLifecycle on a small instance. *)
EXTENDS XdpLifecycle, TLC

Symmetry == Permutations(Proc) \cup Permutations(ProgId) \cup Permutations(Handler)

=============================================================================
